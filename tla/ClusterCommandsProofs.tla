------------------------ MODULE ClusterCommandsProofs ------------------------
(***************************************************************************)
(* Types, and what a command promises about the object that it creates,    *)
(* for every set of objects, jobs and runs.                                *)
(*                                                                         *)
(* The promise speaks of the object that a run has made and of the stage   *)
(* that the run is in.  IInv adds which calls belong to which command      *)
(* (ControlInv), that a run's object has the name that the user gave and   *)
(* is made by the call that creates it (OwnInv), and that a run that says  *)
(* that its wait failed has left nothing (UndoneInv).                      *)
(***************************************************************************)
EXTENDS ClusterCommands, FiniteSetTheorems, TLAPS

Creating == {"create", "add", "install"}
Deleting == {"delete", "uninstall", "remove"}
Updating == {"update", "upgrade"}

\* What an object is when m of them have been made.
IsObject(o, m) ==
  /\ {"uid", "spec", "status", "bundle", "deleting"} \subseteq DOMAIN o
  /\ o.uid \in 0..m /\ o.status \subseteq Conditions /\ o.deleting \in BOOLEAN

ObjectsInv ==
  /\ objs = [n \in Names |-> objs[n]]
  /\ \A n \in Names : IsObject(objs[n], made)
  /\ made \in Nat /\ made <= MaxObjects

\* The types of everything else.
LocalInv ==
  /\ job \in [Procs -> Jobs]
  /\ at \in [Procs -> Names \cup {None}]
  /\ todo \in [Procs -> SUBSET Names] /\ gone \in [Procs -> SUBSET Names]
  /\ failed \in [Procs -> SUBSET Names]
  /\ read = [p \in Procs |-> read[p]]
  /\ fresh \in [Procs -> BOOLEAN]
  /\ pods \in Seq(1..MaxPods) /\ pod \in [Procs -> 0..MaxPods]

RunsInv ==
  /\ LocalInv
  /\ pc \in [Procs -> Calls \cup Ended] /\ why \in [Procs -> Reasons]

HistoryInv ==
  /\ mine \in [Procs -> 0..made] /\ edited \subseteq 1..made
  /\ asked \in [Procs -> SUBSET (Names \X (1..made))]
  /\ base \in [Procs -> SUBSET (Names \X (1..made))]
  /\ \A w \in worked : w[1] \in Names /\ w[2] \in 1..made

\* Which commands make which calls.
MayCall(j, call) ==
  /\ call = "CleanUp" => j.kind \in {"create", "add"}
  /\ call = "WaitCleanUp" => j.kind = "install"
  /\ call \in {"Pull", "Create"} => j.kind \in Creating
  /\ call = "Wait" => j.kind \in Creating \cup {"upgrade"}
  /\ call \in {"List", "Delete", "WaitGone"} => j.kind \in Deleting
  /\ call \in {"Get", "Update"} => j.kind \in Updating
  /\ call = "Look" => j.kind = "get"
  /\ call \in {"ListServing", "FindPod", "Forward", "Fetch"} => j.kind = "search"
  /\ call \in {"Wait", "CleanUp", "WaitCleanUp"} /\ j.kind \in Creating => ~j.dry

Control(p) ==
  /\ MayCall(job[p], pc[p])
  /\ job[p].kind \in Creating \cup Updating => at[p] = job[p].name /\ at[p] \in Names
  /\ pc[p] = "WaitGone" => at[p] \in Names
  /\ why[p] # "none" => pc[p] = "Failed"

ControlInv == \A p \in Procs : Control(p)

\* What a run has created.
OwnInv ==
  \A p \in Procs :
    /\ Stage(p) = "before" => mine[p] = 0
    /\ \A n \in Names : Exists(n) /\ objs[n].uid = mine[p] => n = at[p]

UndoneInv == \A p \in Procs : Stage(p) = "undone" => ~OwnLives(p)

IInv == ObjectsInv /\ RunsInv /\ HistoryInv /\ ControlInv /\ OwnInv /\ UndoneInv

LEMMA IInvTypes == IInv => TypeOK
BY ObjectBounds DEF IInv, ObjectsInv, IsObject, RunsInv, LocalInv, HistoryInv, TypeOK

-----------------------------------------------------------------------------
(***************************************************************************)
(* Objects.                                                                *)
(***************************************************************************)

LEMMA NoObjectType ==
  /\ NoObject.uid = 0 /\ NoObject.deleting = FALSE
  /\ \A m \in Nat : IsObject(NoObject, m)
BY DEF NoObject, IsObject

LEMMA NewObjectType ==
  ASSUME NEW spec, made \in Nat
  PROVE  /\ NewObject(spec).uid = made + 1 /\ NewObject(spec).deleting = FALSE
         /\ IsObject(NewObject(spec), made + 1)
BY DEF NewObject, IsObject

LEMMA LaterType ==
  ASSUME NEW m \in Nat, NEW o, IsObject(o, m)
  PROVE  IsObject(o, m + 1)
BY DEF IsObject

\* What is written to an object that is there.
LEMMA MarkedType ==
  ASSUME NEW m \in Nat, NEW o, IsObject(o, m)
  PROVE  LET marked == [o EXCEPT !.deleting = TRUE]
         IN  IsObject(marked, m) /\ marked.uid = o.uid /\ marked.deleting
BY DEF IsObject

LEMMA EditType ==
  ASSUME NEW m \in Nat, NEW o, IsObject(o, m), NEW s
  PROVE  LET edit == [o EXCEPT !.spec = s]
         IN  IsObject(edit, m) /\ edit.uid = o.uid /\ edit.deleting = o.deleting
BY DEF IsObject

\* What a step may do to the objects: none that is gone or going comes back.
Moves ==
  /\ ObjectsInv' /\ made' \in {made, made + 1}
  /\ \A n \in Names :
       \/ objs'[n].uid = objs[n].uid /\ (objs[n].deleting => objs'[n].deleting)
       \/ objs'[n].uid = 0
       \/ objs'[n].uid = made + 1

LEMMA Still == ASSUME ObjectsInv, UNCHANGED <<objs, made>> PROVE Moves
BY DEF ObjectsInv, Moves

LEMMA PutMoves ==
  ASSUME ObjectsInv, RunsInv, NEW n \in Names, NEW o, Put(n, o), made' = made, IsObject(o, made),
         o.uid = 0 \/ (o.uid = objs[n].uid /\ (objs[n].deleting => o.deleting))
  PROVE  Moves /\ fresh' \in [Procs -> BOOLEAN]
<1>1. objs' = [m \in Names |-> IF m = n THEN o ELSE objs[m]]
  BY DEF ObjectsInv, Put
<1>2. fresh' \in [Procs -> BOOLEAN]
  BY DEF Put, Written, RunsInv, LocalInv
<1> QED
  BY <1>1, <1>2 DEF ObjectsInv, Moves

LEMMA MakeMoves ==
  ASSUME ObjectsInv, NEW n \in Names, NEW spec, made < MaxObjects,
         objs' = [objs EXCEPT ![n] = NewObject(spec)], made' = made + 1
  PROVE  Moves /\ objs'[n] = NewObject(spec)
<1>1. objs' = [m \in Names |-> IF m = n THEN NewObject(spec) ELSE objs[m]]
  BY DEF ObjectsInv
<1>2. \A m \in Names : IsObject(objs[m], made + 1)
  BY LaterType DEF ObjectsInv
<1>3. made \in Nat /\ made' \in Nat /\ made' <= MaxObjects
  BY ObjectBounds DEF ObjectsInv
<1>4. IsObject(NewObject(spec), made') /\ NewObject(spec).uid = made + 1
  BY <1>3, NewObjectType
<1>5. ASSUME NEW m \in Names
      PROVE  /\ IsObject(objs'[m], made')
             /\ objs'[m] = objs[m] \/ objs'[m].uid = made + 1
  BY <1>1, <1>2, <1>4
<1> QED
  BY <1>1, <1>3, <1>5 DEF ObjectsInv, Moves

\* The types of the history hold on as objects are made.
LEMMA HistoryGrows ==
  ASSUME HistoryInv, ObjectsInv, Moves, UNCHANGED history
  PROVE  HistoryInv'
BY DEF HistoryInv, Moves, ObjectsInv, history

\* Nobody brings back what a run has created.
LEMMA OwnStays ==
  ASSUME ObjectsInv, HistoryInv, OwnInv, Moves, NEW q \in Procs, mine'[q] = mine[q]
  PROVE  /\ OwnLives(q)' => OwnLives(q)
         /\ at'[q] = at[q] => \A n \in Names : Exists(n)' /\ objs'[n].uid = mine'[q] => n = at'[q]
<1>1. ASSUME NEW n \in Names, Exists(n)', objs'[n].uid = mine'[q]
      PROVE  objs'[n].uid = objs[n].uid /\ (objs[n].deleting => objs'[n].deleting)
  BY <1>1 DEF Moves, HistoryInv, ObjectsInv, Exists
<1>2. OwnLives(q)' => OwnLives(q)
  BY <1>1 DEF OwnLives, Living, Exists
<1> QED
  BY <1>1, <1>2 DEF OwnInv, Exists

-----------------------------------------------------------------------------
(***************************************************************************)
(* Steps of OwnedObject.                                                   *)
(***************************************************************************)

\* How a run that creates nothing in this step may go on.
StageStep(p) ==
  \/ Stage(p)' = Stage(p)
  \/ Stage(p) = "undoing" /\ Stage(p)' = "undone" /\ ~OwnLives(p)'
  \/ UNCHANGED objs /\ Stage(p) = "before"  /\ Stage(p)' = "refused"
  \/ UNCHANGED objs /\ Stage(p) = "waiting" /\ Stage(p)' \in {"succeeded", "undoing"}
  \/ UNCHANGED objs /\ Stage(p) = "undoing" /\ Stage(p)' = "left"

LEMMA StageStepImplements ==
  ASSUME NEW p \in Procs, StageStep(p), \A q \in Procs \ {p} : Stage(q)' = Stage(q),
         \A q \in Procs : OwnLives(q)' => OwnLives(q),
         UNCHANGED objs => \A q \in Procs : OwnLives(q)' = OwnLives(q)
  PROVE  [Owned!Next]_(Owned!vars)
<1> DEFINE stage == [q \in Procs |-> Stage(q)]
           lives == [q \in Procs |-> OwnLives(q)]
<1>1. lives' \in [Procs -> BOOLEAN] /\ \A q \in Procs : lives'[q] => lives[q]
  BY DEF OwnLives
<1>2. stage' = [stage EXCEPT ![p] = Stage(p)'] /\ stage[p] = Stage(p) /\ lives'[p] = OwnLives(p)'
  OBVIOUS
<1>3. UNCHANGED objs => lives' = lives
  OBVIOUS
<1>4. CASE Stage(p)' = Stage(p)
  <2>1. stage' = stage
    BY <1>4
  <2> QED
    BY <1>1, <2>1 DEF Owned!Next, Owned!OthersDelete
<1>5. CASE Stage(p) = "undoing" /\ Stage(p)' = "undone" /\ ~OwnLives(p)'
  <2>1. Owned!Undo(p)
    BY <1>1, <1>2, <1>5 DEF Owned!Undo, Owned!Goes
  <2> QED
    BY <2>1 DEF Owned!Next
<1>6. CASE UNCHANGED objs /\ Stage(p) = "before"  /\ Stage(p)' = "refused"
  <2>1. Owned!Refuse(p)
    BY <1>2, <1>3, <1>6 DEF Owned!Refuse, Owned!Goes
  <2> QED
    BY <2>1 DEF Owned!Next
<1>7. CASE UNCHANGED objs /\ Stage(p) = "waiting" /\ Stage(p)' \in {"succeeded", "undoing"}
  <2>1. Owned!Succeed(p) \/ Owned!GiveUp(p)
    BY <1>2, <1>3, <1>7 DEF Owned!Succeed, Owned!GiveUp, Owned!Goes
  <2> QED
    BY <2>1 DEF Owned!Next
<1>8. CASE UNCHANGED objs /\ Stage(p) = "undoing" /\ Stage(p)' = "left"
  <2>1. Owned!Leave(p)
    BY <1>2, <1>3, <1>8 DEF Owned!Leave, Owned!Goes
  <2> QED
    BY <2>1 DEF Owned!Next
<1> QED
  BY <1>4, <1>5, <1>6, <1>7, <1>8 DEF StageStep

\* What has to be shown of a step that creates nothing for a run.
Step(p) ==
  /\ Moves /\ RunsInv' /\ HistoryInv' /\ ControlInv'
  /\ UNCHANGED <<job, mine>>
  /\ StageStep(p) /\ \A q \in Procs \ {p} : Stage(q)' = Stage(q)

\* What has to be shown of one that does.
MakingStep(p) ==
  /\ Moves /\ RunsInv' /\ HistoryInv' /\ ControlInv'
  /\ UNCHANGED <<job, at>>
  /\ ~Exists(at[p]) /\ objs' = [objs EXCEPT ![at[p]] = objs'[at[p]]]
  /\ objs'[at[p]].uid = made + 1 /\ ~objs'[at[p]].deleting
  /\ mine' = [mine EXCEPT ![p] = made + 1]
  /\ Creates(p) /\ Stage(p) = "before" /\ Stage(p)' \in {"waiting", "refused"}
  /\ \A q \in Procs \ {p} : Stage(q)' = Stage(q)

LEMMA NamesStay ==
  ASSUME ControlInv, ControlInv', job' = job, NEW q \in Procs, Creates(q)
  PROVE  at'[q] = at[q] /\ at[q] \in Names
BY DEF ControlInv, Control, Creates, Creating

LEMMA StepKeeps ==
  ASSUME IInv, NEW p \in Procs, Step(p)
  PROVE  IInv' /\ [Owned!Next]_(Owned!vars)
<1>1. \A q \in Procs : OwnLives(q)' => OwnLives(q)
  BY OwnStays DEF IInv, Step
<1>2. [Owned!Next]_(Owned!vars)
  <2>1. UNCHANGED objs => \A q \in Procs : OwnLives(q)' = OwnLives(q)
    BY DEF Step, OwnLives, Living, Exists
  <2> QED
    BY <1>1, <2>1, StageStepImplements DEF Step
<1>3. OwnInv'
  <2> SUFFICES ASSUME NEW q \in Procs
               PROVE  /\ Stage(q)' = "before" => mine'[q] = 0
                      /\ \A n \in Names : Exists(n)' /\ objs'[n].uid = mine'[q] => n = at'[q]
    BY DEF OwnInv
  <2>1. Stage(q)' = "before" => Stage(q) = "before"
    BY DEF Step, StageStep
  <2>2. mine'[q] = mine[q] /\ (Stage(q)' = "before" => mine'[q] = 0)
    BY <2>1 DEF IInv, OwnInv, Step
  <2>3. CASE Creates(q)
    BY <2>2, <2>3, NamesStay, OwnStays DEF IInv, Step
  <2>4. CASE ~Creates(q)
    <3>1. mine'[q] = 0
      BY <2>2, <2>4 DEF IInv, OwnInv, Stage
    <3> QED
      BY <2>2, <3>1 DEF Exists
  <2> QED
    BY <2>3, <2>4
<1>4. UndoneInv'
  BY <1>1 DEF IInv, UndoneInv, Step, StageStep
<1> QED
  BY <1>2, <1>3, <1>4 DEF IInv, Step, Moves

LEMMA MakingStepKeeps ==
  ASSUME IInv, NEW p \in Procs, MakingStep(p)
  PROVE  IInv' /\ [Owned!Next]_(Owned!vars)
<1>0. at[p] \in Names /\ made \in Nat
  BY NamesStay DEF IInv, MakingStep, ObjectsInv
<1>1. \A n \in Names \ {at[p]} : objs'[n] = objs[n]
  BY DEF MakingStep, IInv, ObjectsInv
<1>2. \A q \in Procs : mine[q] \in Nat /\ mine[q] <= made
  BY <1>0 DEF IInv, HistoryInv
<1>3. \A q \in Procs \ {p} : mine'[q] = mine[q]
  BY DEF MakingStep, IInv, HistoryInv
<1>4. \A n \in Names : objs[n].uid \in Nat /\ objs[n].uid <= made
  BY <1>0 DEF IInv, ObjectsInv, IsObject
<1>5. ASSUME NEW q \in Procs \ {p} PROVE OwnLives(q)' = OwnLives(q)
  BY <1>0, <1>1, <1>2, <1>3 DEF MakingStep, OwnLives, Living, Exists
<1>6. OwnLives(p)' /\ mine'[p] = made + 1
  BY <1>0, <1>4 DEF MakingStep, IInv, HistoryInv, OwnLives, Living, Exists
<1>7. OwnInv'
  BY <1>0, <1>1, <1>2, <1>3, <1>4, <1>6 DEF MakingStep, IInv, OwnInv, Exists
<1>8. UndoneInv'
  BY <1>5 DEF MakingStep, IInv, UndoneInv
<1>9. [Owned!Next]_(Owned!vars)
  <2> DEFINE stage == [q \in Procs |-> Stage(q)]
             lives == [q \in Procs |-> OwnLives(q)]
  <2>1. stage' = [stage EXCEPT ![p] = Stage(p)'] /\ stage[p] = "before"
    BY DEF MakingStep
  <2>2. lives' = [lives EXCEPT ![p] = TRUE]
    BY <1>5, <1>6 DEF OwnLives
  <2>3. Owned!Create(p) \/ Owned!Refuse(p)
    BY <2>1, <2>2 DEF MakingStep, Owned!Create, Owned!Refuse, Owned!Goes
  <2> QED
    BY <2>3 DEF Owned!Next
<1> QED
  BY <1>7, <1>8, <1>9 DEF IInv, MakingStep, Moves

-----------------------------------------------------------------------------
(***************************************************************************)
(* How the step of a run shows that it is a Step.                          *)
(***************************************************************************)

\* All but pc and why.
Quiet(p) ==
  /\ Moves /\ HistoryInv' /\ LocalInv' /\ UNCHANGED <<job, mine>>
  /\ \A q \in Procs \ {p} : at'[q] = at[q]
  /\ job[p].kind \in Creating \cup Updating => at'[p] = at[p]

LEMMA OneMoves ==
  ASSUME IInv, NEW p \in Procs, Quiet(p), RunsInv', Control(p)', StageStep(p),
         \A q \in Procs \ {p} : pc'[q] = pc[q] /\ why'[q] = why[q]
  PROVE  Step(p)
<1>1. ASSUME NEW q \in Procs \ {p} PROVE Control(q)' /\ Stage(q)' = Stage(q)
  BY DEF IInv, ControlInv, Control, Quiet, Stage, FailedStage, Creates
<1> QED
  BY <1>1 DEF Step, ControlInv, Quiet

LEMMA GotoStep ==
  ASSUME IInv, NEW p \in Procs, NEW call \in Calls \cup Ended, Quiet(p), Goto(p, call),
         pc[p] \in Calls, MayCall(job[p], call), call = "WaitGone" => at'[p] \in Names,
         Creates(p) => /\ UNCHANGED objs
                       /\ \/ pc[p] \in {"Validate", "Pull"} /\ call \in {"Pull", "Create"}
                          \/ pc[p] = "Wait" /\ call \in {"Done", "CleanUp", "WaitCleanUp"}
  PROVE  Step(p)
<1>1. /\ pc' \in [Procs -> Calls \cup Ended] /\ why' = why /\ pc'[p] = call
      /\ \A q \in Procs \ {p} : pc'[q] = pc[q]
  BY DEF Goto, IInv, RunsInv
<1>2. why[p] = "none"
  BY DEF IInv, ControlInv, Control, Calls
<1>3. Control(p)'
  BY <1>1, <1>2 DEF IInv, ControlInv, Control, Quiet
<1>4. RunsInv'
  BY <1>1 DEF IInv, RunsInv, Quiet
<1>5. StageStep(p)
  BY <1>1 DEF StageStep, Stage, Creates, Quiet
<1> QED
  BY <1>1, <1>3, <1>4, <1>5, OneMoves

LEMMA FailStep ==
  ASSUME IInv, NEW p \in Procs, NEW reason \in Reasons, Quiet(p), Fail(p, reason),
         pc[p] \in Calls,
         Creates(p) => \/ /\ UNCHANGED objs /\ pc[p] \in {"Validate", "Pull", "Create"}
                          /\ reason \notin {"wait", "leftover"}
                       \/ /\ UNCHANGED objs /\ pc[p] \in {"CleanUp", "WaitCleanUp"}
                          /\ reason = "leftover"
                       \/ /\ pc[p] \in {"CleanUp", "WaitCleanUp"}
                          /\ reason = "wait" /\ ~OwnLives(p)'
  PROVE  Step(p)
<1>1. /\ pc' \in [Procs -> Calls \cup Ended] /\ why' \in [Procs -> Reasons]
      /\ pc'[p] = "Failed" /\ why'[p] = reason
      /\ \A q \in Procs \ {p} : pc'[q] = pc[q] /\ why'[q] = why[q]
  BY DEF Fail, IInv, RunsInv, Ended
<1>2. Control(p)'
  BY <1>1 DEF IInv, ControlInv, Control, MayCall, Quiet
<1>3. RunsInv'
  BY <1>1 DEF IInv, RunsInv, Quiet
<1>4. StageStep(p)
  BY <1>1 DEF StageStep, Stage, FailedStage, Creates, Quiet
<1> QED
  BY <1>1, <1>2, <1>3, <1>4, OneMoves

\* What a call that writes nothing has to show of the rest.
LEMMA ReadOnly ==
  ASSUME IInv, NEW p \in Procs, UNCHANGED <<objs, made, history, job>>, LocalInv',
         \A q \in Procs \ {p} : at'[q] = at[q],
         job[p].kind \in Creating \cup Updating => at'[p] = at[p]
  PROVE  Quiet(p)
<1>1. Moves
  BY Still DEF IInv
<1> QED
  BY <1>1, HistoryGrows DEF IInv, Quiet, history

\* The calls, by name.
LEMMA CallsNamed ==
  /\ {"Validate", "Pull", "Create", "Wait", "CleanUp", "WaitCleanUp", "List", "Delete", "WaitGone",
      "Get", "Update", "Look", "ListServing", "FindPod", "Forward", "Fetch"} \subseteq Calls
  /\ {"Done", "Failed"} \subseteq Ended
  /\ {"flags", "call", "exists", "gone", "wait", "leftover", "some", "noResources", "conflict",
      "version", "noChange", "panic", "noneServing", "notFound"} \subseteq Reasons
BY DEF Calls, Ended, Reasons

-----------------------------------------------------------------------------
(***************************************************************************)
(* Calls that write nothing.                                               *)
(***************************************************************************)

\* Nothing changes but pc and why.
LEMMA Unmoved ==
  ASSUME IInv, NEW p \in Procs, UNCHANGED <<objs, made, local, fresh, history, pods, pod>>
  PROVE  Quiet(p)
<1>1. LocalInv'
  BY DEF IInv, RunsInv, LocalInv, local
<1> QED
  BY <1>1, ReadOnly DEF local

\* Nothing changes but pc, why and todo.
LEMMA OnlyTodo ==
  ASSUME IInv, NEW p \in Procs, NEW names \in SUBSET Names, todo' = [todo EXCEPT ![p] = names],
         UNCHANGED <<objs, made, job, at, gone, failed, read, fresh, history, pods, pod>>
  PROVE  Quiet(p)
<1>1. LocalInv'
  BY DEF IInv, RunsInv, LocalInv
<1> QED
  BY <1>1, ReadOnly

LEMMA KindOfJob ==
  ASSUME IInv, NEW p \in Procs
  PROVE  /\ job[p].name \in Names \cup {None}
         /\ job[p].kind \in {"remove"} \cup Creating \cup Updating => job[p].name \in Names
BY JobsAreTyped DEF IInv, RunsInv, LocalInv, Creating, Updating

\* Which commands make the calls that come after the first.
LEMMA NextCalls ==
  ASSUME NEW j
  PROVE  /\ j.kind \in Creating => MayCall(j, "Pull") /\ MayCall(j, "Create")
         /\ j.kind \in Creating /\ ~j.dry => MayCall(j, "Wait")
         /\ j.kind = "upgrade" => MayCall(j, "Wait")
         /\ j.kind \in {"create", "add"} /\ ~j.dry => MayCall(j, "CleanUp")
         /\ j.kind = "install" /\ ~j.dry => MayCall(j, "WaitCleanUp")
         /\ j.kind \in Updating => MayCall(j, "Get") /\ MayCall(j, "Update")
         /\ j.kind \in Deleting => MayCall(j, "List") /\ MayCall(j, "Delete") /\ MayCall(j, "WaitGone")
         /\ j.kind = "get" => MayCall(j, "Look")
         /\ j.kind = "search" => /\ MayCall(j, "ListServing") /\ MayCall(j, "FindPod")
                                 /\ MayCall(j, "Forward") /\ MayCall(j, "Fetch")
         /\ MayCall(j, "Done")
BY DEF MayCall, Creating, Updating, Deleting

\* A command that creates nothing, or a dry run of one, goes on to another call.
LEMMA OtherGoto ==
  ASSUME IInv, NEW p \in Procs, NEW call \in Calls \cup Ended, Quiet(p), Goto(p, call),
         pc[p] \in Calls, MayCall(job[p], call), call # "WaitGone", ~Creates(p)
  PROVE  Step(p)
BY GotoStep

\* create, update, install and upgrade start.
LEMMA StartsWriting ==
  ASSUME IInv, NEW p \in Procs, UNCHANGED searchVars,
         StartCreate(p) \/ StartCatalogUpdate(p) \/ StartExtension(p)
  PROVE  Step(p)
<1>1. /\ pc[p] = "Validate" /\ UNCHANGED objs
      /\ \/ job[p].kind \in {"create", "install"} /\ Goto(p, "Create")
         \/ job[p].kind \in Updating /\ Goto(p, "Get")
         \/ Fail(p, "flags")
  BY DEF StartCreate, StartCatalogUpdate, StartExtension, Updating
<1>2. Quiet(p)
  BY Unmoved DEF StartCreate, StartCatalogUpdate, StartExtension, searchVars
<1>3. CASE job[p].kind \in {"create", "install"} /\ Goto(p, "Create")
  <2>1. MayCall(job[p], "Create")
    BY <1>3, NextCalls DEF Creating
  <2> QED
    BY <1>1, <1>2, <1>3, <2>1, GotoStep, CallsNamed
<1>4. CASE job[p].kind \in Updating /\ Goto(p, "Get")
  <2>1. MayCall(job[p], "Get") /\ ~Creates(p)
    BY <1>4, NextCalls DEF Creates, Updating
  <2> QED
    BY <1>1, <1>2, <1>4, <2>1, OtherGoto, CallsNamed
<1>5. CASE Fail(p, "flags")
  BY <1>1, <1>2, <1>5, FailStep, CallsNamed
<1> QED
  BY <1>1, <1>3, <1>4, <1>5

\* get and search start.
LEMMA StartsReading ==
  ASSUME IInv, NEW p \in Procs, StartGet(p) \/ StartSearch(p)
  PROVE  Step(p)
<1>1. pc[p] = "Validate" /\ job[p].kind \in {"get", "search"} /\ ~Creates(p)
  BY DEF StartGet, StartSearch, Creates
<1>2. Quiet(p)
  BY Unmoved DEF StartGet, StartSearch, searchVars
<1>3. CASE StartGet(p)
  <2>1. Goto(p, "Look") /\ MayCall(job[p], "Look")
    BY <1>3, NextCalls DEF StartGet
  <2> QED
    BY <1>1, <1>2, <2>1, OtherGoto, CallsNamed
<1>4. CASE StartSearch(p)
  <2>1. Goto(p, "ListServing") /\ MayCall(job[p], "ListServing")
    BY <1>4, NextCalls DEF StartSearch
  <2> QED
    BY <1>1, <1>2, <2>1, OtherGoto, CallsNamed
<1> QED
  BY <1>3, <1>4

\* delete, uninstall and remove start, and add.
LEMMA StartsRemoving ==
  ASSUME IInv, NEW p \in Procs, UNCHANGED searchVars,
         StartDelete(p) \/ StartUninstall(p) \/ StartSource(p)
  PROVE  Step(p)
<1>1. /\ pc[p] = "Validate" /\ UNCHANGED objs
      /\ UNCHANGED <<objs, made, job, at, gone, failed, read, fresh, history, pods, pod>>
      /\ \/ job[p].kind \in Deleting /\ Goto(p, "List") /\ UNCHANGED todo
         \/ /\ job[p].kind \in Deleting /\ Goto(p, "Delete")
            /\ job[p].name # None \/ job[p].kind = "remove"
            /\ todo' = [todo EXCEPT ![p] = {job[p].name}]
         \/ job[p].kind = "add" /\ Goto(p, "Pull") /\ UNCHANGED todo
  BY DEF StartDelete, StartUninstall, StartSource, Deleting, searchVars
<1>2. UNCHANGED todo => Quiet(p)
  BY <1>1, Unmoved DEF local
<1>3. ASSUME job[p].kind \in Deleting
      PROVE  MayCall(job[p], "List") /\ MayCall(job[p], "Delete") /\ ~Creates(p)
  BY <1>3, NextCalls DEF Creates, Deleting
<1>4. CASE job[p].kind \in Deleting /\ Goto(p, "List") /\ UNCHANGED todo
  BY <1>1, <1>2, <1>3, <1>4, OtherGoto, CallsNamed
<1>5. CASE /\ job[p].kind \in Deleting /\ Goto(p, "Delete")
           /\ job[p].name # None \/ job[p].kind = "remove"
           /\ todo' = [todo EXCEPT ![p] = {job[p].name}]
  <2>1. {job[p].name} \in SUBSET Names
    BY <1>5, KindOfJob
  <2>2. Quiet(p)
    BY <1>1, <1>5, <2>1, OnlyTodo
  <2> QED
    BY <1>1, <1>3, <1>5, <2>2, OtherGoto, CallsNamed
<1>6. CASE job[p].kind = "add" /\ Goto(p, "Pull") /\ UNCHANGED todo
  <2>1. MayCall(job[p], "Pull")
    BY <1>6, NextCalls DEF Creating
  <2> QED
    BY <1>1, <1>2, <1>6, <2>1, GotoStep, CallsNamed
<1> QED
  BY <1>1, <1>4, <1>5, <1>6

LEMMA Pulls ==
  ASSUME IInv, NEW p \in Procs, UNCHANGED searchVars, PullImage(p)
  PROVE  Step(p)
<1>1. pc[p] = "Pull" /\ UNCHANGED objs /\ (Goto(p, "Create") \/ Fail(p, "call"))
  BY DEF PullImage
<1>2. Quiet(p)
  BY Unmoved DEF PullImage, searchVars
<1>3. MayCall(job[p], "Create")
  BY NextCalls DEF PullImage, Creating
<1>4. CASE Goto(p, "Create")
  BY <1>1, <1>2, <1>3, <1>4, GotoStep, CallsNamed
<1>5. CASE Fail(p, "call")
  BY <1>1, <1>2, <1>5, FailStep, CallsNamed
<1> QED
  BY <1>1, <1>4, <1>5

\* The waits for what a run has created or changed.
LEMMA Waits ==
  ASSUME IInv, NEW p \in Procs, UNCHANGED searchVars,
         WaitServing(p) \/ WaitReady(p) \/ WaitInstalled(p) \/ WaitUpgraded(p)
  PROVE  Step(p)
<1>1. /\ pc[p] = "Wait" /\ UNCHANGED objs
      /\ UNCHANGED <<objs, made, local, fresh, history, pods, pod>>
      /\ \/ Goto(p, "Done")
         \/ job[p].kind \in {"create", "add"} /\ Goto(p, "CleanUp")
         \/ job[p].kind = "install" /\ Goto(p, "WaitCleanUp")
         \/ job[p].kind = "upgrade" /\ Fail(p, "gone")
  BY DEF WaitServing, WaitReady, WaitInstalled, WaitUpgraded, WaitFor, searchVars
<1>2. Quiet(p)
  BY <1>1, Unmoved
<1>3. job[p].kind \in Creating => ~job[p].dry
  BY <1>1 DEF IInv, ControlInv, Control, MayCall
<1>4. CASE Goto(p, "Done")
  BY <1>1, <1>2, <1>4, GotoStep, NextCalls, CallsNamed
<1>5. CASE job[p].kind \in {"create", "add"} /\ Goto(p, "CleanUp")
  <2>1. MayCall(job[p], "CleanUp")
    BY <1>3, <1>5, NextCalls DEF Creating
  <2> QED
    BY <1>1, <1>2, <1>5, <2>1, GotoStep, CallsNamed
<1>6. CASE job[p].kind = "install" /\ Goto(p, "WaitCleanUp")
  <2>1. MayCall(job[p], "WaitCleanUp")
    BY <1>3, <1>6, NextCalls DEF Creating
  <2> QED
    BY <1>1, <1>2, <1>6, <2>1, GotoStep, CallsNamed
<1>7. CASE job[p].kind = "upgrade" /\ Fail(p, "gone")
  BY <1>1, <1>2, <1>7, FailStep, CallsNamed DEF Creates
<1> QED
  BY <1>1, <1>4, <1>5, <1>6, <1>7

\* WaitCleanUp has seen the extension gone.
LEMMA WaitsForCleanUp ==
  ASSUME IInv, NEW p \in Procs, UNCHANGED searchVars, WaitCleanUp(p)
  PROVE  Step(p)
<1>1. Quiet(p)
  BY Unmoved DEF WaitCleanUp, searchVars
<1>2. ~OwnLives(p)
  BY DEF WaitCleanUp, IInv, OwnInv, OwnLives, Living
<1>3. ~OwnLives(p)'
  BY <1>2 DEF WaitCleanUp, history, OwnLives, Living, Exists
<1> QED
  BY <1>1, <1>3, FailStep, CallsNamed DEF WaitCleanUp

-----------------------------------------------------------------------------
(***************************************************************************)
(* Deletions.                                                              *)
(***************************************************************************)

LEMMA Deletes ==
  ASSUME IInv, NEW p \in Procs, NEW n \in Names, Exists(n), DeleteObject(p, n)
  PROVE  /\ Moves /\ HistoryInv' /\ fresh' \in [Procs -> BOOLEAN] /\ UNCHANGED mine
         /\ objs'[n].uid = 0 \/ objs'[n].deleting
         /\ \A m \in Names \ {n} : objs'[m] = objs[m]
<1> DEFINE marked == [objs[n] EXCEPT !.deleting = TRUE]
<1>1. made' = made /\ made \in Nat /\ objs = [m \in Names |-> objs[m]]
  BY DEF DeleteObject, IInv, ObjectsInv
<1>2. IsObject(marked, made) /\ marked.uid = objs[n].uid /\ marked.deleting
  BY <1>1, MarkedType DEF IInv, ObjectsInv
<1>3. \/ UNCHANGED <<objs, fresh>> /\ objs[n].deleting
      \/ Put(n, NoObject)
      \/ Put(n, marked)
  BY DEF DeleteObject
<1>4. /\ Moves /\ fresh' \in [Procs -> BOOLEAN]
      /\ objs'[n].uid = 0 \/ objs'[n].deleting
      /\ \A m \in Names \ {n} : objs'[m] = objs[m]
  <2>1. CASE UNCHANGED <<objs, fresh>> /\ objs[n].deleting
    BY <1>1, <2>1, Still DEF IInv, RunsInv, LocalInv
  <2>2. CASE Put(n, NoObject)
    <3>1. Moves /\ fresh' \in [Procs -> BOOLEAN]
      BY <1>1, <2>2, NoObjectType, PutMoves DEF IInv
    <3>2. objs' = [m \in Names |-> IF m = n THEN NoObject ELSE objs[m]]
      BY <1>1, <2>2 DEF Put
    <3> QED
      BY <3>1, <3>2, NoObjectType
  <2>3. CASE Put(n, marked)
    <3>1. Moves /\ fresh' \in [Procs -> BOOLEAN]
      BY <1>1, <1>2, <2>3, PutMoves DEF IInv
    <3>2. objs' = [m \in Names |-> IF m = n THEN marked ELSE objs[m]]
      BY <1>1, <2>3 DEF Put
    <3>3. objs'[n] = marked /\ \A m \in Names \ {n} : objs'[m] = objs[m]
      BY <3>2
    <3> QED
      BY <1>2, <3>1, <3>3
  <2> QED
    BY <1>3, <2>1, <2>2, <2>3
<1>5. objs[n].uid \in 1..made
  BY <1>1 DEF Exists, IInv, ObjectsInv, IsObject
<1>6. HistoryInv'
  BY <1>1, <1>5 DEF DeleteObject, IInv, HistoryInv
<1> QED
  BY <1>4, <1>6 DEF DeleteObject

\* A deletion has dealt with n and goes on to the next object.
LEMMA Accounts ==
  ASSUME IInv, NEW p \in Procs, NEW n \in Names, Missed(p, n) \/ Deleted(p, n),
         UNCHANGED <<job, at, read, pods, pod, mine>>, fresh' \in [Procs -> BOOLEAN],
         Moves, HistoryInv', job[p].kind \in Deleting, pc[p] \in Calls
  PROVE  Step(p)
<1>1. /\ todo' = [todo EXCEPT ![p] = todo[p] \ {n}]
      /\ gone' = gone \/ gone' = [gone EXCEPT ![p] = @ \cup {n}]
      /\ failed' = failed \/ failed' = [failed EXCEPT ![p] = @ \cup {n}]
      /\ Goto(p, "Delete") \/ Goto(p, "Done") \/ Fail(p, "some")
  BY DEF Missed, Deleted, Next1
<1>2. LocalInv'
  <2>1. todo' \in [Procs -> SUBSET Names]
    BY <1>1 DEF IInv, RunsInv, LocalInv
  <2>0. gone \in [Procs -> SUBSET Names] /\ failed \in [Procs -> SUBSET Names]
    BY DEF IInv, RunsInv, LocalInv
  <2>2. gone' \in [Procs -> SUBSET Names]
    BY <1>1, <2>0
  <2>3. failed' \in [Procs -> SUBSET Names]
    BY <1>1, <2>0
  <2> QED
    BY <2>1, <2>2, <2>3 DEF IInv, RunsInv, LocalInv
<1>3. Quiet(p)
  BY <1>2 DEF Quiet
<1>4. MayCall(job[p], "Delete") /\ MayCall(job[p], "Done") /\ ~Creates(p)
  BY NextCalls DEF Creates, Deleting
<1>5. CASE Goto(p, "Delete") \/ Goto(p, "Done")
  BY <1>3, <1>4, <1>5, OtherGoto, CallsNamed
<1>6. CASE Fail(p, "some")
  BY <1>3, <1>4, <1>6, FailStep, CallsNamed
<1> QED
  BY <1>1, <1>5, <1>6

LEMMA StillHistory ==
  ASSUME IInv, UNCHANGED <<objs, made, history>>
  PROVE  Moves /\ HistoryInv'
BY Still, HistoryGrows DEF IInv

LEMMA Removes ==
  ASSUME IInv, NEW p \in Procs, UNCHANGED searchVars, job[p].kind \in Deleting,
         DeleteNext(p) \/ WaitForDeletion(p)
  PROVE  Step(p)
<1>1. todo[p] \subseteq Names /\ fresh \in [Procs -> BOOLEAN]
  BY DEF IInv, RunsInv, LocalInv
<1>2. CASE WaitForDeletion(p)
  <2>1. at[p] \in Names
    BY <1>2 DEF WaitForDeletion, IInv, ControlInv, Control
  <2>2. Moves /\ HistoryInv'
    BY <1>2, StillHistory DEF WaitForDeletion
  <2> QED
    BY <1>1, <1>2, <2>1, <2>2, Accounts, CallsNamed DEF WaitForDeletion, searchVars, history
<1>3. ASSUME DeleteNext(p), NEW n \in todo[p], Missed(p, n) \/ Deleted(p, n),
             UNCHANGED <<objs, made, at, fresh, history>>
      PROVE  Step(p)
  <2>1. Moves /\ HistoryInv'
    BY <1>3, StillHistory
  <2> QED
    BY <1>1, <1>3, <2>1, Accounts, CallsNamed DEF DeleteNext, searchVars, history
<1>4. ASSUME DeleteNext(p), NEW n \in todo[p], Exists(n), Goto(p, "WaitGone"),
             DeleteObject(p, n), at' = [at EXCEPT ![p] = n], UNCHANGED <<todo, gone, failed>>
      PROVE  Step(p)
  <2>1. n \in Names /\ UNCHANGED <<job, read, pods, pod>>
    BY <1>1, <1>4 DEF DeleteNext, searchVars
  <2>2. Moves /\ HistoryInv' /\ fresh' \in [Procs -> BOOLEAN] /\ UNCHANGED mine
    BY <1>4, <2>1, Deletes
  <2>3. at' \in [Procs -> Names \cup {None}] /\ at'[p] = n /\ \A q \in Procs \ {p} : at'[q] = at[q]
    BY <1>4, <2>1 DEF IInv, RunsInv, LocalInv
  <2>4. LocalInv'
    BY <1>4, <2>1, <2>2, <2>3 DEF IInv, RunsInv, LocalInv
  <2>5. Quiet(p)
    BY <2>1, <2>2, <2>3, <2>4 DEF Quiet, Deleting, Creating, Updating
  <2>6. MayCall(job[p], "WaitGone") /\ ~Creates(p)
    BY NextCalls DEF Creates, Deleting
  <2>7. pc[p] \in Calls
    BY <1>4, CallsNamed DEF DeleteNext
  <2> QED
    BY <1>4, <2>1, <2>3, <2>5, <2>6, <2>7, GotoStep, CallsNamed
<1> QED
  BY <1>2, <1>3, <1>4 DEF DeleteNext

LEMMA Lists ==
  ASSUME IInv, NEW p \in Procs, UNCHANGED searchVars, NEW kind \in SUBSET Names,
         ListObjects(p, kind), job[p].kind \in Deleting
  PROVE  Step(p)
<1>1. pc[p] \in Calls /\ (Goto(p, "Delete") \/ Fail(p, "noResources"))
  BY CallsNamed DEF ListObjects
<1>2. PICK names \in SUBSET Names : todo' = [todo EXCEPT ![p] = names]
  BY DEF ListObjects
<1>3. LocalInv'
  BY <1>2 DEF ListObjects, searchVars, IInv, RunsInv, LocalInv
<1>4. HistoryInv'
  <2>1. Live \subseteq Names \X (1..made)
    BY DEF Live, Exists, IInv, ObjectsInv, IsObject
  <2>2. base' \in [Procs -> SUBSET (Names \X (1..made))]
    BY <2>1 DEF ListObjects, IInv, HistoryInv
  <2> QED
    BY <2>2 DEF ListObjects, IInv, HistoryInv
<1>5. Quiet(p)
  BY <1>3, <1>4, Still DEF ListObjects, Quiet, IInv
<1>6. MayCall(job[p], "Delete") /\ ~Creates(p)
  BY NextCalls DEF Creates, Deleting
<1> QED
  BY <1>1, <1>5, <1>6, OtherGoto, FailStep, CallsNamed

\* The clean-up of create and add.
LEMMA CleansUp ==
  ASSUME IInv, NEW p \in Procs, UNCHANGED searchVars, CleanUp(p)
  PROVE  Step(p)
<1>1. pc[p] = "CleanUp" /\ Fail(p, "wait") /\ UNCHANGED local
  BY DEF CleanUp, DeleteWithTimeout
<1>2. at[p] \in Names
  BY DEF CleanUp, Creating, IInv, ControlInv, Control
<1>3. /\ Moves /\ HistoryInv' /\ fresh' \in [Procs -> BOOLEAN] /\ UNCHANGED mine
      /\ ~OwnLives(p)'
  <2>1. CASE Exists(at[p])
    <3>1. DeleteObject(p, at[p])
      BY <2>1 DEF CleanUp, DeleteWithTimeout
    <3>2. /\ Moves /\ HistoryInv' /\ fresh' \in [Procs -> BOOLEAN] /\ UNCHANGED mine
          /\ objs'[at[p]].uid = 0 \/ objs'[at[p]].deleting
          /\ \A m \in Names \ {at[p]} : objs'[m] = objs[m]
      BY <1>2, <2>1, <3>1, Deletes
    <3>3. ~OwnLives(p)'
      BY <3>2 DEF OwnLives, Living, Exists, IInv, OwnInv
    <3> QED
      BY <3>2, <3>3
  <2>2. CASE ~Exists(at[p])
    <3>1. UNCHANGED <<objs, made, fresh, history>>
      BY <2>2 DEF CleanUp, DeleteWithTimeout
    <3>2. ~OwnLives(p)'
      BY <2>2, <3>1 DEF OwnLives, Living, Exists, IInv, OwnInv, history
    <3> QED
      BY <3>1, <3>2, StillHistory DEF IInv, RunsInv, LocalInv, history
  <2> QED
    BY <2>1, <2>2
<1>4. LocalInv'
  BY <1>1, <1>3 DEF local, searchVars, IInv, RunsInv, LocalInv
<1>5. Quiet(p)
  BY <1>1, <1>3, <1>4 DEF Quiet, local
<1> QED
  BY <1>1, <1>3, <1>5, FailStep, CallsNamed

-----------------------------------------------------------------------------
(***************************************************************************)
(* Updates.                                                                *)
(***************************************************************************)

LEMMA Gets ==
  ASSUME IInv, NEW p \in Procs, UNCHANGED searchVars, GetCatalog(p) \/ GetExtension(p)
  PROVE  Step(p)
<1>1. /\ pc[p] = "Get" /\ job[p].kind \in Updating
      /\ UNCHANGED <<objs, made, job, at, todo, gone, failed, history, pods, pod>>
      /\ \/ Goto(p, "Update")
         \/ \E reason \in {"gone", "flags", "version", "noChange", "panic"} : Fail(p, reason)
  BY DEF GetCatalog, GetExtension, Updating, searchVars
<1>2. read' = [q \in Procs |-> read'[q]] /\ fresh' \in [Procs -> BOOLEAN]
  BY DEF GetCatalog, GetExtension, GetObject, IInv, RunsInv, LocalInv
<1>3. LocalInv'
  BY <1>1, <1>2 DEF IInv, RunsInv, LocalInv
<1>4. Quiet(p)
  BY <1>1, <1>3, ReadOnly
<1>5. MayCall(job[p], "Update") /\ ~Creates(p)
  BY <1>1, NextCalls DEF Creates, Updating
<1>6. CASE Goto(p, "Update")
  BY <1>1, <1>4, <1>5, <1>6, OtherGoto, CallsNamed
<1>7. ASSUME NEW reason \in {"gone", "flags", "version", "noChange", "panic"}, Fail(p, reason)
      PROVE  Step(p)
  BY <1>1, <1>4, <1>5, <1>7, FailStep, CallsNamed
<1> QED
  BY <1>1, <1>6, <1>7

\* The server writes another spec to an object.
LEMMA Edits ==
  ASSUME IInv, NEW n \in Names, NEW spec, Exists(n), Put(n, [objs[n] EXCEPT !.spec = spec]),
         edited' = edited \cup {objs[n].uid}, UNCHANGED <<made, mine, asked, base, worked>>
  PROVE  Moves /\ HistoryInv' /\ fresh' \in [Procs -> BOOLEAN]
<1> DEFINE edit == [objs[n] EXCEPT !.spec = spec]
<1>1. made \in Nat /\ objs[n].uid \in 1..made
  BY DEF Exists, IInv, ObjectsInv, IsObject
<1>2. IsObject(edit, made) /\ edit.uid = objs[n].uid /\ edit.deleting = objs[n].deleting
  <2>1. IsObject(objs[n], made)
    BY DEF IInv, ObjectsInv
  <2> QED
    BY <1>1, <2>1, EditType
<1>3. Moves /\ fresh' \in [Procs -> BOOLEAN]
  <2> HIDE DEF edit
  <2> QED
    BY <1>2, PutMoves DEF IInv, edit
<1> QED
  BY <1>1, <1>3 DEF IInv, HistoryInv

LEMMA Updates ==
  ASSUME IInv, NEW p \in Procs, UNCHANGED searchVars, NEW spec, NEW then \in {"Done", "Wait"},
         UpdateObject(p, spec, then), job[p].kind \in Updating, MayCall(job[p], then)
  PROVE  Step(p)
<1>1. /\ pc[p] = "Update" /\ UNCHANGED local /\ UNCHANGED mine
      /\ Goto(p, "Done") \/ Goto(p, then) \/ Fail(p, "gone") \/ Fail(p, "conflict")
  BY DEF UpdateObject
<1>2. at[p] \in Names
  BY DEF Updating, Creating, IInv, ControlInv, Control
<1>3. Moves /\ HistoryInv' /\ fresh' \in [Procs -> BOOLEAN]
  <2>1. CASE UNCHANGED <<objs, fresh, edited>>
    BY <2>1, StillHistory DEF UpdateObject, history, IInv, RunsInv, LocalInv
  <2>2. CASE ~UNCHANGED <<objs, fresh, edited>>
    BY <1>2, <2>2, Edits DEF UpdateObject
  <2> QED
    BY <2>1, <2>2
<1>4. LocalInv'
  BY <1>1, <1>3 DEF local, searchVars, IInv, RunsInv, LocalInv
<1>5. Quiet(p)
  BY <1>1, <1>3, <1>4 DEF Quiet, local
<1>6. MayCall(job[p], "Done") /\ ~Creates(p)
  BY NextCalls DEF Creates, Updating
<1>7. CASE Goto(p, "Done") \/ Goto(p, then)
  BY <1>1, <1>5, <1>6, <1>7, OtherGoto, CallsNamed
<1>8. CASE Fail(p, "gone") \/ Fail(p, "conflict")
  BY <1>1, <1>5, <1>6, <1>8, FailStep, CallsNamed
<1> QED
  BY <1>1, <1>7, <1>8

-----------------------------------------------------------------------------
(***************************************************************************)
(* Reads.                                                                  *)
(***************************************************************************)

\* What the calls of a get or a search change, but for what they find and print.
Reading(p) ==
  /\ UNCHANGED <<objs, made, job, gone, failed, fresh, history, pods>>
  /\ at' = at \/ \E n \in Names : at' = [at EXCEPT ![p] = n]
  /\ todo' = todo \/ \E names \in SUBSET Names : todo' = [todo EXCEPT ![p] = names]
  /\ read' = read \/ \E r : read' = [read EXCEPT ![p] = r]
  /\ pod' \in [Procs -> 0..MaxPods]

LEMMA ReadsOn ==
  ASSUME IInv, NEW p \in Procs, pc[p] \in Calls, job[p].kind \in {"get", "search"}, Reading(p),
         NEW next \in {"FindPod", "Forward", "Fetch", "Done"}, NEW reason \in Reasons,
         job[p].kind = "get" => next = "Done", Goto(p, next) \/ Fail(p, reason)
  PROVE  Step(p)
<1>1. ~Creates(p) /\ MayCall(job[p], next)
  BY NextCalls DEF Creates
<1>2. at' \in [Procs -> Names \cup {None}] /\ \A q \in Procs \ {p} : at'[q] = at[q]
  <2>1. at \in [Procs -> Names \cup {None}]
    BY DEF IInv, RunsInv, LocalInv
  <2>2. ASSUME NEW n \in Names, at' = [at EXCEPT ![p] = n]
        PROVE  at' \in [Procs -> Names \cup {None}] /\ \A q \in Procs \ {p} : at'[q] = at[q]
    BY <2>1, <2>2
  <2> QED
    BY <2>1, <2>2 DEF Reading
<1>3. todo' \in [Procs -> SUBSET Names]
  <2>1. todo \in [Procs -> SUBSET Names]
    BY DEF IInv, RunsInv, LocalInv
  <2>2. ASSUME NEW names \in SUBSET Names, todo' = [todo EXCEPT ![p] = names]
        PROVE  todo' \in [Procs -> SUBSET Names]
    BY <2>1, <2>2
  <2> QED
    BY <2>1, <2>2 DEF Reading
<1>4. read' = [q \in Procs |-> read'[q]]
  <2>1. read = [q \in Procs |-> read[q]]
    BY DEF IInv, RunsInv, LocalInv
  <2>2. ASSUME NEW r, read' = [read EXCEPT ![p] = r]
        PROVE  read' = [q \in Procs |-> read'[q]]
    <3>1. read' = [q \in Procs |-> IF q = p THEN r ELSE read[q]]
      BY <2>1, <2>2
    <3> QED
      BY <3>1
  <2> QED
    BY <2>1, <2>2 DEF Reading
<1>5. LocalInv'
  BY <1>2, <1>3, <1>4 DEF Reading, IInv, RunsInv, LocalInv
<1>6. Quiet(p)
  BY <1>2, <1>5, ReadOnly DEF Reading, Creating, Updating
<1>7. CASE Goto(p, next)
  BY <1>1, <1>6, <1>7, OtherGoto, CallsNamed
<1>8. CASE Fail(p, reason)
  BY <1>1, <1>6, <1>8, FailStep
<1> QED
  BY <1>7, <1>8

LEMMA Reads ==
  ASSUME IInv, NEW p \in Procs, Look(p) \/ ListServing(p) \/ FindPod(p) \/ Forward(p) \/ Fetch(p)
  PROVE  Step(p)
<1>1. /\ pod \in [Procs -> 0..MaxPods] /\ todo \in [Procs -> SUBSET Names]
      /\ pods # <<>> => pods[1] \in 0..MaxPods
  BY PodBound DEF IInv, RunsInv, LocalInv
<1>2. pc[p] \in Calls /\ job[p].kind \in {"get", "search"}
  BY CallsNamed DEF Look, ListServing, FindPod, Forward, Fetch, IInv, ControlInv, Control, MayCall
<1>3. CASE Look(p)
  <2>1. Goto(p, "Done") \/ Fail(p, "gone")
    BY <1>3 DEF Look
  <2>2. Reading(p)
    BY <1>1, <1>3 DEF Look, Reading, local
  <2> QED
    BY <1>2, <2>1, <2>2, ReadsOn, CallsNamed
<1>4. CASE ~Look(p)
  <2>1. job[p].kind = "search"
    BY <1>2, <1>4 DEF ListServing, FindPod, Forward, Fetch, IInv, ControlInv, Control, MayCall
  <2>2. Reading(p)
    <3>1. CASE ListServing(p)
      <4>1. PICK serving \in SUBSET Names : todo' = [todo EXCEPT ![p] = serving]
        BY <3>1 DEF ListServing, Matching, Names
      <4> QED
        BY <1>1, <3>1, <4>1 DEF ListServing, Reading, searchVars
    <3>2. CASE FindPod(p)
      BY <1>1, <3>2 DEF FindPod, Reading
    <3>3. CASE Forward(p)
      BY <1>1, <3>3 DEF Forward, Reading, local, searchVars
    <3>4. CASE Fetch(p)
      BY <1>1, <3>4 DEF Fetch, Reading
    <3> QED
      BY <1>4, <3>1, <3>2, <3>3, <3>4
  <2>3. PICK next \in {"FindPod", "Forward", "Fetch", "Done"},
             reason \in {"gone", "noneServing", "call", "notFound", "panic"} :
          Goto(p, next) \/ Fail(p, reason)
    BY <1>4 DEF ListServing, FindPod, Forward, Fetch, Finish
  <2> QED
    BY <1>2, <2>1, <2>2, <2>3, ReadsOn, CallsNamed
<1> QED
  BY <1>3, <1>4

-----------------------------------------------------------------------------
(***************************************************************************)
(* Creations.                                                              *)
(***************************************************************************)

LEMMA Makes ==
  ASSUME IInv, NEW p \in Procs, NEW spec, pc[p] = "Create", ~job[p].dry,
         ~Exists(at[p]), made < MaxObjects, Created(p, spec), UNCHANGED <<local, pods, pod>>,
         Goto(p, "Wait") \/ Fail(p, "call")
  PROVE  MakingStep(p)
<1>1. Creates(p) /\ MayCall(job[p], "Wait") /\ at[p] \in Names /\ why[p] = "none"
  <2>1. job[p].kind \in Creating /\ at[p] \in Names /\ why[p] = "none"
    BY DEF IInv, ControlInv, Control, MayCall, Creating
  <2> QED
    BY <2>1, NextCalls DEF Creates, Creating
<1>2. made \in Nat /\ made' = made + 1 /\ UNCHANGED <<job, at>>
  BY DEF Created, local, IInv, ObjectsInv
<1>3. Moves /\ objs'[at[p]] = NewObject(spec)
  BY <1>1, MakeMoves DEF Created, IInv
<1>4. objs'[at[p]].uid = made + 1 /\ ~objs'[at[p]].deleting
  BY <1>2, <1>3, NewObjectType
<1>5. mine' = [mine EXCEPT ![p] = made + 1] /\ objs' = [objs EXCEPT ![at[p]] = objs'[at[p]]]
  BY <1>3 DEF Created
<1>6. LocalInv'
  BY DEF Created, local, IInv, RunsInv, LocalInv
<1>7. /\ pc' \in [Procs -> Calls \cup Ended] /\ why' \in [Procs -> Reasons]
      /\ pc'[p] \in {"Wait", "Failed"} /\ (why'[p] # "none" => pc'[p] = "Failed")
      /\ pc'[p] = "Failed" => why'[p] = "call"
      /\ \A q \in Procs \ {p} : pc'[q] = pc[q] /\ why'[q] = why[q]
  <2>1. pc \in [Procs -> Calls \cup Ended] /\ why \in [Procs -> Reasons]
    BY DEF IInv, RunsInv
  <2>2. CASE Goto(p, "Wait")
    BY <1>1, <2>1, <2>2, CallsNamed DEF Goto
  <2>3. CASE Fail(p, "call")
    BY <2>1, <2>3, CallsNamed DEF Fail
  <2> QED
    BY <2>2, <2>3
<1>8. HistoryInv'
  <2>1. mine' \in [Procs -> 0..made'] /\ edited' \subseteq 1..made'
    BY <1>2 DEF Created, IInv, HistoryInv
  <2>2. 1..made \subseteq 1..made'
    BY <1>2
  <2>3. /\ asked' \in [Procs -> SUBSET (Names \X (1..made'))]
        /\ base' \in [Procs -> SUBSET (Names \X (1..made'))]
        /\ \A w \in worked' : w[1] \in Names /\ w[2] \in 1..made'
    BY <2>2 DEF Created, IInv, HistoryInv
  <2> QED
    BY <2>1, <2>3 DEF HistoryInv
<1>9. ASSUME NEW q \in Procs PROVE Control(q)'
  <2>1. CASE q = p
    BY <1>1, <1>2, <1>7, <2>1 DEF IInv, ControlInv, Control, MayCall
  <2>2. CASE q # p
    BY <1>2, <1>7, <2>2 DEF IInv, ControlInv, Control
  <2> QED
    BY <2>1, <2>2
<1>10. Stage(p) = "before" /\ Stage(p)' \in {"waiting", "refused"}
  BY <1>1, <1>2, <1>7 DEF Stage, FailedStage, Creates
<1>11. ASSUME NEW q \in Procs \ {p} PROVE Stage(q)' = Stage(q)
  BY <1>2, <1>7 DEF Stage, FailedStage, Creates
<1> QED
  BY <1>1, <1>2, <1>3, <1>4, <1>5, <1>6, <1>7, <1>8, <1>9, <1>10, <1>11
  DEF MakingStep, ControlInv, RunsInv

LEMMA CreatesOne ==
  ASSUME IInv, NEW p \in Procs, UNCHANGED searchVars, NEW spec, CreateObject(p, spec)
  PROVE  Step(p) \/ MakingStep(p)
<1>1. pc[p] = "Create" /\ UNCHANGED local
  BY DEF CreateObject
<1>2. UNCHANGED <<objs, made, fresh, history>> => Quiet(p)
  BY <1>1, Unmoved DEF searchVars
<1>3. CASE Fail(p, "exists") /\ UNCHANGED <<objs, made, fresh, history>>
  BY <1>1, <1>2, <1>3, FailStep, CallsNamed
<1>4. CASE job[p].dry /\ Goto(p, "Done") /\ UNCHANGED <<objs, made, fresh, history>>
  BY <1>1, <1>2, <1>4, OtherGoto, NextCalls, CallsNamed DEF Creates
<1>5. CASE /\ ~Exists(at[p]) /\ ~job[p].dry /\ made < MaxObjects /\ Goto(p, "Wait")
           /\ Created(p, spec)
  BY <1>1, <1>5, Makes DEF searchVars
<1> QED
  BY <1>3, <1>4, <1>5 DEF CreateObject

-----------------------------------------------------------------------------
(***************************************************************************)
(* Calls that fail.                                                        *)
(***************************************************************************)

LEMMA Failures ==
  ASSUME IInv, NEW p \in Procs, CallFails(p)
  PROVE  Step(p)
<1>1. UNCHANGED <<objs, made, job, at, read, fresh, history, pods, pod, mine>>
  BY DEF CallFails, searchVars, history
<1>2. UNCHANGED <<todo, gone, failed>> => Quiet(p)
  BY <1>1, Unmoved DEF local
<1>3. CASE /\ pc[p] \in Calls \ {"Validate", "Wait", "CleanUp", "WaitCleanUp", "Delete", "WaitGone"}
           /\ Fail(p, "call") /\ UNCHANGED <<todo, gone, failed>>
  <2>1. Creates(p) => pc[p] \in {"Pull", "Create"}
    BY <1>3 DEF Creates, Calls, Deleting, Updating, IInv, ControlInv, Control, MayCall
  <2> QED
    BY <1>1, <1>2, <1>3, <2>1, FailStep, CallsNamed
<1>4. CASE pc[p] = "Wait" /\ AfterWait(p) /\ UNCHANGED <<todo, gone, failed>>
  <2>1. /\ job[p].kind \in Creating \cup {"upgrade"}
        /\ job[p].kind \in Creating => ~job[p].dry
    BY <1>4 DEF IInv, ControlInv, Control, MayCall
  <2>2. CASE job[p].kind \in {"create", "add"}
    <3>1. Goto(p, "CleanUp") /\ MayCall(job[p], "CleanUp")
      BY <1>4, <2>1, <2>2, NextCalls DEF AfterWait, Creating
    <3> QED
      BY <1>1, <1>2, <1>4, <3>1, GotoStep, CallsNamed
  <2>3. CASE job[p].kind = "install"
    <3>1. Goto(p, "WaitCleanUp") /\ MayCall(job[p], "WaitCleanUp")
      BY <1>4, <2>1, <2>3, NextCalls DEF AfterWait, Creating
    <3> QED
      BY <1>1, <1>2, <1>4, <3>1, GotoStep, CallsNamed
  <2>4. CASE job[p].kind = "upgrade"
    <3>1. Fail(p, "wait") /\ ~Creates(p)
      BY <1>4, <2>4 DEF AfterWait, Creates
    <3> QED
      BY <1>2, <1>4, <3>1, FailStep, CallsNamed
  <2> QED
    BY <2>1, <2>2, <2>3, <2>4 DEF Creating
<1>5. CASE pc[p] \in {"CleanUp", "WaitCleanUp"} /\ Fail(p, "leftover") /\ UNCHANGED <<todo, gone, failed>>
  BY <1>1, <1>2, <1>5, FailStep, CallsNamed
<1>6. ASSUME NEW n, Missed(p, n),
             (pc[p] = "Delete" /\ n \in todo[p]) \/ (pc[p] = "WaitGone" /\ n = at[p])
      PROVE  Step(p)
  <2>1. job[p].kind \in Deleting
    BY <1>6 DEF IInv, ControlInv, Control, MayCall
  <2>2. n \in Names
    BY <1>6 DEF IInv, RunsInv, LocalInv, ControlInv, Control
  <2>3. Moves /\ HistoryInv' /\ fresh' \in [Procs -> BOOLEAN]
    BY <1>1, StillHistory DEF IInv, RunsInv, LocalInv
  <2> QED
    BY <1>1, <1>6, <2>1, <2>2, <2>3, Accounts, CallsNamed
<1> QED
  BY <1>3, <1>4, <1>5, <1>6 DEF CallFails

LEMMA LostAnswers ==
  ASSUME IInv, NEW p \in Procs, AnswerLost(p)
  PROVE  Step(p) \/ MakingStep(p)
<1>1. UNCHANGED <<job, at, gone, read, pods, pod>> /\ ~job[p].dry
  BY DEF AnswerLost, searchVars
<1>2. CASE /\ pc[p] = "Create" /\ ~Exists(at[p]) /\ made < MaxObjects
           /\ Created(p, NewSpec(p)) /\ Fail(p, "call") /\ UNCHANGED <<todo, failed>>
  BY <1>1, <1>2, Makes DEF local
<1>3. CASE /\ pc[p] = "Update" /\ Exists(at[p]) /\ fresh[p]
           /\ Put(at[p], [objs[at[p]] EXCEPT !.spec = ChangedSpec(p)])
           /\ edited' = edited \cup {objs[at[p]].uid}
           /\ Fail(p, "call") /\ UNCHANGED <<todo, failed, made, mine, asked, base, worked, meddled>>
  <2>1. job[p].kind \in Updating /\ at[p] \in Names
    BY <1>3 DEF IInv, ControlInv, Control, MayCall
  <2>2. Moves /\ HistoryInv' /\ fresh' \in [Procs -> BOOLEAN]
    BY <1>3, <2>1, Edits
  <2>3. LocalInv'
    BY <1>1, <1>3, <2>2 DEF IInv, RunsInv, LocalInv
  <2>4. Quiet(p)
    BY <1>1, <1>3, <2>2, <2>3 DEF Quiet
  <2>5. ~Creates(p)
    BY <2>1 DEF Creates, Updating
  <2> QED
    BY <1>3, <2>4, <2>5, FailStep, CallsNamed
<1>4. ASSUME pc[p] = "Delete", NEW n \in todo[p], Exists(n), DeleteObject(p, n), Missed(p, n)
      PROVE  Step(p)
  <2>1. job[p].kind \in Deleting /\ n \in Names
    BY <1>4 DEF IInv, RunsInv, LocalInv, ControlInv, Control, MayCall
  <2>2. Moves /\ HistoryInv' /\ fresh' \in [Procs -> BOOLEAN] /\ UNCHANGED mine
    BY <1>4, <2>1, Deletes
  <2> QED
    BY <1>1, <1>4, <2>1, <2>2, Accounts, CallsNamed
<1> QED
  BY <1>2, <1>3, <1>4 DEF AnswerLost

-----------------------------------------------------------------------------
(***************************************************************************)
(* The cluster.                                                            *)
(***************************************************************************)

\* What has to be shown of a step of somebody else.
OthersStep ==
  /\ Moves /\ HistoryInv' /\ fresh' \in [Procs -> BOOLEAN]
  /\ pods' \in Seq(1..MaxPods)
  /\ UNCHANGED <<commands, mine, pod>>

LEMMA OthersKeep ==
  ASSUME IInv, OthersStep
  PROVE  IInv' /\ [Owned!Next]_(Owned!vars)
<1>1. RunsInv' /\ ControlInv'
  BY DEF OthersStep, commands, IInv, RunsInv, LocalInv, ControlInv, Control
<1>2. \A q \in Procs : (OwnLives(q)' => OwnLives(q)) /\ Stage(q)' = Stage(q)
  <2>1. \A q \in Procs : OwnLives(q)' => OwnLives(q)
    BY OwnStays DEF OthersStep, commands, IInv
  <2>2. \A q \in Procs : Stage(q)' = Stage(q)
    BY DEF OthersStep, commands, Stage, FailedStage, Creates
  <2> QED
    BY <2>1, <2>2
<1>3. OwnInv'
  BY <1>2, OwnStays DEF OthersStep, commands, IInv, OwnInv
<1>4. UndoneInv'
  BY <1>2 DEF IInv, UndoneInv
<1>5. [Owned!Next]_(Owned!vars)
  BY <1>2 DEF Owned!Next, Owned!OthersDelete, OwnLives
<1> QED
  BY <1>1, <1>3, <1>4, <1>5 DEF IInv, OthersStep, Moves

LEMMA Finalizes ==
  ASSUME IInv, NEW n \in Names, Finalize(n)
  PROVE  OthersStep
<1>1. made \in Nat
  BY DEF IInv, ObjectsInv
<1>2. Moves /\ fresh' \in [Procs -> BOOLEAN]
  BY <1>1, NoObjectType, PutMoves DEF Finalize, IInv
<1>3. HistoryInv'
  BY <1>2, HistoryGrows DEF Finalize, IInv
<1> QED
  BY <1>2, <1>3 DEF Finalize, OthersStep, searchVars, history, IInv, RunsInv, LocalInv

LEMMA Reports ==
  ASSUME IInv, NEW n \in Names, Exists(n), NEW c \in SUBSET Conditions, NEW b, Report(n, c, b)
  PROVE  OthersStep
<1> DEFINE reported == [objs[n] EXCEPT !.status = c, !.bundle = b]
<1>1. made \in Nat /\ objs[n].uid \in 1..made /\ IsObject(objs[n], made)
  BY DEF Exists, IInv, ObjectsInv, IsObject
<1>2. IsObject(reported, made) /\ reported.uid = objs[n].uid /\ reported.deleting = objs[n].deleting
  BY <1>1 DEF IsObject
<1>3. Moves /\ fresh' \in [Procs -> BOOLEAN]
  <2>1. Put(n, reported) /\ made' = made
    BY DEF Report
  <2> HIDE DEF reported
  <2> QED
    BY <1>2, <2>1, PutMoves DEF IInv
<1>4. HistoryInv'
  <2>1. worked' = worked \/ worked' = worked \cup {<<n, objs[n].uid, b>>}
    BY DEF Report
  <2>2. \A w \in worked : w[1] \in Names /\ w[2] \in 1..made
    BY DEF IInv, HistoryInv
  <2>3. \A w \in worked' : w[1] \in Names /\ w[2] \in 1..made
    BY <1>1, <2>1, <2>2
  <2> QED
    BY <2>3 DEF Report, IInv, HistoryInv
<1> QED
  BY <1>3, <1>4 DEF Report, OthersStep, searchVars, IInv, RunsInv, LocalInv

LEMMA ControllersStep ==
  ASSUME IInv, Controllers
  PROVE  OthersStep
<1>1. \A n \in Names : objs[n].status \subseteq Conditions
  BY DEF IInv, ObjectsInv, IsObject
<1>2. ASSUME NEW n \in Names, Finalize(n) PROVE OthersStep
  BY <1>2, Finalizes
<1>3. ASSUME NEW c \in Catalogs, Serve(c) \/ StopServing(c) PROVE OthersStep
  <2>1. c \in Names /\ Exists(c)
    BY <1>3 DEF Names, Serve, StopServing, Living
  <2>2. {"Serving"} \in SUBSET Conditions /\ {"NotServing"} \in SUBSET Conditions
    BY DEF Conditions
  <2>3. PICK s \in SUBSET Conditions, b \in {objs[c].spec.image, ""} : Report(c, s, b)
    BY <1>3, <2>2 DEF Serve, StopServing
  <2> QED
    BY <2>1, <2>3, Reports
<1>4. ASSUME NEW e \in Extensions, Progress(e) PROVE OthersStep
  <2>1. e \in Names /\ Exists(e)
    BY <1>4 DEF Names, Progress, Living
  <2>2. ((objs[e].status \ {"Succeeded"}) \cup {"Progressing"}) \in SUBSET Conditions
    BY <1>1, <2>1 DEF Conditions
  <2> QED
    BY <1>4, <2>1, <2>2, Reports DEF Progress
<1>5. ASSUME NEW e \in Extensions, InstallBundle(e) PROVE OthersStep
  <2>1. e \in Names /\ Exists(e) /\ {"Succeeded", "Installed"} \in SUBSET Conditions
    BY <1>5 DEF Names, InstallBundle, Living, Conditions
  <2> QED
    BY <1>5, <2>1, Reports DEF InstallBundle
<1>6. ASSUME NEW s \in Sources, Connect(s) PROVE OthersStep
  <2>1. s \in Names /\ Exists(s) /\ {"READY"} \in SUBSET Conditions
    BY <1>6 DEF Names, Connect, Living, Conditions
  <2> QED
    BY <1>6, <2>1, Reports DEF Connect
<1> QED
  BY <1>2, <1>3, <1>4, <1>5, <1>6 DEF Controllers

LEMMA OutsidersStep ==
  ASSUME IInv, Outsiders
  PROVE  OthersStep
<1>1. PICK n \in Touchable :
        OutsideDelete(n) \/ \E spec \in NewSpecs[n] : OutsideCreate(n, spec) \/ OutsideEdit(n, spec)
  BY DEF Outsiders
<1>2. n \in Names /\ made \in Nat /\ UNCHANGED <<commands, mine, asked, base, worked, searchVars>>
  BY OldsAreTyped DEF Outsiders, IInv, ObjectsInv
<1>3. Moves /\ HistoryInv' /\ fresh' \in [Procs -> BOOLEAN]
  <2>1. CASE OutsideDelete(n)
    <3> DEFINE marked == [objs[n] EXCEPT !.deleting = TRUE]
    <3>1. IsObject(marked, made) /\ marked.uid = objs[n].uid /\ marked.deleting
      BY <1>2, MarkedType DEF IInv, ObjectsInv
    <3>2. made' = made /\ (Put(n, NoObject) \/ Put(n, marked))
      BY <2>1 DEF OutsideDelete
    <3>3. Moves /\ fresh' \in [Procs -> BOOLEAN]
      <4> HIDE DEF marked
      <4>1. CASE Put(n, NoObject)
        BY <1>2, <3>2, <4>1, NoObjectType, PutMoves DEF IInv
      <4>2. CASE Put(n, marked)
        BY <1>2, <3>1, <3>2, <4>2, PutMoves DEF IInv
      <4> QED
        BY <3>2, <4>1, <4>2
    <3> QED
      BY <1>2, <2>1, <3>3 DEF OutsideDelete, IInv, HistoryInv
  <2>2. ASSUME NEW spec, OutsideCreate(n, spec)
        PROVE  Moves /\ HistoryInv' /\ fresh' \in [Procs -> BOOLEAN]
    <3>1. made + Cardinality(Procs) < MaxObjects => made < MaxObjects
      <4>1. Cardinality(Procs) \in Nat
        BY ObjectBounds, FS_CardinalityType
      <4> QED
        BY <1>2, <4>1, ObjectBounds
    <3>2. Moves
      BY <1>2, <2>2, <3>1, MakeMoves DEF OutsideCreate, IInv
    <3> QED
      BY <1>2, <2>2, <3>2 DEF OutsideCreate, IInv, HistoryInv, RunsInv, LocalInv
  <2>3. ASSUME NEW spec, OutsideEdit(n, spec)
        PROVE  Moves /\ HistoryInv' /\ fresh' \in [Procs -> BOOLEAN]
    BY <1>2, <2>3, Edits DEF OutsideEdit
  <2> QED
    BY <1>1, <2>1, <2>2, <2>3
<1> QED
  BY <1>2, <1>3 DEF OthersStep, searchVars, IInv, RunsInv, LocalInv

LEMMA RollOutStep ==
  ASSUME IInv, RollOut
  PROVE  OthersStep
<1>1. pods' \in Seq(1..MaxPods)
  <2>1. pods \in Seq(1..MaxPods)
    BY DEF IInv, RunsInv, LocalInv
  <2>2. CASE Len(pods) = 1 /\ pods[1] < MaxPods /\ pods' \in {<<>>, Append(pods, pods[1] + 1)}
    <3>1. 1 \in 1..Len(pods)
      BY <2>2
    <3>2. pods[1] \in 1..MaxPods
      BY <2>1, <3>1, PodBound
    <3>3. pods[1] + 1 \in 1..MaxPods
      BY <2>2, <3>2, PodBound
    <3>4. Append(pods, pods[1] + 1) \in Seq(1..MaxPods)
      BY <2>1, <3>3
    <3>5. <<>> \in Seq(1..MaxPods)
      OBVIOUS
    <3> QED
      BY <2>2, <3>4, <3>5
  <2>3. CASE Len(pods) = 2 /\ pods' = Tail(pods)
    BY <2>1, <2>3
  <2>4. CASE pods = <<>> /\ pods' = <<MaxPods>>
    BY <2>4, PodBound
  <2> QED
    BY <2>2, <2>3, <2>4 DEF RollOut
<1>2. Moves /\ HistoryInv'
  BY StillHistory DEF RollOut
<1> QED
  BY <1>1, <1>2 DEF RollOut, OthersStep, commands, local, history, IInv, RunsInv, LocalInv

-----------------------------------------------------------------------------
(***************************************************************************)
(* All together.                                                           *)
(***************************************************************************)

LEMMA InitObjects ==
  ASSUME NEW S \in SUBSET DOMAIN Olds, objs = OldObjects(S), made = Cardinality(DOMAIN Olds)
  PROVE  ObjectsInv
<1>1. made \in Nat /\ made <= MaxObjects /\ DOMAIN Olds \subseteq Names
  BY OldsAreTyped, ObjectBounds
<1>2. ASSUME NEW n \in Names \ S PROVE IsObject(objs[n], made)
  <2>1. objs[n] = NoObject
    BY <1>2 DEF OldObjects
  <2> QED
    BY <1>1, <2>1, NoObjectType
<1>3. ASSUME NEW n \in S PROVE IsObject(objs[n], made)
  <2> DEFINE old == [uid |-> Olds[n].uid, spec |-> Olds[n].spec, status |-> Olds[n].status,
                     bundle |-> Olds[n].bundle, deleting |-> FALSE]
  <2>1. objs[n] = old
    BY <1>1, <1>3 DEF OldObjects
  <2>2. Olds[n].uid \in 0..made /\ Olds[n].status \subseteq Conditions
    BY <1>1, <1>3, OldsAreTyped
  <2>3. IsObject(old, made)
    BY <2>2 DEF IsObject
  <2> QED
    BY <2>1, <2>3
<1>4. objs = [n \in Names |-> objs[n]]
  BY DEF OldObjects
<1> QED
  BY <1>1, <1>2, <1>3, <1>4 DEF ObjectsInv

LEMMA InitIInv == Init => IInv /\ Owned!Init
<1> SUFFICES ASSUME Init PROVE IInv /\ Owned!Init
  OBVIOUS
<1>1. ObjectsInv
  BY InitObjects DEF Init
<1>2. LocalInv
  <2>1. /\ job \in [Procs -> Jobs] /\ at = [p \in Procs |-> job[p].name]
        /\ todo = Nothing /\ gone = Nothing /\ failed = Nothing
        /\ read = [p \in Procs |-> None] /\ fresh = [p \in Procs |-> FALSE]
        /\ pods = <<1>> /\ pod = [p \in Procs |-> 0]
    BY DEF Init
  <2>2. at \in [Procs -> Names \cup {None}]
    BY <2>1, JobsAreTyped
  <2>3. Nothing \in [Procs -> SUBSET Names]
    BY DEF Nothing
  <2>4. pods \in Seq(1..MaxPods) /\ pod \in [Procs -> 0..MaxPods]
    BY <2>1, PodBound
  <2>5. read = [p \in Procs |-> read[p]] /\ fresh \in [Procs -> BOOLEAN]
    BY <2>1
  <2> QED
    BY <2>1, <2>2, <2>3, <2>4, <2>5 DEF LocalInv
<1>3. /\ pc = [p \in Procs |-> "Validate"] /\ why = [p \in Procs |-> "none"]
      /\ mine = [p \in Procs |-> 0]
  BY DEF Init
<1>4. RunsInv
  <2>1. "none" \in Reasons
    BY DEF Reasons
  <2> QED
    BY <1>2, <1>3, <2>1, CallsNamed DEF RunsInv
<1>5. HistoryInv
  <2>1. \A n \in Names : Exists(n) => objs[n].uid \in 1..made
    BY <1>1 DEF ObjectsInv, IsObject, Exists
  <2>2. \A w \in worked : w[1] \in Names /\ w[2] \in 1..made
    BY <2>1 DEF Init
  <2>3. mine \in [Procs -> 0..made] /\ edited \subseteq 1..made
    BY <1>1, <1>3 DEF Init, ObjectsInv
  <2>4. /\ asked \in [Procs -> SUBSET (Names \X (1..made))]
        /\ base \in [Procs -> SUBSET (Names \X (1..made))]
    BY DEF Init, Nothing
  <2> QED
    BY <2>2, <2>3, <2>4 DEF HistoryInv
<1>6. ControlInv
  <2> SUFFICES ASSUME NEW p \in Procs PROVE Control(p)
    BY DEF ControlInv
  <2>1. job[p] \in Jobs /\ at[p] = job[p].name
    BY DEF Init
  <2>2. job[p].kind \in Creating \cup Updating => at[p] \in Names
    BY <2>1, JobsAreTyped DEF Creating, Updating
  <2> QED
    BY <1>3, <2>1, <2>2 DEF Control, MayCall
<1>7. \A p \in Procs : Stage(p) = "before" /\ ~OwnLives(p)
  BY <1>3 DEF Stage, OwnLives, Living, Exists
<1>8. OwnInv /\ UndoneInv
  BY <1>3, <1>7 DEF OwnInv, UndoneInv, Exists
<1>9. Owned!Init
  <2>1. [p \in Procs |-> Stage(p)] = [p \in Procs |-> "before"]
    BY <1>7
  <2>2. \A p \in Procs : OwnLives(p) = FALSE
    BY <1>7 DEF OwnLives
  <2>3. [p \in Procs |-> OwnLives(p)] = [p \in Procs |-> FALSE]
    BY <2>2
  <2> QED
    BY <2>1, <2>3 DEF Owned!Init
<1> QED
  BY <1>1, <1>4, <1>5, <1>6, <1>8, <1>9 DEF IInv

LEMMA CatalogSteps ==
  ASSUME IInv, NEW p \in Procs, CatalogCommand(p), UNCHANGED searchVars
  PROVE  Step(p) \/ MakingStep(p)
<1>1. CASE StartCreate(p) \/ StartCatalogUpdate(p)
  BY <1>1, StartsWriting
<1>2. CASE StartDelete(p) \/ StartSource(p)
  BY <1>2, StartsRemoving
<1>3. CASE CreateCatalog(p) \/ AddSource(p)
  BY <1>3, CreatesOne DEF CreateCatalog, AddSource
<1>4. CASE WaitServing(p) \/ WaitReady(p)
  BY <1>4, Waits
<1>5. CASE GetCatalog(p)
  BY <1>5, Gets
<1>6. CASE UpdateCatalog(p)
  BY <1>6, Updates, NextCalls DEF UpdateCatalog, Updating
<1>7. CASE ListCatalogs(p)
  BY <1>7, Lists DEF ListCatalogs, Deleting, Names
<1>8. CASE DeleteCatalog(p) \/ RemoveSource(p)
  BY <1>8, Removes DEF DeleteCatalog, RemoveSource, Deleting
<1>9. CASE PullImage(p)
  BY <1>9, Pulls
<1>10. CASE CleanUp(p)
  BY <1>10, CleansUp
<1> QED
  BY <1>1, <1>2, <1>3, <1>4, <1>5, <1>6, <1>7, <1>8, <1>9, <1>10 DEF CatalogCommand

LEMMA ExtensionSteps ==
  ASSUME IInv, NEW p \in Procs, ExtensionCommand(p), UNCHANGED searchVars
  PROVE  Step(p) \/ MakingStep(p)
<1>1. CASE StartExtension(p)
  BY <1>1, StartsWriting
<1>2. CASE StartUninstall(p)
  BY <1>2, StartsRemoving
<1>3. CASE CreateExtension(p)
  BY <1>3, CreatesOne DEF CreateExtension
<1>4. CASE WaitInstalled(p) \/ WaitUpgraded(p)
  BY <1>4, Waits
<1>5. CASE GetExtension(p)
  BY <1>5, Gets
<1>6. CASE UpdateExtension(p)
  BY <1>6, Updates, NextCalls DEF UpdateExtension, Updating
<1>7. CASE ListExtensions(p)
  BY <1>7, Lists DEF ListExtensions, Deleting, Names
<1>8. CASE DeleteExtension(p)
  BY <1>8, Removes DEF DeleteExtension, Deleting
<1>9. CASE WaitCleanUp(p)
  BY <1>9, WaitsForCleanUp
<1> QED
  BY <1>1, <1>2, <1>3, <1>4, <1>5, <1>6, <1>7, <1>8, <1>9 DEF ExtensionCommand

LEMMA Inductive == IInv /\ [Next]_allVars => IInv' /\ [Owned!Next]_(Owned!vars)
<1> SUFFICES ASSUME IInv, [Next]_allVars PROVE IInv' /\ [Owned!Next]_(Owned!vars)
  OBVIOUS
<1>1. ASSUME NEW p \in Procs, Command(p) \/ CallFails(p) \/ AnswerLost(p)
      PROVE  IInv' /\ [Owned!Next]_(Owned!vars)
  <2>1. CASE Command(p)
    BY <2>1, CatalogSteps, ExtensionSteps, StartsReading, Reads, StepKeeps, MakingStepKeeps
    DEF Command, ReadCommand
  <2>2. CASE CallFails(p)
    BY <2>2, Failures, StepKeeps
  <2>3. CASE AnswerLost(p)
    BY <2>3, LostAnswers, StepKeeps, MakingStepKeeps
  <2> QED
    BY <1>1, <2>1, <2>2, <2>3
<1>2. CASE Controllers \/ RollOut \/ Outsiders
  BY <1>2, ControllersStep, RollOutStep, OutsidersStep, OthersKeep
<1>3. CASE UNCHANGED allVars
  <2>1. Moves /\ HistoryInv'
    BY <1>3, StillHistory DEF allVars, vars
  <2>2. OthersStep
    BY <1>3, <2>1 DEF OthersStep, allVars, vars, searchVars, local, history, commands,
                      IInv, RunsInv, LocalInv
  <2> QED
    BY <2>2, OthersKeep
<1> QED
  BY <1>1, <1>2, <1>3 DEF Next

LEMMA AlwaysIInv == Spec => []IInv
BY InitIInv, Inductive, PTL DEF Spec

-----------------------------------------------------------------------------
(***************************************************************************)
(* The theorems.                                                           *)
(***************************************************************************)

\* The objects and the locals of the commands have their types, whatever names,
\* jobs and runs there are.
THEOREM TypeCorrect == Spec => []TypeOK
BY AlwaysIInv, IInvTypes, PTL

\* Whatever the server, the controllers and other users do, a run creates one
\* object at most, none in a dry run, does not try again, and when it says that
\* its wait failed, and no more, its object is going: `create`, `add` and
\* `install` implement OwnedObject.
THEOREM ImplementsOwnedObject == Spec => CreatesAndUndoes
<1>1. Init => Owned!Init
  BY InitIInv
<1>2. IInv /\ [Next]_allVars => [Owned!Next]_(Owned!vars)
  BY Inductive
<1> QED
  BY <1>1, <1>2, AlwaysIInv, PTL DEF Spec, CreatesAndUndoes, Owned!Spec

\* What `create` and `add` made and did not see come up is gone or being deleted
\* when they fail because of it.
THEOREM FailedAddsCleanUp == Spec => []FailedAddLeavesNothing
<1>1. IInv => FailedAddLeavesNothing
  <2> SUFFICES ASSUME IInv, NEW p \in Procs, job[p].kind \in {"create", "add"}, why[p] = "wait",
                      NEW n \in Names, Living(n), objs[n].uid = mine[p]
               PROVE  FALSE
    BY DEF FailedAddLeavesNothing
  <2>1. pc[p] = "Failed"
    BY DEF IInv, ControlInv, Control
  <2>2. CASE job[p].dry
    <3>1. Stage(p) = "before"
      BY <2>2 DEF Stage, Creates
    <3> QED
      BY <3>1 DEF IInv, OwnInv, Living, Exists
  <2>3. CASE ~job[p].dry
    <3>1. Stage(p) = "undone"
      BY <2>1, <2>3 DEF Stage, FailedStage, Creates
    <3> QED
      BY <3>1 DEF IInv, UndoneInv, OwnLives
  <2> QED
    BY <2>2, <2>3
<1> QED
  BY <1>1, AlwaysIInv, PTL

=============================================================================
