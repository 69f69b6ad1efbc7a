-------------------------- MODULE ClusterReadsProofs --------------------------
(***************************************************************************)
(* What `search catalog` and `get catalog` promise, for every set of       *)
(* catalogs, jobs and runs.                                                *)
(*                                                                         *)
(* A search asks the catalogs of its list one by one while these change.   *)
(* SearchInv says what it has of those that it has asked (Searching), and  *)
(* rests on ServedInv: whatever a catalog serves it is known to have       *)
(* served, so that of one with a single content that content is what the   *)
(* search reads.                                                           *)
(*                                                                         *)
(* `get` reads once and sorts.  That there is a sorted sequence of what it *)
(* has read is proved from the number of elements before each element.     *)
(***************************************************************************)
EXTENDS ClusterRunsProofs, ListingProofs

\* What the search has of c is what c has served once, and there is something.
IsOf(p, c, image) ==
  /\ image \in DOMAIN Contents
  /\ job[p].opts.package \in {""} \cup ToSet(Contents[image].packages)
  /\ found[p][c] = Kept(job[p].opts.package, Contents[image])

FromContent(p, c) == \E w \in worked : w[1] = c /\ IsOf(p, c, w[3])

\* The search has its list, and has told of every catalog that it has asked.
Told(p) ==
  /\ todo[p] \subseteq DOMAIN read[p] /\ DOMAIN read[p] \subseteq Catalogs
  /\ DOMAIN found[p] \subseteq DOMAIN read[p] \ todo[p]
  /\ \A c \in DOMAIN read[p] : \E w \in worked : w[1] = c /\ w[3] = read[p][c]
  /\ \A c \in DOMAIN read[p] \ todo[p] :
       OneContent(p, c) => (c \in DOMAIN found[p] <=> Holds(p, c))
  /\ \A c \in DOMAIN found[p] : FromContent(p, c)

Searching(p) ==
  /\ pc[p] \in {"Validate", "ListServing"} => DOMAIN found[p] = {}
  /\ pc[p] \in {"FindPod", "Forward", "Fetch", "Done"} \/ why[p] = "notFound" => Told(p)
  /\ pc[p] \in {"Forward", "Fetch"} => at[p] \in todo[p]
  /\ pc[p] = "Done" \/ why[p] = "notFound" => todo[p] = {}
  /\ why[p] = "notFound" => DOMAIN found[p] = {}

SearchInv ==
  /\ found = [p \in Procs |-> found[p]]
  /\ \A p \in Procs : job[p].kind = "search" => Searching(p)

-----------------------------------------------------------------------------
(***************************************************************************)
(* Steps of others.                                                        *)
(***************************************************************************)

\* A run finds something of a catalog in Fetch only.
LEMMA OnlyFetchFinds ==
  ASSUME SearchInv, [Next]_allVars
  PROVE  /\ found' = [p \in Procs |-> found'[p]]
         /\ \A q \in Procs : found'[q] = found[q] \/ Fetch(q)
<1>1. found = [p \in Procs |-> found[p]]
  BY DEF SearchInv
<1>2. ASSUME NEW p \in Procs, Fetch(p)
      PROVE  /\ found' = [q \in Procs |-> found'[q]]
             /\ \A q \in Procs \ {p} : found'[q] = found[q]
  BY <1>1, <1>2 DEF Fetch
<1>3. ASSUME NEW p \in Procs, Command(p) \/ CallFails(p) \/ AnswerLost(p), ~Fetch(p)
      PROVE  found' = found
  BY <1>3 DEF Command, ReadCommand, StartGet, Look, StartSearch, ListServing, FindPod, Forward,
              CallFails, AnswerLost, searchVars
<1>4. ASSUME Controllers PROVE found' = found
  BY <1>4 DEF Controllers, Serve, StopServing, Progress, InstallBundle, Connect, Finalize, Report, searchVars
<1>5. ASSUME Outsiders \/ RollOut \/ UNCHANGED allVars PROVE found' = found
  BY <1>5 DEF Outsiders, RollOut, allVars, searchVars
<1> QED
  BY <1>1, <1>2, <1>3, <1>4, <1>5 DEF Next

\* What has one content now had it before, if it was read then.
LEMMA OneContentBefore ==
  ASSUME NEW p, NEW c, worked \subseteq worked', read'[p] = read[p], OneContent(p, c)',
         \E w \in worked : w[1] = c /\ w[3] = read[p][c]
  PROVE  OneContent(p, c)
<1>1. PICK v \in worked : v[1] = c /\ v[3] = read[p][c]
  OBVIOUS
<1>2. ASSUME NEW w \in worked, w[1] = c PROVE w[3] = read[p][c]
  <2>1. w[3] \in {u[3] : u \in {x \in worked' : x[1] = c}}
    BY <1>2
  <2> QED
    BY <2>1 DEF OneContent
<1> QED
  BY <1>1, <1>2 DEF OneContent

\* What was told stays told as long as the run does not go on.
LEMMA ToldStays ==
  ASSUME NEW p \in Procs, Told(p), worked \subseteq worked', job'[p] = job[p],
         todo'[p] = todo[p], read'[p] = read[p], found'[p] = found[p]
  PROVE  Told(p)'
<1>1. \A c \in DOMAIN read[p] : Holds(p, c)' <=> Holds(p, c)
  BY DEF Holds
<1>2. \A c \in DOMAIN read[p] : OneContent(p, c)' => OneContent(p, c)
  BY OneContentBefore DEF Told
<1>3. \A c \in DOMAIN found[p] : FromContent(p, c) => FromContent(p, c)'
  BY DEF FromContent, IsOf
<1> QED
  BY <1>1, <1>2, <1>3 DEF Told

LEMMA SearchStays ==
  ASSUME NEW p \in Procs, Searching(p), Aside(p), found'[p] = found[p], worked \subseteq worked'
  PROVE  Searching(p)'
BY ToldStays DEF Searching, Aside

-----------------------------------------------------------------------------
(***************************************************************************)
(* Steps of the search.                                                    *)
(***************************************************************************)

\* One whose run fails, but not because nothing was found.
LEMMA SearchFails ==
  ASSUME IInv, NEW p \in Procs, NEW reason, Fail(p, reason), reason # "notFound"
  PROVE  Searching(p)'
BY Domains DEF Fail, Searching

LEMMA SearchLists ==
  ASSUME IInv, ServedInv, NEW p \in Procs, job[p].kind = "search", Searching(p), ListServing(p)
  PROVE  Searching(p)'
<1> DEFINE serving == {c \in Matching(Catalogs, job[p].name, job[p].opts.selector) : isCatalogServing(c)}
<1>1. CASE serving # {}
  <2>1. /\ pc'[p] = "FindPod" /\ why'[p] = "none" /\ read'[p] = [c \in serving |-> objs[c].bundle]
        /\ todo'[p] = serving /\ found'[p] = found[p] /\ DOMAIN found[p] = {} /\ worked' = worked
    <3>1. pc[p] = "ListServing" /\ why[p] = "none"
      BY DEF ListServing, IInv, ControlInv, Control
    <3> QED
      BY <1>1, <3>1, Domains DEF ListServing, Goto, Searching, searchVars, history
  <2>2. serving \subseteq Catalogs
    BY DEF Matching
  <2>3. ASSUME NEW c \in serving PROVE \E w \in worked : w[1] = c /\ w[3] = objs[c].bundle
    BY <2>2, <2>3 DEF isCatalogServing, ServedInv, Served, Names
  <2> HIDE DEF serving
  <2>4. Told(p)'
    BY <2>1, <2>2, <2>3 DEF Told
  <2> QED
    BY <2>1, <2>4 DEF Searching
<1>2. CASE serving = {}
  <2>1. Fail(p, "gone") \/ Fail(p, "noneServing")
    BY <1>2 DEF ListServing
  <2> QED
    BY <2>1, SearchFails
<1> QED
  BY <1>1, <1>2

\* What is kept of a content for a package is empty if that is not in it.
LEMMA KeptOf ==
  ASSUME NEW package, NEW content, package # ""
  PROVE  Kept(package, content).packages # <<>> <=> package \in ToSet(content.packages)
BY DEF Kept, filterPackage

\* The search reads one more catalog, c.
LEMMA FetchTells ==
  ASSUME IInv, ServedInv, SearchInv, NEW p \in Procs, Told(p), pc[p] = "Fetch", Fetch(p),
         NEW c \in todo[p], c = at[p], Has(c, "Serving"), Alive(p)
  PROVE  Told(p)' /\ todo'[p] = todo[p] \ {c}
<1>1. PICK kept : kept = Kept(job[p].opts.package, Contents[objs[c].bundle])
  OBVIOUS
<1>2. /\ todo'[p] = todo[p] \ {c} /\ read' = read /\ worked' = worked /\ job' = job
      /\ found' = [found EXCEPT ![p] =
           IF job[p].opts.package = "" \/ kept.packages # <<>> THEN With(@, c, kept) ELSE @]
  BY <1>1, Domains DEF Fetch, history
<1>3. DOMAIN found'[p] = IF job[p].opts.package = "" \/ kept.packages # <<>>
                           THEN {c} \cup DOMAIN found[p] ELSE DOMAIN found[p]
  <2>1. found'[p] = IF job[p].opts.package = "" \/ kept.packages # <<>>
                      THEN With(found[p], c, kept) ELSE found[p]
    BY <1>2 DEF SearchInv
  <2>2. DOMAIN With(found[p], c, kept) = {c} \cup DOMAIN found[p]
    BY DEF With
  <2> QED
    BY <2>1, <2>2
<1>4. c \in DOMAIN read[p] /\ c \in Catalogs
  BY DEF Told
<1>5. ASSUME OneContent(p, c) PROVE c \in DOMAIN found'[p] <=> Holds(p, c)
  <2>1. objs[c].bundle = read[p][c]
    <3>1. \E w \in worked : w[1] = c /\ w[3] = objs[c].bundle
      BY <1>4 DEF ServedInv, Served, Names
    <3>2. \A w \in worked : w[1] = c => w[3] = read[p][c]
      BY <1>5 DEF OneContent
    <3> QED
      BY <3>1, <3>2
  <2>2. c \in DOMAIN found'[p] <=> job[p].opts.package = "" \/ kept.packages # <<>>
    BY <1>3 DEF Told
  <2> QED
    BY <1>1, <2>1, <2>2, KeptOf DEF Holds
<1>6. \A d \in DOMAIN read[p] : Holds(p, d)' = Holds(p, d) /\ OneContent(p, d)' = OneContent(p, d)
  BY <1>2 DEF Holds, OneContent
<1>7. \A d \in DOMAIN read[p] \ todo'[p] :
        OneContent(p, d) => (d \in DOMAIN found'[p] <=> Holds(p, d))
  BY <1>2, <1>3, <1>5 DEF Told
<1>8. DOMAIN found'[p] \subseteq DOMAIN read[p] \ todo'[p]
  BY <1>2, <1>3, <1>4 DEF Told
<1>9. ASSUME NEW d \in DOMAIN found'[p] PROVE FromContent(p, d)'
  <2>1. found'[p] = IF job[p].opts.package = "" \/ kept.packages # <<>>
                      THEN With(found[p], c, kept) ELSE found[p]
    BY <1>2 DEF SearchInv
  <2>2. CASE d = c
    <3>1. found'[p] = With(found[p], c, kept) /\ (job[p].opts.package = "" \/ kept.packages # <<>>)
      BY <1>9, <2>1, <2>2 DEF Told
    <3>2. found'[p][c] = kept
      BY <3>1 DEF With
    <3>3. PICK w \in worked : w[1] = c /\ w[3] = objs[c].bundle /\ objs[c].bundle \in DOMAIN Contents
      BY <1>4 DEF ServedInv, Served, Names
    <3>4. job[p].opts.package \in {""} \cup ToSet(Contents[w[3]].packages)
      BY <1>1, <3>1, <3>3, KeptOf
    <3> QED
      BY <1>1, <1>2, <2>2, <3>2, <3>3, <3>4 DEF FromContent, IsOf
  <2>3. CASE d # c
    <3>1. d \in DOMAIN found[p] /\ found'[p][d] = found[p][d]
      BY <1>3, <1>9, <2>1, <2>3 DEF With
    <3>2. PICK w \in worked : w[1] = d /\ IsOf(p, d, w[3])
      BY <3>1 DEF Told, FromContent
    <3>3. IsOf(p, d, w[3])'
      BY <1>2, <3>1, <3>2 DEF IsOf
    <3> QED
      BY <1>2, <3>2, <3>3 DEF FromContent
  <2> QED
    BY <2>2, <2>3
<1> QED
  BY <1>2, <1>6, <1>7, <1>8, <1>9 DEF Told

LEMMA SearchFetches ==
  ASSUME IInv, ServedInv, SearchInv, NEW p \in Procs, job[p].kind = "search", Searching(p), Fetch(p)
  PROVE  Searching(p)'
<1>1. pc[p] = "Fetch" /\ at[p] \in todo[p] /\ Told(p) /\ why[p] = "none"
  BY DEF Fetch, Searching, IInv, ControlInv, Control
<1>2. CASE Alive(p) /\ Has(at[p], "Serving")
  <2>1. Told(p)' /\ todo'[p] = todo[p] \ {at[p]}
    BY <1>1, <1>2, FetchTells
  <2>2. \/ Goto(p, "FindPod")
        \/ todo'[p] = {} /\ Goto(p, "Done")
        \/ todo'[p] = {} /\ DOMAIN found'[p] = {} /\ Fail(p, "notFound")
        \/ Fail(p, "panic")
    BY <1>2 DEF Fetch, Finish
  <2>3. CASE Fail(p, "panic")
    BY <2>3, SearchFails
  <2>4. CASE Goto(p, "FindPod") \/ (todo'[p] = {} /\ Goto(p, "Done"))
    BY <1>1, <2>1, <2>4, Domains DEF Goto, Searching
  <2>5. CASE todo'[p] = {} /\ DOMAIN found'[p] = {} /\ Fail(p, "notFound")
    BY <2>1, <2>5, Domains DEF Fail, Searching
  <2> QED
    BY <2>2, <2>3, <2>4, <2>5
<1>3. CASE ~(Alive(p) /\ Has(at[p], "Serving"))
  BY <1>3, SearchFails DEF Fetch
<1> QED
  BY <1>2, <1>3

LEMMA SearchMoves ==
  ASSUME IInv, ServedInv, SearchInv, Changes, NEW p \in Procs, job[p].kind = "search", Searching(p),
         job' = job, Command(p) \/ CallFails(p) \/ AnswerLost(p)
  PROVE  Searching(p)'
<1>0. pc[p] \in {"Validate", "ListServing", "FindPod", "Forward", "Fetch"} \cup Ended
  BY DEF IInv, RunsInv, ControlInv, Control, MayCall, Calls, Creating, Deleting, Updating
<1>1. worked \subseteq worked' /\ (pc[p] # "Failed" => why[p] = "none")
  BY DEF Changes, IInv, ControlInv, Control
<1>2. CASE StartSearch(p)
  BY <1>1, <1>2, Domains DEF StartSearch, Goto, Searching, searchVars
<1>3. CASE FindPod(p)
  <2>1. UNCHANGED <<todo, read, found>> /\ pc[p] = "FindPod" /\ Told(p) /\ why[p] = "none"
    BY <1>1, <1>3 DEF FindPod, Searching
  <2>2. Told(p)'
    BY <1>1, <2>1, ToldStays
  <2>3. Fail(p, "call") \/ (Goto(p, "Forward") /\ at'[p] \in todo[p])
    BY <1>3, Domains DEF FindPod
  <2>4. CASE Goto(p, "Forward") /\ at'[p] \in todo[p]
    BY <2>1, <2>2, <2>4, Domains DEF Goto, Searching
  <2> QED
    BY <2>3, <2>4, SearchFails
<1>4. CASE Forward(p)
  <2>1. /\ UNCHANGED <<todo, read, found, at>> /\ pc[p] = "Forward"
        /\ Told(p) /\ at[p] \in todo[p] /\ why[p] = "none"
    BY <1>1, <1>4 DEF Forward, Searching, local, searchVars
  <2>2. Told(p)'
    BY <1>1, <2>1, ToldStays
  <2>3. Fail(p, "call") \/ Goto(p, "Fetch")
    BY <1>4 DEF Forward
  <2>4. CASE Goto(p, "Fetch")
    BY <2>1, <2>2, <2>4, Domains DEF Goto, Searching
  <2> QED
    BY <2>3, <2>4, SearchFails
<1>5. CASE CallFails(p)
  <2>1. Fail(p, "call")
    BY <1>0, <1>5 DEF CallFails, Ended, Calls
  <2> QED
    BY <2>1, SearchFails
<1>6. ~AnswerLost(p) /\ ~CatalogCommand(p) /\ ~ExtensionCommand(p) /\ ~StartGet(p) /\ ~Look(p)
  <2>1. ~CatalogCommand(p)
    BY DEF CatalogCommand, StartCreate, CreateCatalog, WaitServing, StartCatalogUpdate, GetCatalog,
           UpdateCatalog, StartDelete, ListCatalogs, DeleteCatalog, StartSource, PullImage, AddSource,
           WaitReady, RemoveSource, CleanUp
  <2>2. ~ExtensionCommand(p)
    BY <1>0 DEF ExtensionCommand, StartExtension, CreateExtension, WaitInstalled, WaitCleanUp,
                GetExtension, UpdateExtension, WaitUpgraded, StartUninstall, ListExtensions,
                DeleteExtension, Ended
  <2>3. ~AnswerLost(p) /\ ~StartGet(p) /\ ~Look(p)
    BY <1>0 DEF AnswerLost, StartGet, Look, Ended
  <2> QED
    BY <2>1, <2>2, <2>3
<1> QED
  BY <1>2, <1>3, <1>4, <1>5, <1>6, SearchLists, SearchFetches DEF Command, ReadCommand

-----------------------------------------------------------------------------
(***************************************************************************)
(* SearchInv is an invariant.                                              *)
(***************************************************************************)

LEMMA InitSearch == Init => SearchInv
BY DEF Init, SearchInv, Searching

LEMMA NextKeepsSearches == IInv /\ OutcomesInv /\ SearchInv /\ [Next]_allVars => SearchInv'
<1> SUFFICES ASSUME IInv, OutcomesInv, SearchInv, [Next]_allVars PROVE SearchInv'
  OBVIOUS
<1>1. Changes /\ job' = job /\ ServedInv
  BY NextChanges, NextMoves DEF OutcomesInv
<1>2. worked \subseteq worked'
  BY <1>1 DEF Changes
<1>3. /\ found' = [p \in Procs |-> found'[p]]
      /\ \A q \in Procs : found'[q] = found[q] \/ Fetch(q)
  BY OnlyFetchFinds
<1>4. ASSUME NEW q \in Procs, job[q].kind = "search" PROVE Searching(q)'
  <2>0. Searching(q)
    BY <1>4 DEF SearchInv
  <2>1. CASE Aside(q) /\ found'[q] = found[q]
    BY <1>2, <2>0, <2>1, SearchStays
  <2>2. ASSUME NEW p \in Procs, Command(p) \/ CallFails(p) \/ AnswerLost(p)
        PROVE  Searching(q)'
    <3>1. CASE p = q
      BY <1>1, <1>4, <2>0, <2>2, <3>1, SearchMoves
    <3>2. CASE p # q /\ ~Fetch(q)
      BY <1>3, <2>1, <2>2, <3>2, StepAside
    <3>3. CASE Fetch(q)
      BY <1>1, <1>4, <2>0, <3>3, SearchFetches
    <3> QED
      BY <3>1, <3>2, <3>3
  <2>3. CASE Controllers \/ RollOut \/ Outsiders \/ UNCHANGED allVars
    <3>1. CASE Fetch(q)
      BY <1>1, <1>4, <2>0, <3>1, SearchFetches
    <3> QED
      BY <1>3, <2>1, <2>3, <3>1, OthersAside
  <2> QED
    BY <2>2, <2>3 DEF Next
<1> QED
  BY <1>1, <1>3, <1>4 DEF SearchInv

LEMMA AlwaysSearch == Spec => []SearchInv
BY AlwaysOutcomes, InitSearch, NextKeepsSearches, PTL DEF Spec

-----------------------------------------------------------------------------
(***************************************************************************)
(* What a search prints.                                                   *)
(***************************************************************************)

\* A search is for every package, or for the one of its name.
Every(name)   == name = ""
Asks(name, k) == name \in {"", k}

LEMMA AsksFor ==
  ASSUME NEW name, NEW k
  PROVE  Asks(name, k) <=> Every(name) \/ name = k
BY DEF Asks, Every

\* What is kept of a content is all that was asked for of it.
LEMMA KeptContent ==
  ASSUME NEW content, IsContent(content), NEW name, Every(name) \/ name \in ToSet(content.packages),
         NEW kept, kept = Kept(name, content), NEW listVersions
  PROVE  /\ IsContent(kept) /\ (Every(name) \/ OfPackage(kept, name))
         /\ \A k : k \in ToSet(kept.packages) <=> k \in ToSet(content.packages) /\ Asks(name, k)
         /\ \A k \in ToSet(kept.packages) : Cells(kept, k, listVersions) = Cells(content, k, listVersions)
<1>1. CASE Every(name)
  <2>1. kept = content
    BY <1>1 DEF Kept, Every
  <2> QED
    BY <1>1, <2>1, AsksFor
<1>2. CASE ~Every(name)
  <2>1. kept = filterPackage(content, name) /\ name \in ToSet(content.packages)
    BY <1>2 DEF Kept, Every
  <2>2. /\ IsContent(kept) /\ ToSet(kept.packages) = {name}
        /\ ToSet(kept.channels) = Entries(content.channels, name)
        /\ ToSet(kept.bundles) = Entries(content.bundles, name)
        /\ ToSet(kept.rest) = Entries(content.rest, name)
    BY <2>1, Filtered
  <2>3. OfPackage(kept, name)
    BY <2>2 DEF OfPackage, Entries
  <2>4. Cells(kept, name, listVersions) = Cells(content, name, listVersions)
    <3>1. {d \in ToSet(kept.bundles) : d.package = name /\ d.version # Unset}
            = {d \in ToSet(content.bundles) : d.package = name /\ d.version # Unset}
      BY <2>2 DEF Entries
    <3>2. {e \in ToSet(kept.channels) : e.package = name}
            = {e \in ToSet(content.channels) : e.package = name}
      BY <2>2 DEF Entries
    <3> QED
      BY <3>1, <3>2 DEF Cells
  <2> QED
    BY <1>2, <2>1, <2>2, <2>3, <2>4, AsksFor
<1> QED
  BY <1>1, <1>2

\* What the user expects to see of a content, and what rows show.
LEMMA ExpectedCells ==
  ASSUME NEW p \in Procs, NEW c, NEW y
  PROVE  y \in Expected(p, c) <=>
           \E k \in ToSet(Contents[read[p][c]].packages) :
             /\ Asks(job[p].opts.package, k)
             /\ \E x \in Cells(Contents[read[p][c]], k, job[p].opts.listVersions) : y = <<k, c, x>>
<1>1. CASE job[p].opts.listVersions
  BY <1>1 DEF Expected, Cells, Asks
<1>2. CASE ~job[p].opts.listVersions
  BY <1>2 DEF Expected, Cells, Asks
<1> QED
  BY <1>1, <1>2

LEMMA ShownCells ==
  ASSUME NEW p \in Procs, NEW c, NEW y, NEW printed
  PROVE  y \in Shown(p, printed, c) <=>
           \E i \in DOMAIN printed :
             printed[i][2] = c /\ y = <<printed[i][1], c, Cell(printed[i], job[p].opts.listVersions)>>
BY DEF Shown, Cell, ToSet

\* A search that has told of every catalog shows what is there, in order.
LEMMA ToldShows ==
  ASSUME NEW p \in Procs, Told(p), todo[p] = {}, NEW printed, printed = Printed(p)
  PROVE  /\ ~Every(job[p].opts.package) =>
              \A c \in DOMAIN found[p] : OfPackage(found[p][c], job[p].opts.package)
         /\ \A c \in DOMAIN read[p] : OneContent(p, c) => Shown(p, printed, c) = Expected(p, c)
         /\ \A i, j \in DOMAIN printed :
              i < j => ~Lex(RowKey(p, printed[j]), RowKey(p, printed[i]))
<1>1. PICK listVersions : listVersions = job[p].opts.listVersions
  OBVIOUS
<1>2. PICK name : name = job[p].opts.package
  OBVIOUS
<1>3. PICK contents : contents = found[p]
  OBVIOUS
<1>4. ASSUME NEW c \in DOMAIN contents
      PROVE  \E w \in worked :
               /\ w[1] = c /\ IsContent(contents[c]) /\ (Every(name) \/ OfPackage(contents[c], name))
               /\ \A k : k \in ToSet(contents[c].packages)
                         <=> k \in ToSet(Contents[w[3]].packages) /\ Asks(name, k)
               /\ \A k \in ToSet(contents[c].packages) :
                    Cells(contents[c], k, listVersions) = Cells(Contents[w[3]], k, listVersions)
  <2>1. PICK w \in worked : w[1] = c /\ IsOf(p, c, w[3])
    BY <1>3, <1>4 DEF Told, FromContent
  <2>2. /\ w[3] \in DOMAIN Contents /\ (Every(name) \/ name \in ToSet(Contents[w[3]].packages))
        /\ contents[c] = Kept(name, Contents[w[3]])
    BY <1>2, <1>3, <2>1 DEF IsOf, Every
  <2>3. PICK content : content = Contents[w[3]] /\ IsContent(content)
    BY <2>2, ContentsAreTyped
  <2>4. (Every(name) \/ name \in ToSet(content.packages)) /\ contents[c] = Kept(name, content)
    BY <2>2, <2>3
  <2>5. /\ IsContent(contents[c]) /\ (Every(name) \/ OfPackage(contents[c], name))
        /\ \A k : k \in ToSet(contents[c].packages) <=> k \in ToSet(content.packages) /\ Asks(name, k)
        /\ \A k \in ToSet(contents[c].packages) :
             Cells(contents[c], k, listVersions) = Cells(content, k, listVersions)
    BY <2>3, <2>4, KeptContent
  <2> QED
    BY <2>1, <2>3, <2>5
<1>5. DOMAIN contents \in SUBSET ToSet(Alphabet) /\ DOMAIN contents \subseteq DOMAIN read[p]
  BY <1>3, NamesAreSorted DEF Told, Names
<1>6. ShowsAll(printed, contents, listVersions)
  <2>1. printed = printFormattedDeclCfg(contents, listVersions)
    BY <1>1, <1>3 DEF Printed
  <2>2. \A c \in DOMAIN contents : IsContent(contents[c])
    BY <1>4
  <2> QED
    BY <1>5, <2>1, <2>2, AllShown
<1>7. ASSUME NEW c \in DOMAIN read[p], OneContent(p, c)
      PROVE  Shown(p, printed, c) = Expected(p, c)
  <2>1. PICK content : content = Contents[read[p][c]]
    OBVIOUS
  <2> DEFINE packages == {k \in ToSet(content.packages) : Asks(name, k)}
  <2>2. \A w \in worked : w[1] = c => w[3] = read[p][c]
    BY <1>7 DEF OneContent
  <2>3. c \in DOMAIN contents =>
          /\ ToSet(contents[c].packages) = packages
          /\ \A k \in packages : Cells(contents[c], k, listVersions) = Cells(content, k, listVersions)
    BY <1>4, <2>1, <2>2
  <2>4. c \notin DOMAIN contents => packages = {}
    <3>1. c \notin DOMAIN contents => ~Holds(p, c)
      BY <1>3, <1>7 DEF Told
    <3>2. ~Holds(p, c) => ~Every(name) /\ name \notin ToSet(content.packages)
      BY <1>2, <2>1 DEF Holds, Every
    <3> QED
      BY <3>1, <3>2, AsksFor
  <2> HIDE DEF packages
  <2>5. ASSUME NEW y
        PROVE  y \in Expected(p, c) <=> \E k \in packages : \E x \in Cells(content, k, listVersions) : y = <<k, c, x>>
    <3>1. \A k : k \in packages <=> k \in ToSet(content.packages) /\ Asks(name, k)
      BY DEF packages
    <3>2. y \in Expected(p, c) <=>
            \E k \in ToSet(content.packages) :
              Asks(name, k) /\ \E x \in Cells(content, k, listVersions) : y = <<k, c, x>>
      BY <1>1, <1>2, <2>1, ExpectedCells
    <3> QED
      BY <3>1, <3>2
  <2>6. ASSUME NEW y
        PROVE  y \in Shown(p, printed, c) <=>
                 \E i \in DOMAIN printed :
                   printed[i][2] = c /\ y = <<printed[i][1], c, Cell(printed[i], listVersions)>>
    BY <1>1, ShownCells
  <2>7. ASSUME NEW y \in Shown(p, printed, c) PROVE y \in Expected(p, c)
    <3>1. PICK i \in DOMAIN printed :
            printed[i][2] = c /\ y = <<printed[i][1], c, Cell(printed[i], listVersions)>>
      BY <2>6
    <3>2. /\ c \in DOMAIN contents /\ printed[i][1] \in ToSet(contents[c].packages)
          /\ Cell(printed[i], listVersions) \in Cells(contents[c], printed[i][1], listVersions)
      BY <1>6, <3>1 DEF ShowsAll
    <3> QED
      BY <2>3, <2>5, <3>1, <3>2
  <2>8. ASSUME NEW y \in Expected(p, c) PROVE y \in Shown(p, printed, c)
    <3>1. PICK k \in packages : \E x \in Cells(content, k, listVersions) : y = <<k, c, x>>
      BY <2>5, <2>8
    <3>2. PICK x \in Cells(content, k, listVersions) : y = <<k, c, x>>
      BY <3>1
    <3>3. c \in DOMAIN contents /\ k \in ToSet(contents[c].packages) /\ x \in Cells(contents[c], k, listVersions)
      BY <2>3, <2>4, <3>1, <3>2
    <3>4. PICK i \in DOMAIN printed :
            printed[i][2] = c /\ printed[i][1] = k /\ Cell(printed[i], listVersions) = x
      BY <1>6, <3>3 DEF ShowsAll
    <3> QED
      BY <2>6, <3>4, <3>2
  <2> QED
    BY <2>7, <2>8
<1>8. ASSUME NEW i \in DOMAIN printed, NEW j \in DOMAIN printed, i < j
      PROVE  ~Lex(RowKey(p, printed[j]), RowKey(p, printed[i]))
  <2>1. PICK a, b : a = printed[i] /\ b = printed[j]
    OBVIOUS
  <2>2. ASSUME NEW k \in DOMAIN printed, NEW r, r = printed[k]
        PROVE  /\ Pos(r[2]) \in Int /\ Pos(r[1]) \in Int
               /\ listVersions => Pos(r[4]) \in Int
    <3>1. /\ r[2] \in DOMAIN contents /\ r[1] \in ToSet(contents[r[2]].packages)
          /\ Cell(r, listVersions) \in Cells(contents[r[2]], r[1], listVersions)
      BY <1>6, <2>2 DEF ShowsAll
    <3>2. IsContent(contents[r[2]])
      BY <1>4, <3>1
    <3>3. r[2] \in ToSet(Alphabet) /\ r[1] \in ToSet(Alphabet)
      BY <1>5, <3>1, <3>2 DEF IsContent
    <3>4. listVersions => r[4] \in ToSet(Alphabet)
      BY <3>1, <3>2 DEF Cell, Cells, IsContent
    <3>5. \A x \in ToSet(Alphabet) : Pos(x) \in Int
      BY Places
    <3> QED
      BY <3>3, <3>4, <3>5
  <2>3. /\ Pos(a[2]) \in Int /\ Pos(a[1]) \in Int /\ (listVersions => Pos(a[4]) \in Int)
        /\ Pos(b[2]) \in Int /\ Pos(b[1]) \in Int /\ (listVersions => Pos(b[4]) \in Int)
    BY <2>1, <2>2
  <2>4. \/ Pos(a[2]) < Pos(b[2])
        \/ /\ a[2] = b[2]
           /\ Pos(a[1]) < Pos(b[1]) \/ (a[1] = b[1] /\ Descend(a, b, listVersions))
    BY <1>6, <1>8, <2>1 DEF ShowsAll
  <2>5. PICK x, y : /\ x = IF listVersions THEN -Pos(a[4]) ELSE 0
                    /\ y = IF listVersions THEN -Pos(b[4]) ELSE 0
    OBVIOUS
  <2>6. x \in Int /\ y \in Int /\ (Descend(a, b, listVersions) => x <= y)
    BY <2>3, <2>5 DEF Descend
  <2>7. RowKey(p, a) = <<Pos(a[2]), Pos(a[1]), x>> /\ RowKey(p, b) = <<Pos(b[2]), Pos(b[1]), y>>
    BY <1>1, <2>5 DEF RowKey
  <2>8. Lex(<<Pos(b[2]), Pos(b[1]), y>>, <<Pos(a[2]), Pos(a[1]), x>>) <=>
          \/ Pos(b[2]) < Pos(a[2])
          \/ /\ Pos(b[2]) = Pos(a[2])
             /\ Pos(b[1]) < Pos(a[1]) \/ (Pos(b[1]) = Pos(a[1]) /\ y < x)
    BY <2>3, <2>6, LexThree
  <2>9. ~Lex(<<Pos(b[2]), Pos(b[1]), y>>, <<Pos(a[2]), Pos(a[1]), x>>)
    BY <2>3, <2>4, <2>6, <2>8
  <2> QED
    BY <2>1, <2>7, <2>9
<1> QED
  BY <1>2, <1>3, <1>4, <1>7, <1>8

-----------------------------------------------------------------------------
(***************************************************************************)
(* What `get catalog` prints.                                              *)
(***************************************************************************)

\* A catalog as it is listed.
IsListed(o) ==
  /\ o.name \in Catalogs /\ o = Named(o.name)
  /\ o.spec.mode \in {"Available", "Unavailable"} /\ o.spec.priority \in Int

LEMMA ListedCatalogs ==
  ASSUME SpecInv, NEW c \in Catalogs, Exists(c)
  PROVE  IsListed(Named(c)) /\ Named(c).name = c
<1>1. PICK o : o = Named(c)
  OBVIOUS
<1>2. o.name = c /\ o.spec = objs[c].spec
  BY <1>1 DEF Named
<1>3. Accepted(c, objs[c].spec)
  BY DEF SpecInv, Names
<1> QED
  BY <1>1, <1>2, <1>3 DEF IsListed, Accepted

LEMMA NamePlaces ==
  ASSUME NEW x \in Names \cup {"Available", "Unavailable"}
  PROVE  Pos(x) \in 1..Len(Alphabet) /\ Pos(x) \in Int /\ Alphabet[Pos(x)] = x
<1>1. x \in ToSet(Alphabet)
  BY NamesAreSorted, AlphabetIsOrdered
<1>2. Len(Alphabet) \in Nat
  BY AlphabetIsOrdered, ListFacts
<1> QED
  BY <1>1, <1>2, Places

\* What sorting compares.
Precedes(a, b) ==
  \/ Pos(a.spec.mode) < Pos(b.spec.mode)
  \/ /\ a.spec.mode = b.spec.mode
     /\ \/ a.spec.priority > b.spec.priority
        \/ a.spec.priority = b.spec.priority /\ Pos(a.name) < Pos(b.name)

LEMMA CatalogOrder ==
  ASSUME NEW a, NEW b, IsListed(a), IsListed(b)
  PROVE  Lex(CatalogKey(a), CatalogKey(b)) <=> Precedes(a, b)
<1>1. /\ Pos(a.spec.mode) \in Int /\ Pos(b.spec.mode) \in Int
      /\ Pos(a.spec.mode) = Pos(b.spec.mode) <=> a.spec.mode = b.spec.mode
      /\ Pos(a.name) \in Int /\ Pos(b.name) \in Int
  BY NamePlaces DEF IsListed, Names
<1>2. a.spec.priority \in Int /\ b.spec.priority \in Int
  BY DEF IsListed
<1>3. Lex(CatalogKey(a), CatalogKey(b)) <=>
        \/ Pos(a.spec.mode) < Pos(b.spec.mode)
        \/ /\ Pos(a.spec.mode) = Pos(b.spec.mode)
           /\ \/ -a.spec.priority < -b.spec.priority
              \/ -a.spec.priority = -b.spec.priority /\ Pos(a.name) < Pos(b.name)
  <2>1. PICK x, y : x = -a.spec.priority /\ y = -b.spec.priority
    OBVIOUS
  <2>2. x \in Int /\ y \in Int
    BY <1>2, <2>1
  <2>3. /\ CatalogKey(a) = <<Pos(a.spec.mode), x, Pos(a.name)>>
        /\ CatalogKey(b) = <<Pos(b.spec.mode), y, Pos(b.name)>>
    BY <2>1 DEF CatalogKey
  <2>4. Lex(<<Pos(a.spec.mode), x, Pos(a.name)>>, <<Pos(b.spec.mode), y, Pos(b.name)>>) <=>
          \/ Pos(a.spec.mode) < Pos(b.spec.mode)
          \/ /\ Pos(a.spec.mode) = Pos(b.spec.mode)
             /\ x < y \/ (x = y /\ Pos(a.name) < Pos(b.name))
    BY <1>1, <2>2, LexThree
  <2> QED
    BY <2>1, <2>3, <2>4
<1> QED
  BY <1>1, <1>2, <1>3 DEF Precedes

LEMMA OrderOfCatalogs ==
  ASSUME NEW a, NEW b, NEW c, IsListed(a), IsListed(b), IsListed(c)
  PROVE  /\ ~Precedes(a, a)
         /\ a # b => Precedes(a, b) \/ Precedes(b, a)
         /\ Precedes(a, b) /\ Precedes(b, c) => Precedes(a, c)
<1>1. /\ Pos(a.spec.mode) \in Int /\ Pos(b.spec.mode) \in Int /\ Pos(c.spec.mode) \in Int
      /\ Pos(a.spec.mode) = Pos(b.spec.mode) <=> a.spec.mode = b.spec.mode
      /\ Pos(b.spec.mode) = Pos(c.spec.mode) <=> b.spec.mode = c.spec.mode
      /\ Pos(a.name) \in Int /\ Pos(b.name) \in Int /\ Pos(c.name) \in Int
      /\ Pos(a.name) = Pos(b.name) <=> a = b
  BY NamePlaces DEF IsListed, Names
<1>2. a.spec.priority \in Int /\ b.spec.priority \in Int /\ c.spec.priority \in Int
  BY DEF IsListed
<1> QED
  BY <1>1, <1>2 DEF Precedes

\* A list of catalogs is finite, and there is a sorted sequence of it.
LEMMA SortedCatalogs ==
  ASSUME NEW S, \A o \in S : IsListed(o), NEW sorted, sorted = sortCatalogs(S)
  PROVE  /\ sorted \in [DOMAIN sorted -> S]
         /\ \A i, j \in DOMAIN sorted : i < j => Precedes(sorted[i], sorted[j])
<1>1. IsFiniteSet(S)
  <2> DEFINE place == [o \in S |-> Pos(o.name)]
  <2>1. \A o \in S : place[o] \in 1..Len(Alphabet)
    BY NamePlaces DEF IsListed, Names
  <2>2. \A a, b \in S : place[a] = place[b] => a = b
    BY NamePlaces DEF IsListed, Names
  <2>3. place \in [S -> 1..Len(Alphabet)]
    BY <2>1
  <2> HIDE DEF place
  <2>4. place \in Injection(S, 1..Len(Alphabet))
    BY <2>2, <2>3 DEF Injection, IsInjective
  <2>5. IsFiniteSet(1..Len(Alphabet))
    BY AlphabetIsOrdered, ListFacts, FS_Interval
  <2> QED
    BY <2>4, <2>5, FS_Injection
<1> DEFINE R == {r \in S \X S : Precedes(r[1], r[2])}
<1>2. \A a, b \in S : <<a, b>> \in R <=> Precedes(a, b)
  OBVIOUS
<1> HIDE DEF R
<1>3. \E s \in [1..Cardinality(S) -> S] : \A i, j \in DOMAIN s : i < j => <<s[i], s[j]>> \in R
  <2>1. \A a, b \in S : a # b => <<a, b>> \in R \/ <<b, a>> \in R
    BY <1>2, OrderOfCatalogs
  <2>2. \A a \in S : <<a, a>> \notin R
    BY <1>2, OrderOfCatalogs
  <2>3. \A a, b, c \in S : <<a, b>> \in R /\ <<b, c>> \in R => <<a, c>> \in R
    BY <1>2, OrderOfCatalogs
  <2>4. Orders(R, S)
    BY <2>1, <2>2, <2>3 DEF Orders
  <2> QED
    BY <1>1, <2>4, OrderedSequence
<1>4. \A a, b \in S : <<a, b>> \in R <=> Lex(CatalogKey(a), CatalogKey(b))
  BY <1>2, CatalogOrder
<1>5. \E s \in [1..Cardinality(S) -> S] :
        \A i, j \in DOMAIN s : i < j => Lex(CatalogKey(s[i]), CatalogKey(s[j]))
  BY <1>3, <1>4
<1>6. /\ sorted \in [1..Cardinality(S) -> S]
      /\ \A i, j \in DOMAIN sorted : i < j => Lex(CatalogKey(sorted[i]), CatalogKey(sorted[j]))
  BY <1>5 DEF sortCatalogs, InOrder
<1> QED
  BY <1>2, <1>4, <1>6

\* What a reader looks for comes first.
Preferred(r) ==
  \A i, j \in DOMAIN r : i < j =>
    /\ r[i][1] # r[j][1]
    /\ r[j][2] = "Available" => r[i][2] = "Available"
    /\ r[i][2] = r[j][2] => r[i][3] >= r[j][3]

LEMMA PrintedCatalogs ==
  ASSUME NEW S, \A o \in S : IsListed(o), NEW r, r = printFormattedCatalogs(S)
  PROVE  Preferred(r)
<1>1. PICK sorted : sorted = sortCatalogs(S)
  OBVIOUS
<1>2. /\ sorted \in [DOMAIN sorted -> S]
      /\ \A i, j \in DOMAIN sorted : i < j => Precedes(sorted[i], sorted[j])
  BY <1>1, SortedCatalogs
<1>3. /\ DOMAIN r = DOMAIN sorted
      /\ \A i \in DOMAIN sorted : /\ r[i][1] = sorted[i].name /\ r[i][2] = sorted[i].spec.mode
                                  /\ r[i][3] = sorted[i].spec.priority
  BY <1>1 DEF printFormattedCatalogs
<1> SUFFICES ASSUME NEW i \in DOMAIN sorted, NEW j \in DOMAIN sorted, i < j
             PROVE  /\ r[i][1] # r[j][1]
                    /\ r[j][2] = "Available" => r[i][2] = "Available"
                    /\ r[i][2] = r[j][2] => r[i][3] >= r[j][3]
  BY <1>3 DEF Preferred
<1>4. PICK a, b : a = sorted[i] /\ b = sorted[j] /\ a \in S /\ b \in S
  BY <1>2
<1>5. IsListed(a) /\ IsListed(b) /\ Precedes(a, b) /\ ~Precedes(a, a)
  BY <1>2, <1>4, OrderOfCatalogs
<1>6. a.name # b.name
  BY <1>5 DEF IsListed
<1>7. b.spec.mode = "Available" => a.spec.mode = "Available"
  <2>1. Pos("Available") < Pos("Unavailable") /\ Pos("Available") \in Int /\ Pos("Unavailable") \in Int
    BY AlphabetIsOrdered, NamePlaces
  <2> QED
    BY <1>5, <2>1 DEF IsListed, Precedes
<1>8. a.spec.mode = b.spec.mode => a.spec.priority >= b.spec.priority
  <2>1. Pos(a.spec.mode) \in Int
    BY <1>5, NamePlaces DEF IsListed
  <2> QED
    BY <1>5, <2>1 DEF IsListed, Precedes
<1> QED
  BY <1>3, <1>4, <1>6, <1>7, <1>8

GetsCatalogs(p) == job[p].kind = "get" /\ job[p].opts.of = Catalogs

GetInv ==
  /\ rows = [p \in Procs |-> rows[p]]
  /\ \A p \in Procs : GetsCatalogs(p) /\ pc[p] = "Done" => Preferred(rows[p])

LEMMA LookPrints ==
  ASSUME IInv, SpecInv, GetInv, NEW p \in Procs, GetsCatalogs(p), Look(p), pc'[p] = "Done"
  PROVE  Preferred(rows'[p])
<1> DEFINE matches == Matching(Catalogs, job[p].name, job[p].opts.selector)
<1>1. rows'[p] = printFormattedCatalogs({Named(n) : n \in matches})
  <2>1. ~Fail(p, "gone")
    BY Domains DEF Fail
  <2> QED
    BY <2>1 DEF Look, GetsCatalogs, GetInv
<1>2. \A n \in matches : IsListed(Named(n))
  BY ListedCatalogs DEF Matching
<1> HIDE DEF matches
<1>3. \A o \in {Named(n) : n \in matches} : IsListed(o)
  BY <1>2
<1> QED
  BY <1>1, <1>3, PrintedCatalogs

\* A run prints something in Look only.
LEMMA OnlyReadersPrint ==
  ASSUME GetInv, [Next]_allVars
  PROVE  /\ rows' = [p \in Procs |-> rows'[p]]
         /\ \A q \in Procs : rows'[q] = rows[q] \/ Look(q)
<1>1. rows = [p \in Procs |-> rows[p]]
  BY DEF GetInv
<1>2. ASSUME NEW p \in Procs, Look(p)
      PROVE  /\ rows' = [q \in Procs |-> rows'[q]]
             /\ \A q \in Procs \ {p} : rows'[q] = rows[q]
  BY <1>1, <1>2 DEF Look
<1>3. ASSUME NEW p \in Procs, Command(p) \/ CallFails(p) \/ AnswerLost(p), ~Look(p)
      PROVE  rows' = rows
  BY <1>3 DEF Command, ReadCommand, StartGet, StartSearch, ListServing, FindPod, Forward, Fetch,
              CallFails, AnswerLost, searchVars
<1>4. ASSUME Controllers PROVE rows' = rows
  BY <1>4 DEF Controllers, Serve, StopServing, Progress, InstallBundle, Connect, Finalize, Report, searchVars
<1>5. ASSUME Outsiders \/ RollOut \/ UNCHANGED allVars PROVE rows' = rows
  BY <1>5 DEF Outsiders, RollOut, allVars, searchVars
<1> QED
  BY <1>1, <1>2, <1>3, <1>4, <1>5 DEF Next

\* A run that gets something ends in Look only.
LEMMA OnlyLookEnds ==
  ASSUME IInv, NEW p \in Procs, job[p].kind = "get", ~Look(p),
         Command(p) \/ CallFails(p) \/ AnswerLost(p)
  PROVE  pc'[p] # "Done"
<1>0. pc[p] \in {"Validate", "Look"} \cup Ended
  BY DEF IInv, RunsInv, ControlInv, Control, MayCall, Calls, Creating, Deleting, Updating
<1>1. CASE StartGet(p)
  BY <1>1, Domains DEF StartGet, Goto
<1>2. CASE CallFails(p)
  BY <1>0, <1>2, Domains DEF CallFails, Fail, Ended
<1>3. ~CatalogCommand(p)
  BY DEF CatalogCommand, StartCreate, CreateCatalog, WaitServing, StartCatalogUpdate, GetCatalog,
         UpdateCatalog, StartDelete, ListCatalogs, DeleteCatalog, StartSource, PullImage, AddSource,
         WaitReady, RemoveSource, CleanUp
<1>4. ~ExtensionCommand(p)
  BY <1>0 DEF ExtensionCommand, StartExtension, CreateExtension, WaitInstalled, WaitCleanUp,
              GetExtension, UpdateExtension, WaitUpgraded, StartUninstall, ListExtensions,
              DeleteExtension, Ended
<1>5. ~AnswerLost(p) /\ ~StartSearch(p) /\ ~ListServing(p) /\ ~FindPod(p) /\ ~Forward(p) /\ ~Fetch(p)
  BY <1>0 DEF AnswerLost, StartSearch, ListServing, FindPod, Forward, Fetch, Ended
<1> QED
  BY <1>1, <1>2, <1>3, <1>4, <1>5 DEF Command, ReadCommand

LEMMA InitGet == Init => GetInv
BY DEF Init, GetInv

LEMMA NextKeepsGets == IInv /\ OutcomesInv /\ GetInv /\ [Next]_allVars => GetInv'
<1> SUFFICES ASSUME IInv, OutcomesInv, GetInv, [Next]_allVars PROVE GetInv'
  OBVIOUS
<1>1. SpecInv /\ job' = job
  BY NextMoves DEF OutcomesInv
<1>2. /\ rows' = [p \in Procs |-> rows'[p]]
      /\ \A q \in Procs : rows'[q] = rows[q] \/ Look(q)
  BY OnlyReadersPrint
<1>3. ASSUME NEW q \in Procs, GetsCatalogs(q), pc'[q] = "Done" PROVE Preferred(rows'[q])
  <2>1. CASE Look(q)
    BY <1>1, <1>3, <2>1, LookPrints
  <2>2. CASE ~Look(q)
    <3>1. Aside(q)
      <4>1. ~(Command(q) \/ CallFails(q) \/ AnswerLost(q))
        BY <1>3, <2>2, OnlyLookEnds DEF GetsCatalogs
      <4> QED
        BY <4>1, StepAside, OthersAside DEF Next
    <3> QED
      BY <1>2, <1>3, <2>2, <3>1 DEF Aside, GetInv
  <2> QED
    BY <2>1, <2>2
<1> QED
  BY <1>1, <1>2, <1>3 DEF GetInv, GetsCatalogs

LEMMA AlwaysGet == Spec => []GetInv
BY AlwaysOutcomes, InitGet, NextKeepsGets, PTL DEF Spec

(***************************************************************************)
(* The theorems.                                                           *)
(***************************************************************************)

\* Whatever catalogs come, go and change, and whatever pods of catalogd are
\* replaced meanwhile, a search that ends well has told of exactly those of its
\* catalogs that have the package, and one that says that the package was not
\* found has missed none that has it.  Only of catalogs that served several
\* contents meanwhile nothing is said.
THEOREM SearchesTellAll == Spec => []SearchTellsAll
<1>1. SearchInv => SearchTellsAll
  BY DEF SearchInv, Searching, Told, SearchTellsAll
<1> QED
  BY <1>1, AlwaysSearch, PTL

\* Whatever catalogs come, go and change meanwhile, a search that ends well hands
\* on nothing but what is of the package that the user asked for, and what it
\* prints is, by catalog, package and descending version, exactly what is there
\* of it: for every content of a catalog and every order of the lists in it.
THEOREM SearchesShowAll == Spec => []SearchShowsWhatIsThere
<1>1. SearchInv => SearchShowsWhatIsThere
  <2> SUFFICES ASSUME SearchInv, NEW p \in Procs, job[p].kind = "search", pc[p] = "Done",
                      NEW printed, printed = Printed(p)
               PROVE  /\ ~Every(job[p].opts.package) =>
                           \A c \in DOMAIN found[p] : OfPackage(found[p][c], job[p].opts.package)
                      /\ \A c \in DOMAIN read[p] : OneContent(p, c) => Shown(p, printed, c) = Expected(p, c)
                      /\ \A i, j \in DOMAIN printed :
                           i < j => ~Lex(RowKey(p, printed[j]), RowKey(p, printed[i]))
    BY DEF SearchShowsWhatIsThere, Every
  <2>1. Told(p) /\ todo[p] = {}
    BY DEF SearchInv, Searching
  <2> QED
    BY <2>1, ToldShows
<1> QED
  BY <1>1, AlwaysSearch, PTL

\* Whatever is in the cluster, `get catalog` lists each catalog once, those that
\* may serve before the others, and among each of these the ones of a higher
\* priority first.
THEOREM GetsPreferred == Spec => []PreferredFirst
<1>1. GetInv => PreferredFirst
  BY DEF GetInv, GetsCatalogs, Preferred, PreferredFirst
<1> QED
  BY <1>1, AlwaysGet, PTL

=============================================================================
