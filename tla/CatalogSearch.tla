--------------------------- MODULE CatalogSearch ---------------------------
(***************************************************************************)
(* `olmv1 search catalog`, which reads the contents of catalogs through a  *)
(* port forwarded to a pod of catalogd, and `olmv1 get`.                   *)
(***************************************************************************)
EXTENDS ClusterObjects, Listings

CONSTANTS
  Contents,     \* Contents[image]: what a catalog of that image serves
  ServicePorts, \* the ports of catalogd's service, by number
  UrlPort,      \* the port in the URL of a catalog
  MaxPods       \* bound on the pods that catalogd ever has

ASSUME PodBound == MaxPods \in Nat \ {0}

VARIABLES
  pods,   \* the pods in the endpoint slices of catalogd's service, in order
  pod,    \* the pod that a run has chosen
  found,  \* found[p][c]: the content that a run has read of catalog c
  rows    \* what a run of `get` has printed

searchVars == <<pods, pod, found, rows>>

Selected(selector, labels) ==
  selector = Unset \/ \A k \in DOMAIN selector : k \in DOMAIN labels /\ labels[k] = selector[k]

\* CatalogInstalledGet.Run and ExtensionInstalledGet.Run: by name, or by label.
Matching(kind, name, selector) ==
  {n \in kind : Exists(n) /\ IF name # None THEN n = name
                             ELSE Selected(selector, objs[n].spec.labels)}

Named(n) == [name |-> n, spec |-> objs[n].spec, status |-> objs[n].status, bundle |-> objs[n].bundle]

(***************************************************************************)
(* get.                                                                    *)
(***************************************************************************)

StartGet(p) ==
  /\ pc[p] = "Validate" /\ job[p].kind = "get"
  /\ Goto(p, "Look")
  /\ UNCHANGED <<objs, made, local, fresh, history, searchVars>>

Look(p) ==
  LET o       == job[p].opts
      matches == Matching(o.of, job[p].name, o.selector)
      objects == {Named(n) : n \in matches}
  IN  /\ pc[p] = "Look"
      /\ IF job[p].name # None /\ matches = {}
           THEN Fail(p, "gone") /\ UNCHANGED rows
           ELSE /\ Goto(p, "Done")
                /\ rows' = [rows EXCEPT ![p] = IF o.of = Catalogs
                     THEN printFormattedCatalogs(objects) ELSE printFormattedExtensions(objects)]
      /\ UNCHANGED <<objs, made, local, fresh, history, pods, pod, found>>

(***************************************************************************)
(* search.                                                                 *)
(***************************************************************************)

StartSearch(p) ==
  /\ pc[p] = "Validate" /\ job[p].kind = "search"
  /\ Goto(p, "ListServing")
  /\ UNCHANGED <<objs, made, local, fresh, history, searchVars>>

isCatalogServing(c) ==
  objs[c].spec.mode = "Available" /\ Has(c, "Serving") /\ objs[c].bundle # ""

\* The list is a snapshot: what it says of a catalog is used until the end.
ListServing(p) ==
  LET matches == Matching(Catalogs, job[p].name, job[p].opts.selector)
      serving == {c \in matches : isCatalogServing(c)}
  IN  /\ pc[p] = "ListServing"
      /\ read' = [read EXCEPT ![p] = [c \in serving |-> objs[c].bundle]]
      /\ todo' = [todo EXCEPT ![p] = serving]
      /\ IF serving # {} THEN Goto(p, "FindPod")
         ELSE Fail(p, IF job[p].name # None /\ matches = {} THEN "gone" ELSE "noneServing")
      /\ UNCHANGED <<objs, made, job, at, gone, failed, fresh, history, searchVars>>

\* getPodAndPortForService: the first pod, ready or not, and the port of it that
\* the service sends the port in the URL to, if it is given by number.
HasPort == UrlPort \in DOMAIN ServicePorts /\ ServicePorts[UrlPort] # 0

FindPod(p) ==
  /\ pc[p] = "FindPod"
  /\ \E c \in todo[p] : /\ \A d \in todo[p] : Pos(c) <= Pos(d)
                        /\ at' = [at EXCEPT ![p] = c]
  /\ IF HasPort /\ pods # <<>>
       THEN pod' = [pod EXCEPT ![p] = pods[1]] /\ Goto(p, "Forward")
       ELSE Fail(p, "call") /\ UNCHANGED pod
  /\ UNCHANGED <<objs, made, job, todo, gone, failed, read, fresh, history, pods, found, rows>>

\* The select over readiness and failure of the forwarded port.
Alive(p) == pod[p] \in ToSet(pods)

Forward(p) ==
  /\ pc[p] = "Forward"
  /\ IF Alive(p) THEN Goto(p, "Fetch") ELSE Fail(p, "call")
  /\ UNCHANGED <<objs, made, local, fresh, history, searchVars>>

\* What search keeps of a catalog.
Kept(package, content) ==
  IF package = "" THEN content ELSE filterPackage(content, package)

\* The map of contents, with one more.
With(contents, c, content) ==
  [d \in {c} \cup DOMAIN contents |-> IF d = c THEN content ELSE contents[d]]

\* After the last catalog.  What it prints depends on what it has found and on
\* nothing else, and it is the last thing that a run does: Printed(p), in Done.
Finish(p) ==
  LET o == job[p].opts IN
  IF o.package # "" /\ DOMAIN found'[p] = {} THEN Fail(p, "notFound")
  ELSE IF o.output = "" /\ ~Printable(found'[p], o.listVersions) THEN Fail(p, "panic")
  ELSE Goto(p, "Done")

Printed(p) == printFormattedDeclCfg(found[p], job[p].opts.listVersions)

\* Mutated: skips a catalog that it cannot read.
FetchMutant(p) ==
  LET c == at[p]
      kept == Kept(job[p].opts.package, Contents[objs[c].bundle])
  IN  /\ pc[p] = "Fetch"
      /\ IF Alive(p) /\ Has(c, "Serving")
           THEN found' = [found EXCEPT ![p] =
                  IF job[p].opts.package = "" \/ kept.packages # <<>>
                    THEN With(@, c, kept) ELSE @]
           ELSE UNCHANGED found
      /\ todo' = [todo EXCEPT ![p] = @ \ {c}]
      /\ IF todo'[p] # {} THEN Goto(p, "FindPod") ELSE Finish(p)
      /\ UNCHANGED <<objs, made, job, at, gone, failed, read, fresh, history, pods, pod, rows>>

\* A request for a catalog that is not served any more gets no content, and
\* one catalog's error is the error of the search.
Fetch(p) ==
  LET c == at[p]
      kept == Kept(job[p].opts.package, Contents[objs[c].bundle])
  IN  /\ pc[p] = "Fetch"
      /\ IF Alive(p) /\ Has(c, "Serving")
           THEN /\ found' = [found EXCEPT ![p] =
                     IF job[p].opts.package = "" \/ kept.packages # <<>>
                       THEN With(@, c, kept) ELSE @]
                /\ todo' = [todo EXCEPT ![p] = @ \ {c}]
                /\ IF todo'[p] # {} THEN Goto(p, "FindPod") ELSE Finish(p)
           ELSE Fail(p, "call") /\ UNCHANGED <<found, todo>>
      /\ UNCHANGED <<objs, made, job, at, gone, failed, read, fresh, history, pods, pod, rows>>

ReadCommand(p) ==
  \/ StartGet(p) \/ Look(p)
  \/ StartSearch(p) \/ ListServing(p) \/ FindPod(p) \/ Forward(p) \/ Fetch(p)

(***************************************************************************)
(* catalogd's pods are replaced, with an overlap or after a gap.           *)
(***************************************************************************)

RollOut ==
  /\ \/ Len(pods) = 1 /\ pods[1] < MaxPods /\ pods' \in {<<>>, Append(pods, pods[1] + 1)}
     \/ Len(pods) = 2 /\ pods' = Tail(pods)
     \/ pods = <<>> /\ pods' = <<MaxPods>>
  /\ UNCHANGED <<objs, made, pc, why, local, fresh, history, pod, found, rows>>
=============================================================================
