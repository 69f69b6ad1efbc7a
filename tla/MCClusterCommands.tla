------------------------- MODULE MCClusterCommands -------------------------
(***************************************************************************)
(* Small instances of ClusterCommands: what is in the cluster, and pairs   *)
(* of commands that run at the same time.                                  *)
(***************************************************************************)
EXTENDS ClusterCommands

CONSTANT Asked  \* the scenes

MCAlphabet == <<"", "1", "2", "3", "Available", "Unavailable", "alpha", "beta",
                "c1", "c2", "e1", "op", "s1", "zz">>

\* "i1" has version 1 of "op", "i2" has 2 and, once, 1; "zz" of "i2" is nothing
\* but a package and a channel, as a bundle of "op" is without a version.
Bundle(k, v)  == [package |-> k, version |-> v, provider |-> "x"]
Channel(k, n) == [package |-> k, name |-> n]

MCContents == [i1 |->
    [packages |-> <<"zz", "op">>,
     channels |-> <<Channel("op", "beta"), Channel("zz", "alpha"), Channel("op", "alpha")>>,
     bundles  |-> <<Bundle("zz", "3"), Bundle("op", "1")>>,
     rest     |-> <<Channel("zz", "beta")>>],
  i2 |->
    [packages |-> <<"op", "zz">>,
     channels |-> <<Channel("op", "alpha"), Channel("zz", "beta")>>,
     bundles  |-> <<Bundle("op", Unset), Bundle("op", "1"), Bundle("op", "2")>>,
     rest     |-> <<>>]]

(***************************************************************************)
(* The objects.                                                            *)
(***************************************************************************)

Labelled(v) == [l |-> v]

Catalog(image, mode, priority) ==
  [priority |-> priority, poll |-> Unset, image |-> image, mode |-> mode, labels |-> Labelled("x")]

Extension(version, safety) ==
  [version |-> version, channels |-> <<>>, selector |-> Unset, policy |-> "CatalogProvided",
   safety |-> safety, labels |-> Labelled("x")]

Source == [image |-> "i1", displayName |-> "", publisher |-> ""]

MCOlds == [
  c1 |-> [uid |-> 1, spec |-> Catalog("i1", "Available", 0), status |-> {"Serving"}, bundle |-> "i1"],
  c2 |-> [uid |-> 2, spec |-> Catalog("i2", "Available", 1), status |-> {"Serving"}, bundle |-> "i2"],
  e1 |-> [uid |-> 3, spec |-> Extension("1", "Strict"), status |-> {"Succeeded", "Installed"}, bundle |-> "1"],
  s1 |-> [uid |-> 4, spec |-> Source, status |-> {"READY"}, bundle |-> ""]]

MCNewSpecs == [c1 |-> {Catalog("i2", "Unavailable", 2)},
               e1 |-> {Extension("2", Unset), Extension("~2", "Strict")}, s1 |-> {Source}]

MCImageLabels == [i1 |-> [k \in {"publisher"} |-> "x"]]

MCPorts == [n \in {443} |-> 8443]

(***************************************************************************)
(* The jobs.                                                               *)
(***************************************************************************)

Job(kind, name, opts) == [kind |-> kind, name |-> name, dry |-> FALSE, opts |-> opts]
Dry(j) == [j EXCEPT !.dry = TRUE]

CatalogFlags   == [priority |-> Unset, poll |-> Unset, image |-> "", available |-> "",
                   labels |-> Unset, ignoreUnset |-> TRUE]
ExtensionFlags == [version |-> "", channels |-> <<>>, selector |-> Unset, policy |-> "",
                   safety |-> "", labels |-> <<>>, ignoreUnset |-> TRUE]

Create(available)  == Job("create", "c1", [CatalogFlags EXCEPT !.image = "i2", !.available = available])
Install(version)   == Job("install", "e1", [ExtensionFlags EXCEPT !.version = version])
Upgrade(version)   == Job("upgrade", "e1", [ExtensionFlags EXCEPT !.version = version])
Relabel            == Job("upgrade", "e1", [ExtensionFlags EXCEPT !.labels = [m |-> "y", l |-> ""]])
Retry              == Job("upgrade", "e1", [ExtensionFlags EXCEPT !.ignoreUnset = FALSE])
Prioritise         == Job("update", "c1", [CatalogFlags EXCEPT !.priority = 5, !.labels = [m |-> "y"]])
Switch             == Job("update", "c1", [CatalogFlags EXCEPT !.image = "i2", !.available = "true"])
Silence            == Job("update", "c1", [CatalogFlags EXCEPT !.available = "false", !.poll = 10])
Revert             == Job("update", "c1", [CatalogFlags EXCEPT !.ignoreUnset = FALSE])
Malform            == Job("update", "c1", [CatalogFlags EXCEPT !.image = "bad"])
DeleteAll(kind)    == Job(kind, None, None)
DeleteOne(kind, n) == Job(kind, n, None)
Add(image)         == Job("add", "s1", [image |-> image, displayName |-> "mine", publisher |-> ""])
Search(name, k, versions) ==
  Job("search", name, [package |-> k, listVersions |-> versions, selector |-> Unset, output |-> ""])
SearchLabel(v) ==
  Job("search", None, [package |-> "op", listVersions |-> FALSE, selector |-> Labelled(v), output |-> "yaml"])
Get(kind, name)    == Job("get", name, [of |-> kind, selector |-> Unset])

\* Which jobs the two runs have, and which objects there are at first.
Scenes == [
  creates  |-> [jobs  |-> {Create(a) : a \in {"", "true", "false"}} \X {DeleteAll("delete")}
                          \cup {Create("true")} \X {Create("true"), Silence}
                          \cup {<<Create(""), Dry(Create("true"))>>},
                first |-> {{}, {"c2"}}],
  updates  |-> [jobs  |-> {Prioritise, Revert, Malform}
                            \X {Switch, Silence, Dry(Switch), Get(Catalogs, None)},
                first |-> {{}, {"c1", "c2"}}],
  installs |-> [jobs  |-> {Install(v) : v \in {"", "2"}}
                            \X {DeleteAll("delete"), DeleteAll("uninstall"), Switch, Install("1")},
                first |-> {{"c1"}, {"c1", "e1"}}],
  upgrades |-> [jobs  |-> {Upgrade("2"), Upgrade("1"), Retry}
                            \X {Relabel, DeleteOne("uninstall", "e1"), Dry(DeleteAll("uninstall")),
                                DeleteOne("delete", "c2"), Get(Extensions, "e1")},
                first |-> {{}, {"c1", "e1"}, {"c2", "e1"}}],
  searches |-> [jobs  |-> {Search(None, k, FALSE) : k \in {"op", "no"}} \X {DeleteOne("delete", "c2")}
                          \cup {Search(None, "", FALSE), Search(None, "op", TRUE)} \X {Switch}
                          \cup {Search("c1", "zz", TRUE), SearchLabel("x"), SearchLabel("z")}
                            \X {DeleteOne("delete", "c1")},
                first |-> {{}, {"c1", "c2"}}],
  sources  |-> [jobs  |-> {Add(i) : i \in {"i1", "none"}} \X {DeleteOne("remove", "s1"), Add("i1")},
                first |-> {{}, {"s1"}}]]

MCJobs == UNION {{j[1] : j \in Scenes[s].jobs} \cup {j[2] : j \in Scenes[s].jobs} : s \in DOMAIN Scenes}

MCInit ==
  /\ Init
  /\ \E s \in Asked : /\ <<job[1], job[2]>> \in Scenes[s].jobs
                      /\ {n \in Names : Exists(n)} \in Scenes[s].first

\* When every run has ended, nothing that the cluster does concerns them.
Watched == \E p \in Procs : pc[p] \in Calls

MCNext ==
  \/ \E p \in Procs : Command(p) \/ CallFails(p) \/ AnswerLost(p)
  \/ Watched /\ Controllers
  \/ (\E p \in Procs : pc[p] \in {"ListServing", "FindPod", "Forward", "Fetch"}) /\ RollOut
  \/ Watched /\ Outsiders

MCSpec     == MCInit /\ [][MCNext]_allVars
MCFairSpec == MCSpec /\ Fairness
=============================================================================
