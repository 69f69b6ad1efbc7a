------------------------------ MODULE Listings ------------------------------
(***************************************************************************)
(* What `olmv1 get` and `olmv1 search` print without --output: the order   *)
(* of the rows and what each one holds.  A row is a tuple of its columns   *)
(* without the ages.                                                       *)
(***************************************************************************)
EXTENDS FieldUpdates, SequencesExt

CONSTANT Alphabet  \* names, modes and versions, in the order that code gives them

IsList(s) == s \in Seq(ToSet(s))
Pos(x)    == CHOOSE i \in DOMAIN Alphabet : Alphabet[i] = x

\* Code compares any two strings.
ASSUME AlphabetIsOrdered ==
  /\ IsList(Alphabet) /\ \A i, j \in DOMAIN Alphabet : Alphabet[i] = Alphabet[j] => i = j
  /\ {"Available", "Unavailable"} \subseteq ToSet(Alphabet) /\ Pos("Available") < Pos("Unavailable")

\* The elements of S, sorted by a strict order: what slices.SortFunc leaves behind.
InOrder(S, Before(_, _)) ==
  CHOOSE s \in [1..Cardinality(S) -> S] : \A i, j \in DOMAIN s : i < j => Before(s[i], s[j])

\* list, sorted by the number that keys has for each element (sort.SliceStable).
StableSort(list, keys) ==
  LET place == InOrder(DOMAIN list, LAMBDA i, j : keys[i] < keys[j] \/ (keys[i] = keys[j] /\ i < j))
  IN  [i \in DOMAIN list |-> list[place[i]]]

\* The elements of list that are in S.
Only(list, S) ==
  FlattenSeq([i \in DOMAIN list |-> IF list[i] \in S THEN <<list[i]>> ELSE <<>>])

\* The first difference decides (cmp.Or).
Lex(a, b) == \E i \in DOMAIN a : a[i] < b[i] /\ \A j \in 1..(i - 1) : a[j] = b[j]

(***************************************************************************)
(* get catalog and get extension: objects with their names.                *)
(***************************************************************************)

\* The status of a condition that is not there is "Unknown".
status(conditions, true, false) ==
  CASE conditions \cap true # {}  -> "True"
    [] conditions \cap false # {} -> "False"
    [] OTHER -> "Unknown"

\* Mutated: ascending priority.
CatalogKeyMutant(c) == <<Pos(c.spec.mode), c.spec.priority, Pos(c.name)>>

\* Availability, then descending priority, then name.
CatalogKey(c) == <<Pos(c.spec.mode), -c.spec.priority, Pos(c.name)>>

sortCatalogs(found) == InOrder(found, LAMBDA a, b : Lex(CatalogKey(a), CatalogKey(b)))

printFormattedCatalogs(found) ==
  LET sorted == sortCatalogs(found)
      Row(c) == <<c.name, c.spec.mode, c.spec.priority,
                  status(c.status, {"Serving"}, {"NotServing"})>>
  IN  [i \in DOMAIN sorted |-> Row(sorted[i])]

\* Name, then descending version if both are installed.
ExtensionBefore(a, b) ==
  IF a.bundle = "" \/ b.bundle = "" THEN Pos(a.name) < Pos(b.name)
  ELSE Lex(<<Pos(a.name), -Pos(a.bundle)>>, <<Pos(b.name), -Pos(b.bundle)>>)

sortExtensions(found) == InOrder(found, ExtensionBefore)

printFormattedExtensions(found) ==
  LET sorted == sortExtensions(found)
      Row(e) == <<e.name, e.bundle, status(e.status, {"Installed"}, {}),
                  status(e.status, {"Progressing", "Succeeded"}, {})>>
  IN  [i \in DOMAIN sorted |-> Row(sorted[i])]

(***************************************************************************)
(* search: the contents of catalogs, by catalog name.  A content has lists *)
(* of packages, channels, bundles and of the rest.                         *)
(***************************************************************************)

\* What catalogs hold: a package is listed once.
IsContent(content) ==
  /\ IsList(content.packages) /\ ToSet(content.packages) \subseteq ToSet(Alphabet)
  /\ \A i, j \in DOMAIN content.packages : content.packages[i] = content.packages[j] => i = j
  /\ IsList(content.channels) /\ IsList(content.bundles) /\ IsList(content.rest)
  /\ \A c \in ToSet(content.channels) : c.name \in ToSet(Alphabet)
  /\ \A b \in ToSet(content.bundles) : b.version \in ToSet(Alphabet) \cup {Unset}

Of(list, package) == Only(list, {e \in ToSet(list) : e.package = package})

\* Mutated: forgets to filter the bundles.
filterPackageMutant(content, package) ==
  [packages |-> IF package \in ToSet(content.packages) THEN <<package>> ELSE <<>>,
   channels |-> Of(content.channels, package),
   bundles  |-> content.bundles,
   rest     |-> Of(content.rest, package)]

\* The first package of the name, and what is of that package.
filterPackage(content, package) ==
  [packages |-> IF package \in ToSet(content.packages) THEN <<package>> ELSE <<>>,
   channels |-> Of(content.channels, package),
   bundles  |-> Of(content.bundles, package),
   rest     |-> Of(content.rest, package)]

\* Unset if a bundle has no version, or one that is not semantic.
getBundleVersion(b) == b.version

\* What printFormattedDeclCfg collects about a package before it prints.
BundlesOf(content, package)  == Of(content.bundles, package)
ChannelsOf(content, package) == Of(content.channels, package)

\* The provider is that of the first bundle, and only looked up for versions.
getCSVProvider(content, package) == BundlesOf(content, package)[1].provider

VersionRows(content, catalog, package) ==
  LET bundles == BundlesOf(content, package)
      known   == Only(bundles, {b \in ToSet(bundles) : getBundleVersion(b) # Unset})
      sorted  == StableSort(known, [i \in DOMAIN known |-> -Pos(known[i].version)])
  IN  [i \in DOMAIN sorted |->
         <<package, catalog, getCSVProvider(content, package), sorted[i].version>>]

ChannelRow(content, catalog, package) ==
  LET channels == ChannelsOf(content, package)
      sorted   == StableSort(channels, [i \in DOMAIN channels |-> Pos(channels[i].name)])
  IN  <<package, catalog, "", [i \in DOMAIN sorted |-> sorted[i].name]>>

\* It follows a nil pointer for a package that nothing was collected about.
Printable(found, listVersions) ==
  \A c \in DOMAIN found : \A package \in ToSet(found[c].packages) :
    \E e \in ToSet(IF listVersions THEN found[c].bundles ELSE found[c].channels) : e.package = package

PackageRows(content, catalog, package, listVersions) ==
  IF listVersions THEN VersionRows(content, catalog, package)
  ELSE <<ChannelRow(content, catalog, package)>>

CatalogRows(content, catalog, listVersions) ==
  LET packages == content.packages
      sorted   == StableSort(packages, [i \in DOMAIN packages |-> Pos(packages[i])])
  IN  FlattenSeq([i \in DOMAIN sorted |-> PackageRows(content, catalog, sorted[i], listVersions)])

printFormattedDeclCfg(found, listVersions) ==
  LET OfCatalog(c) == CatalogRows(found[c], c, listVersions)
      catalogs     == InOrder(DOMAIN found, LAMBDA a, b : Pos(a) < Pos(b))
  IN  FlattenSeq([i \in DOMAIN catalogs |-> OfCatalog(catalogs[i])])
=============================================================================
