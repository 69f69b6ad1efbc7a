---------------------------- MODULE FieldUpdates ----------------------------
(***************************************************************************)
(* What the flags of `olmv1 create`, `install` and `update` make of the    *)
(* spec and the labels of a ClusterCatalog or a ClusterExtension.          *)
(*                                                                         *)
(* Unset is a nil pointer or a nil map, "" an empty string.  Labels are    *)
(* functions from label keys to values.                                    *)
(***************************************************************************)
EXTENDS Integers

CONSTANTS
  Unset,
  Digests,    \* image references by digest
  Malformed,  \* strings that are no image references
  Foreign     \* version ranges that the API accepts and ParseRange does not

\* A nil pointer is no number.
ASSUME NilIsNoNumber == Unset # 0 /\ Unset # -1

Given(v, default) == IF v = Unset THEN default ELSE v
Filled(v, default) == IF v = "" THEN default ELSE v

\* Labels: an empty value removes the key.
MergedLabels(old, new) ==
  LET keys == {k \in DOMAIN old \cup DOMAIN new : k \in DOMAIN new => new[k] # ""}
  IN  [k \in keys |-> IF k \in DOMAIN new THEN new[k] ELSE old[k]]

FilledLabels(labels, old) ==
  IF labels = Unset THEN old ELSE IF DOMAIN labels = {} THEN old ELSE labels

(***************************************************************************)
(* ClusterCatalogs.                                                        *)
(***************************************************************************)

\* mutableCatalogOptions.validate, with --available as the user writes it.
ValidCatalogFlags(o) ==
  /\ o.available \in {"", "true", "false"}
  /\ o.poll # Unset /\ o.poll > 0 => o.image \notin Digests \cup Malformed

AvailabilityMode(o) ==
  CASE o.available = "true"  -> "Available"
    [] o.available = "false" -> "Unavailable"
    [] OTHER -> ""

buildCatalog(o) ==
  [priority |-> Given(o.priority, 0),
   poll     |-> IF Given(o.poll, 0) > 0 THEN o.poll ELSE Unset,
   image    |-> o.image,
   mode     |-> Filled(AvailabilityMode(o), "Available"),
   labels   |-> Given(o.labels, [k \in {} |-> ""])]

\* Mutated: forgets the availability.
CatalogDefaultsMutant(o, c) ==
  [priority |-> Given(o.priority, c.priority), poll |-> Given(o.poll, c.poll),
   image |-> Filled(o.image, c.image), mode |-> AvailabilityMode(o),
   labels |-> FilledLabels(o.labels, c.labels)]

\* CatalogUpdate.setDefaults: with --ignore-unset, what the user does not give
\* is what the catalog has.
CatalogDefaults(o, c) ==
  LET given == [priority |-> o.priority, poll |-> o.poll, image |-> o.image,
                mode |-> AvailabilityMode(o), labels |-> o.labels]
  IN  IF ~o.ignoreUnset THEN given
      ELSE [priority |-> Given(given.priority, c.priority),
            poll     |-> Given(given.poll, c.poll),
            image    |-> Filled(given.image, c.image),
            mode     |-> Filled(given.mode, c.mode),
            labels   |-> FilledLabels(given.labels, c.labels)]

\* setUpdatedCatalog.  The API server makes an empty mode "Available".
UpdatedCatalog(o, c) ==
  LET d == CatalogDefaults(o, c)
  IN  [priority |-> Given(d.priority, c.priority),
       poll     |-> IF d.poll \in {0, -1} THEN Unset ELSE Given(d.poll, c.poll),
       image    |-> Filled(d.image, c.image),
       mode     |-> Filled(d.mode, "Available"),
       labels   |-> IF d.labels = Unset THEN c.labels ELSE MergedLabels(c.labels, d.labels)]

(***************************************************************************)
(* ClusterExtensions.  safety is Unset if the extension has no setting for *)
(* the CRD upgrade safety check, nor a struct to hold one.                 *)
(***************************************************************************)

ValidExtensionFlags(o) ==
  /\ o.version \notin Foreign
  /\ o.safety \in {"", "Strict", "None"}
  /\ o.policy \in {"", "CatalogProvided", "SelfCertified"}

\* The API server makes an empty policy "CatalogProvided".
buildClusterExtension(o) ==
  [version  |-> o.version,
   channels |-> o.channels,
   selector |-> o.selector,
   policy   |-> Filled(o.policy, "CatalogProvided"),
   safety   |-> Filled(o.safety, Unset),
   labels   |-> o.labels]

\* ExtensionUpdate.setDefaults.
ExtensionDefaults(o, e) ==
  IF o.ignoreUnset
    THEN [version  |-> Filled(o.version, e.version),
          channels |-> IF o.channels = <<>> THEN e.channels ELSE o.channels,
          selector |-> Given(o.selector, e.selector),
          policy   |-> Filled(o.policy, e.policy),
          safety   |-> IF o.safety = "" /\ e.safety # Unset THEN e.safety ELSE o.safety,
          labels   |-> FilledLabels(o.labels, e.labels)]
    ELSE [version  |-> o.version,
          channels |-> o.channels,
          selector |-> o.selector,
          policy   |-> Filled(o.policy, "CatalogProvided"),
          safety   |-> Filled(o.safety, "Strict"),
          labels   |-> o.labels]

needsUpdate(d, e) == d # [e EXCEPT !.safety = Given(@, "")]

\* prepareUpdatedExtension, of an extension with a safety setting.
UpdatedExtension(d, e) == [d EXCEPT !.labels = MergedLabels(e.labels, d.labels)]
=============================================================================
