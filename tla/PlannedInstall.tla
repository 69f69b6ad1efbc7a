--------------------------- MODULE PlannedInstall ---------------------------
(***************************************************************************)
(* What installs and upgrades promise that share a namespace with OLM.     *)
(* Each goes through its stages, only forwards.  All that it ever does to  *)
(* the namespace is to make the one group, to make the subscription of its *)
(* own package, and to approve one plan, each once at most and in this     *)
(* order.  The plan is one that serves its package, it keeps to that plan, *)
(* and it reports success only when that plan has been carried out.  A run *)
(* that fails undoes nothing.                                              *)
(***************************************************************************)
EXTENDS Naturals, Sequences

CONSTANTS Runs, Packages

VARIABLES
  about,       \* the package that a run is about
  stage,       \* how far it has got
  follows,     \* the plan that it follows, or 0
  group,       \* the group that runs make is there
  subscribed,  \* packages with a subscription
  serves,      \* serves[i]: the packages that plan i brings
  approved,    \* plans that have been approved
  carriedOut   \* plans that have been carried out

vars == <<about, stage, follows, group, subscribed, serves, approved, carriedOut>>

Ended == {"done", "failed"}

Init ==
  /\ about \in [Runs -> Packages]
  /\ stage = [r \in Runs |-> "looking"] /\ follows = [r \in Runs |-> 0]
  /\ group \in BOOLEAN /\ subscribed \subseteq Packages
  /\ approved \subseteq DOMAIN serves /\ carriedOut \subseteq approved

Goes(r, from, to) == stage[r] = from /\ stage' = [stage EXCEPT ![r] = to]

\* The run finds what it needs, or that the group is missing.
Look(r) ==
  /\ Goes(r, "looking", "grouping") \/ Goes(r, "looking", "subscribing")
  /\ UNCHANGED <<about, follows, group, subscribed, serves, approved, carriedOut>>

MakeGroup(r) ==
  /\ Goes(r, "grouping", "subscribing")
  /\ ~group /\ group' = TRUE
  /\ UNCHANGED <<about, follows, subscribed, serves, approved, carriedOut>>

\* It makes a subscription where there is none, and never takes over another's.
Subscribe(r) ==
  /\ Goes(r, "subscribing", "subscribed")
  /\ about[r] \notin subscribed /\ subscribed' = subscribed \cup {about[r]}
  /\ UNCHANGED <<about, follows, group, serves, approved, carriedOut>>

\* After its own subscription, or, in an upgrade, from one that it has found.
Follow(r) ==
  /\ Goes(r, "looking", "following") \/ Goes(r, "subscribed", "following")
  /\ follows[r] = 0 /\ about[r] \in subscribed
  /\ \E i \in DOMAIN serves : about[r] \in serves[i] /\ follows' = [follows EXCEPT ![r] = i]
  /\ UNCHANGED <<about, group, subscribed, serves, approved, carriedOut>>

Decide(r) ==
  /\ Goes(r, "following", "approving") \/ Goes(r, "following", "waiting")
  /\ UNCHANGED <<about, follows, group, subscribed, serves, approved, carriedOut>>

Approve(r) ==
  /\ Goes(r, "approving", "waiting")
  /\ approved' = approved \cup {follows[r]}
  /\ UNCHANGED <<about, follows, group, subscribed, serves, carriedOut>>

SeeCarriedOut(r) ==
  /\ Goes(r, "waiting", "reporting") /\ follows[r] \in carriedOut
  /\ UNCHANGED <<about, follows, group, subscribed, serves, approved, carriedOut>>

Report(r) ==
  /\ Goes(r, "reporting", "done")
  /\ UNCHANGED <<about, follows, group, subscribed, serves, approved, carriedOut>>

Fail(r) ==
  /\ stage[r] \notin Ended /\ stage' = [stage EXCEPT ![r] = "failed"]
  /\ UNCHANGED <<about, follows, group, subscribed, serves, approved, carriedOut>>

\* OLM makes plans and carries out those that are approved; it approves none that
\* it has made before.  Other users do as they like with the group, and may
\* unsubscribe.
Others ==
  /\ UNCHANGED <<stage, about, follows>>
  /\ group' \in BOOLEAN /\ subscribed' \subseteq subscribed
  /\ Len(serves) <= Len(serves') /\ \A i \in DOMAIN serves : serves'[i] = serves[i]
  /\ approved' \cap DOMAIN serves = approved /\ approved' \subseteq DOMAIN serves'
  /\ carriedOut' \subseteq carriedOut \cup approved

Next ==
  \/ Others
  \/ \E r \in Runs :
       \/ Look(r) \/ MakeGroup(r) \/ Subscribe(r) \/ Follow(r) \/ Decide(r)
       \/ Approve(r) \/ SeeCarriedOut(r) \/ Report(r) \/ Fail(r)

Spec == Init /\ [][Next]_vars
=============================================================================
