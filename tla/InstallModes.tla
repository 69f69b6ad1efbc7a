---------------------------- MODULE InstallModes ----------------------------
(***************************************************************************)
(* How `kubectl operator install` matches the install modes of an operator *)
(* with the namespaces that the user wants it to watch and with those that *)
(* an OperatorGroup selects.  Namespace lists are sequences.               *)
(***************************************************************************)
EXTENDS Naturals, Sequences

CONSTANT Own   \* the namespace that the operator is installed into

ModeTypes == {"AllNamespaces", "OwnNamespace", "SingleNamespace", "MultiNamespace"}

AllNamespaces == ""

\* (That a literal is a string is something that the provers are not told.)
ASSUME NamesAreStrings == {Own, AllNamespaces} \subseteq STRING

possibleInstallModes(list) ==
  {t \in ModeTypes :
     CASE t = "AllNamespaces"   -> list \in {<<>>, <<AllNamespaces>>}
       [] t = "OwnNamespace"    -> list \in {<<>>, <<Own>>}
       [] t = "SingleNamespace" -> Len(list) = 1 /\ list[1] \notin {AllNamespaces, Own}
       [] t = "MultiNamespace"  -> Len(list) > 1}

\* The code tests each pair of the three before all of them together; the
\* other tests only choose a better error message.
validateOperatorGroup(status, operatorModes, desired) ==
  operatorModes \cap desired \cap possibleInstallModes(status) # {}

\* The target namespaces of a new group; no targets select all namespaces.
getTargetNamespaces(supported, watch) ==
  CASE "AllNamespaces" \in supported -> <<>>
    [] "OwnNamespace" \in supported /\ "AllNamespaces" \notin supported -> <<Own>>
    [] OTHER -> watch

\* The namespaces that OLM writes into the status of a group with these targets.
StatusOf(targets) == IF targets = <<>> THEN <<AllNamespaces>> ELSE targets
=============================================================================
