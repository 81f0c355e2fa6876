--------------------------- MODULE MC_GroupScopes ---------------------------
(***************************************************************************)
(* Two scopes in one run: what is in two groups, which may be edited; and  *)
(* the order of three groups that all hold the same.                       *)
(***************************************************************************)
EXTENDS MC_InputMethodGroups

VARIABLE scope

InitInScope == Init /\ scope \in {"items", "order"}

NextInScope ==
  /\ Next
  /\ UNCHANGED scope
  /\ scope = "items" => DOMAIN groups' \subseteq TwoNames
  /\ scope = "order" =>
       /\ entries' = OnlyUs
       /\ profile' \notin Edited
       /\ \A name \in DOMAIN groups' :
            groups'[name].list \in {<<>>, <<us>>} /\ groups'[name].layout # None

SpecInScope == InitInScope /\ [][NextInScope]_<<vars, scope>>
=============================================================================
