--------------------------- MODULE MC_SwitchScopes ---------------------------
(***************************************************************************)
(* Three scopes in one run: two contexts and a display, with two groups;   *)
(* two contexts outside of any display, both focused at times, under every *)
(* policy; and one context with three input methods, whose groups change.  *)
(***************************************************************************)
EXTENDS MC_InputMethodSwitch

VARIABLE scope

InFocus == INSTANCE InputMethodSwitch WITH InputMethod <- TwoMethods

InPolicies ==
  INSTANCE InputMethodSwitch WITH
    InputMethod <- TwoMethods, InitialGroups <- OneGroup, Policies <- EveryPolicy,
    ActiveByDefault <- TRUE, ResetStateWhenFocusIn <- "All"

InChoices ==
  INSTANCE InputMethodSwitch WITH
    InitialGroups <- TwoGroups, Lists <- SomeLists, Policies <- OnlyAll,
    EnumerateSkipFirst <- TRUE, ResetStateWhenFocusIn <- "No"

InitInScope ==
  \/ scope = "focus" /\ InFocus!Init
  \/ scope = "policies" /\ InPolicies!Init
  \/ scope = "choices" /\ InChoices!Init

NextInScope ==
  /\ UNCHANGED scope
  /\ \/ scope = "focus" /\ InFocus!Next
     \/ scope = "policies" /\ InPolicies!Next /\ displays' = {}
     \/ scope = "choices" /\ InChoices!Next /\ displays' = {}
                          /\ Cardinality(alive') <= 1

SpecInScope == InitInScope /\ [][NextInScope]_<<vars, scope>>
=============================================================================
