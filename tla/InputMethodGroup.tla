-------------------------- MODULE InputMethodGroup --------------------------
(***************************************************************************)
(* InputMethodGroup: the list of input methods a user switches between and *)
(* its default, as far as the manager of the groups and the switching of   *)
(* input methods share it.                                                 *)
(***************************************************************************)
EXTENDS Naturals, Sequences

CONSTANT None     \* the empty string

\* Mutant of Normalized: the first item is accepted as the default.
Normalized_KeepsFirst(list, im) ==
  IF \E i \in DOMAIN list : list[i] = im THEN im
  ELSE IF Len(list) > 1 THEN list[2]
  ELSE IF list = <<>> THEN None ELSE list[1]

(***************************************************************************)
(* InputMethodGroup::setDefaultInputMethod: the default is the input       *)
(* method that a toggle switches to from the first item, so the first item *)
(* is only accepted when there is no other.                                *)
(***************************************************************************)
Normalized(list, im) ==
  IF \E i \in DOMAIN list : list[i] = im /\ (Len(list) > 1 => list[1] # im)
  THEN im
  ELSE IF Len(list) > 1 THEN list[2]
  ELSE IF list = <<>> THEN None ELSE list[1]
=============================================================================
