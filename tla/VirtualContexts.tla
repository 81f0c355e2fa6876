---------------------------- MODULE VirtualContexts ----------------------------
(***************************************************************************)
(* Where the compositor offers one text field for all applications of a     *)
(* display, and says which application is in front, the context that stands *)
(* for the field keeps a virtual context for each application that was in   *)
(* front, and delegates to the one that is.  It has the real focus; who has *)
(* focus in the display is told to the contexts.                            *)
(*                                                                         *)
(* Capability flags stand for all that is copied from one to the other: the *)
(* cursor rectangle and the surrounding text go the same way.               *)
(***************************************************************************)
CONSTANTS
  Applications,  \* applications that a monitor may tell of
  SomeFlags,     \* capabilities of the text field
  BaseFlags,     \* those it has on activation
  Nobody         \* no application, and no context

ASSUME BaseFlagsAssumption == BaseFlags \in SomeFlags

\* Contexts of the display: the parent, one for each application, and any other.
Parent == "parent"
Elsewhere == "elsewhere"

ASSUME ContextsAssumption ==
  /\ Parent \notin Applications /\ Elsewhere \notin Applications
  /\ Nobody \notin Applications \cup {Parent, Elsewhere}

VARIABLES
  monitored,  \* there is a monitor, and so a VirtualInputContextManager
  field       \* the manager and the focus of the display

virtualVars == <<monitored, field>>

VirtualInit ==
  /\ monitored \in BOOLEAN
  /\ field = [front |-> Nobody, managed |-> {}, real |-> FALSE, focus |-> Nobody,
          flags |-> [ic \in Applications \cup {Parent} |-> BaseFlags], robbed |-> FALSE]

\* delegatedInputContext
Delegated(s) == IF monitored /\ s.front \in s.managed THEN s.front ELSE Parent

RealFocus(s) == IF monitored THEN s.real ELSE s.focus = Parent

\* Mutant of UpdateFocus: what the parent knows is copied on creation only.
UpdateFocus_OldFlags(s) ==
  LET shown == IF s.front = Nobody THEN s
               ELSE [s EXCEPT !.managed = @ \cup {s.front},
                              !.flags[s.front] = IF s.front \in s.managed THEN @ ELSE s.flags[Parent]]
  IN  IF s.real THEN [shown EXCEPT !.focus = Delegated(shown), !.robbed = FALSE]
      ELSE [shown EXCEPT !.focus = IF @ = Elsewhere THEN @ ELSE Nobody, !.robbed = FALSE]

UpdateFocus(s) ==
  LET shown == IF s.front = Nobody THEN s
               ELSE [s EXCEPT !.managed = @ \cup {s.front},
                              !.flags[s.front] = IF s.real \/ s.front \notin s.managed
                                                 THEN s.flags[Parent] ELSE @]
  IN  IF s.real THEN [shown EXCEPT !.focus = Delegated(shown), !.robbed = FALSE]
      ELSE [shown EXCEPT !.focus = IF @ = Elsewhere THEN @ ELSE Nobody, !.robbed = FALSE]

FocusInWrapper(s) ==
  IF monitored THEN UpdateFocus([s EXCEPT !.real = TRUE])
  ELSE [s EXCEPT !.focus = Parent, !.robbed = FALSE]

FocusOutWrapper(s) ==
  IF monitored THEN UpdateFocus([s EXCEPT !.real = FALSE])
  ELSE [s EXCEPT !.focus = IF @ = Parent THEN Nobody ELSE @, !.robbed = FALSE]

SetCapabilityFlags(s, flags) ==
  [s EXCEPT !.flags[Parent] = flags, !.flags[Delegated(s)] = flags]

\* appUpdated: contexts of applications that are gone are destroyed first.
AppUpdated(apps, front) ==
  /\ monitored
  /\ front \in apps \cup {Nobody}
  /\ field' = UpdateFocus([field EXCEPT !.managed = @ \cap apps, !.front = front,
                                    !.focus = IF @ \in Applications \ apps THEN Nobody ELSE @])
  /\ UNCHANGED monitored

ContentType(flags) ==
  /\ field' = SetCapabilityFlags(field, flags)
  /\ UNCHANGED monitored

\* Another context of the display gets focus, or gives it up.
FocusTaken ==
  /\ field.focus # Elsewhere
  /\ field' = [field EXCEPT !.focus = Elsewhere, !.robbed = @ \/ field.focus # Nobody]
  /\ UNCHANGED monitored

FocusGiven ==
  /\ field.focus = Elsewhere
  /\ field' = [field EXCEPT !.focus = Nobody]
  /\ UNCHANGED monitored

VirtualNext ==
  \/ \E apps \in SUBSET Applications, front \in Applications \cup {Nobody} :
       AppUpdated(apps, front)
  \/ \E flags \in SomeFlags : ContentType(flags)
  \/ FocusTaken
  \/ FocusGiven
-----------------------------------------------------------------------------

(***************************************************************************)
(* However the applications in front change, come and go while the text     *)
(* field gains and loses focus: a context of the field has focus if and     *)
(* only if the field does, unless another context took it, and it is the    *)
(* one that gets the keys, with the capabilities of the field.              *)
(***************************************************************************)
DelegateHasFocus ==
  /\ field.focus \notin {Nobody, Elsewhere} =>
       /\ RealFocus(field) /\ field.focus = Delegated(field)
       /\ field.flags[field.focus] = field.flags[Parent]
  /\ RealFocus(field) /\ ~field.robbed => field.focus = Delegated(field)
=============================================================================
