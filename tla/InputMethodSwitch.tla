-------------------------- MODULE InputMethodSwitch --------------------------
(***************************************************************************)
(* Instance: which input method each input context uses, and the engine    *)
(* that is activated for it while it has focus.  The choice depends on the *)
(* current group, on the state the context shares with others, and on its  *)
(* capabilities; each of them changes on a path of its own, and each path  *)
(* has to deactivate the old engine before and activate the new one after. *)
(*                                                                         *)
(* Composes FocusGroups, whose posted events the handlers below consume.   *)
(* Of the manager of the groups it takes what InputMethodGroups promises:  *)
(* a group's default is normalized, its items are known, and a change of   *)
(* the current group is announced before and after.  An engine does not    *)
(* call back into the instance, and its addon can be loaded.               *)
(***************************************************************************)
EXTENDS InputMethodGroup, SequencesExt

CONSTANTS
  InputContext, FocusGroup,
  Dummy,            \* dummyInputContext_ of the manager
  Program,          \* program() of each context, perhaps None
  InputMethod,      \* the input methods that exist
  KeyboardUs,       \* "keyboard-us"
  Lists,            \* what a group's list may be changed to
  InitialGroups,    \* the groups at the start, the current one first
  Policies,         \* the values of ShareInputState that are configured
  PasswordAllowed,  \* those of AllowInputMethodForPassword
  ActiveByDefault, EnumerateSkipFirst, ResetStateWhenFocusIn

\* The groups a profile can describe: a default is one that its list accepts.
Layouts == {InitialGroups[i].layout : i \in DOMAIN InitialGroups}
KnownGroups ==
  {known \in [list : Seq(InputMethod), default : InputMethod \cup {None},
              layout : Layouts] :
     known.default = Normalized(known.list, known.default)}

ASSUME NullAssumption == None \notin InputContext /\ None \notin FocusGroup
ASSUME DummyAssumption == Dummy \notin InputContext /\ Program[Dummy] = None
ASSUME KeyboardAssumption == KeyboardUs \in InputMethod /\ None \notin InputMethod
ASSUME OptionsAssumption ==
  /\ Policies \subseteq {"No", "All", "Program"} /\ Policies # {}
  /\ PasswordAllowed \subseteq BOOLEAN /\ PasswordAllowed # {}
  /\ ActiveByDefault \in BOOLEAN /\ EnumerateSkipFirst \in BOOLEAN
  /\ ResetStateWhenFocusIn \in {"No", "All", "Program"}
ASSUME ListsAssumption == Lists \subseteq Seq(InputMethod)
ASSUME GroupsAssumption == InitialGroups \in Seq(KnownGroups) \ {<<>>}

VARIABLES
  alive, displays, group, ics, focus, hasFocus, focused, recent, exiting,
  posted,       \* FocusGroups'
  groups,       \* the groups in order, each [list, default, layout]
  active,       \* active_ of each InputState
  localIM,      \* localIM_
  lastIM,       \* lastIM_: the input method activated last
  opened,       \* the engines that have been activated and not deactivated
  byAlt,        \* lastIMChangeIsAltTrigger_
  capability,   \* the capability flags that matter here
  lastUnFocused,  \* lastUnFocusedIc_ and lastUnFocusedProgram_
  share,        \* propertyPropagatePolicy_ of the manager
  allowPassword \* AllowInputMethodForPassword of the configuration

focusVars == <<alive, displays, group, ics, focus, hasFocus, focused, recent,
               exiting, posted>>
stateVars == <<active, localIM, lastIM, opened, byAlt>>
configVars == <<share, allowPassword>>
vars == <<focusVars, stateVars, configVars, groups, capability, lastUnFocused>>

\* fcitx runs with --keep: an instance that exits delivers no event any more.
Focus == INSTANCE FocusGroups WITH ExitWhenMainDisplayDisconnected <- FALSE

State == InputContext \cup {Dummy}

\* The state that the nested calls of one operation hand on.
Now == [active |-> active, localIM |-> localIM, lastIM |-> lastIM,
        opened |-> opened, byAlt |-> byAlt, groups |-> groups,
        capability |-> capability, has |-> hasFocus, allow |-> allowPassword]

List(s) == s.groups[1].list

InputMethodDisabled(s, ic) ==
  \/ s.capability[ic] = "Disable"
  \/ s.capability[ic] = "Password" /\ ~s.allow

\* Instance::inputMethod
InputMethodOf(s, ic) ==
  IF InputMethodDisabled(s, ic)
  THEN IF s.groups[1].layout \in InputMethod THEN s.groups[1].layout
                                             ELSE KeyboardUs
  ELSE IF List(s) = <<>> THEN None
  ELSE IF ~s.active[ic] THEN Head(List(s))
  ELSE IF s.localIM[ic] \in ToSet(List(s)) THEN s.localIM[ic]
  ELSE s.groups[1].default

(***************************************************************************)
(* Instance::activateInputMethod and deactivateInputMethod, for each of    *)
(* some contexts.  What is deactivated is what the context used before.    *)
(***************************************************************************)
ActivateInputMethod(s, who) ==
  LET some == {c \in who : InputMethodOf(s, c) # None}
  IN  [s EXCEPT
        !.lastIM = [c \in State |-> IF c \in some THEN InputMethodOf(s, c)
                                                  ELSE @[c]],
        !.opened = [c \in State |-> IF c \in some
                                    THEN @[c] \cup {InputMethodOf(s, c)}
                                    ELSE @[c]]]

DeactivateInputMethod(s, who, before) ==
  [s EXCEPT
    !.lastIM = [c \in State |-> IF c \in who THEN None ELSE @[c]],
    !.opened = [c \in State |-> IF c \in who
                                THEN @[c] \ {InputMethodOf(before, c)} ELSE @[c]]]

SwitchInputMethod(s, who, before) ==
  ActivateInputMethod(DeactivateInputMethod(s, who, before), who)

Focused(s) == {ic \in InputContext : s.has[ic]}

(***************************************************************************)
(* ~CheckInputMethodChanged for the contexts of watched, which were seen   *)
(* in state before, and the handlers of the event it posts; alt says that  *)
(* the reason is AltTrigger.                                               *)
(***************************************************************************)
CheckedAs(alt, before, watched, s) ==
  LET changed == {c \in watched \cap Focused(s) :
                    InputMethodOf(s, c) # InputMethodOf(before, c)}
  IN  [SwitchInputMethod(s, changed, before) EXCEPT
         !.byAlt = [c \in State |-> IF c \in changed THEN alt ELSE @[c]]]

Checked(before, watched, s) == CheckedAs(FALSE, before, watched, s)

\* InputContextManager::propagateProperty
Sharing(ic) ==
  CASE share = "All" -> alive \cup {Dummy}
    [] share = "Program" /\ Program[ic] # None ->
         {other \in alive : Program[other] = Program[ic]}
    [] OTHER -> {}

\* Mutant of Propagate: the focused contexts that get a copy are not checked.
Propagate_Unchecked(s, ic, watched) ==
  LET others == Sharing(ic)
  IN  [s EXCEPT !.active = [c \in State |-> IF c \in others THEN s.active[ic]
                                                           ELSE @[c]],
                !.localIM = [c \in State |-> IF c \in others THEN s.localIM[ic]
                                                            ELSE @[c]]]

(***************************************************************************)
(* InputContext::updateProperty, and InputState::copyTo for each context   *)
(* that shares the state of ic.  One that has focus is checked on the spot *)
(* unless a caller is watching it already.                                 *)
(***************************************************************************)
Propagate(s, ic, watched) ==
  LET others == {c \in Sharing(ic) : <<s.active[c], s.localIM[c]>>
                                       # <<s.active[ic], s.localIM[ic]>>}
      copied == [s EXCEPT
        !.active = [c \in State |-> IF c \in others THEN s.active[ic] ELSE @[c]],
        !.localIM = [c \in State |-> IF c \in others THEN s.localIM[ic]
                                                    ELSE @[c]]]
  IN  Checked(s, (others \cap Focused(s)) \ watched, copied)

\* InputState::setActive and setLocalIM
SetActive(s, ic, on, watched) ==
  IF s.active[ic] = on THEN s
  ELSE Propagate([s EXCEPT !.active[ic] = on], ic, watched)

SetLocalIM(s, ic, im, watched) ==
  IF s.localIM[ic] = im THEN s
  ELSE Propagate([s EXCEPT !.localIM[ic] = im], ic, watched)

CanTrigger(s) == Len(List(s)) > 1

Toggle(s, ic) ==
  IF CanTrigger(s) THEN SetActive(s, ic, ~s.active[ic], {ic}) ELSE s

SetEnabled(s, ic, on, watched) ==
  IF CanTrigger(s) THEN SetActive(s, ic, on, watched) ELSE s

SetDefaultInputMethod(s, im) ==
  [s EXCEPT !.groups[1].default = Normalized(List(s), im)]

(***************************************************************************)
(* Instance::enumerate(ic, forward).  All focused contexts are watched     *)
(* while the default of the group and the state of ic change.              *)
(***************************************************************************)
NextIndex(s, i, forward) ==
  LET n == Len(List(s)) IN ((i - 1 + (IF forward THEN 1 ELSE n - 1)) % n) + 1

Enumerate(s, ic, forward) ==
  LET at == SelectInSeq(List(s), LAMBDA im : im = InputMethodOf(s, ic))
      next == NextIndex(s, at, forward)
      i == IF EnumerateSkipFirst /\ next = 1 THEN NextIndex(s, next, forward)
           ELSE next
      watched == Focused(s) \cup {ic}
      chosen == SetActive(SetDefaultInputMethod(s, List(s)[i]), ic, TRUE,
                          watched)
  IN  IF ~CanTrigger(s) \/ at = 0 \/ (EnumerateSkipFirst /\ Len(List(s)) <= 2)
      THEN s
      ELSE IF i # 1
      THEN Checked(s, Focused(s) \ {ic}, SetLocalIM(chosen, ic, None, watched))
      ELSE SetActive(s, ic, FALSE, {ic})

(***************************************************************************)
(* Instance::setCurrentInputMethod(ic, name, local); ic may be None.  The  *)
(* contexts that the new default reaches are checked before ic is set      *)
(* active, those that the state of ic reaches once more after it.          *)
(***************************************************************************)
SetGlobalDefaultInputMethod(s, im, watched) ==
  Checked(s, Focused(s) \ watched, SetDefaultInputMethod(s, im))

\* Mutant of SetCurrentInputMethod: a local input method is left in place.
SetCurrentInputMethod_KeepsLocal(s, ic, im, local) ==
  LET i == SelectInSeq(List(s), LAMBDA item : item = im)
      chosen == IF local THEN SetLocalIM(s, ic, im, {ic})
                ELSE SetGlobalDefaultInputMethod(s, im, {ic})
  IN  IF ~CanTrigger(s) \/ i = 0 \/ ic = None \/ InputMethodOf(s, ic) = im THEN s
      ELSE SetActive(IF i = 1 THEN s ELSE chosen, ic, i # 1, {ic})

SetCurrentInputMethod(s, ic, im, local) ==
  LET i == SelectInSeq(List(s), LAMBDA item : item = im)
      chosen == IF local THEN SetLocalIM(s, ic, im, {ic})
                ELSE SetGlobalDefaultInputMethod(SetLocalIM(s, ic, None, {ic}),
                                                 im, {ic})
  IN  IF ~CanTrigger(s) \/ i = 0 THEN s
      ELSE IF ic = None
      THEN IF local \/ i = 1 THEN s ELSE SetGlobalDefaultInputMethod(s, im, {})
      ELSE IF InputMethodOf(s, ic) = im THEN s
      ELSE SetActive(IF i = 1 THEN s ELSE chosen, ic, i # 1, {ic})

Watching(ic, s) == Checked(Now, {ic}, s)

Commit(s) ==
  /\ active' = s.active
  /\ localIM' = s.localIM
  /\ lastIM' = s.lastIM
  /\ opened' = s.opened
  /\ byAlt' = s.byAlt
  /\ groups' = s.groups
  /\ capability' = s.capability

-----------------------------------------------------------------------------

Init ==
  /\ Focus!Init
  /\ groups = InitialGroups
  /\ active = [c \in State |-> ActiveByDefault]
  /\ localIM = [c \in State |-> None]
  /\ lastIM = [c \in State |-> None]
  /\ opened = [c \in State |-> {}]
  /\ byAlt = [c \in State |-> FALSE]
  /\ capability = [c \in State |-> "Normal"]
  /\ lastUnFocused = [ic |-> None, program |-> None]
  /\ share \in Policies
  /\ allowPassword \in PasswordAllowed

(***************************************************************************)
(* The handlers of FocusIn and FocusOut, for the events a call has posted. *)
(***************************************************************************)
SameProgram(ic, last) ==
  \/ ic = last.ic
  \/ Program[ic] # None /\ Program[ic] = last.program

HandleFocusIn(s, ic, last) ==
  LET resets == \/ ResetStateWhenFocusIn = "All"
                \/ ResetStateWhenFocusIn = "Program" /\ ~SameProgram(ic, last)
  IN  ActivateInputMethod(
        IF resets THEN SetEnabled(s, ic, ActiveByDefault, {}) ELSE s, {ic})

Lost(events) == {ic \in InputContext : <<"FocusOut", ic>> \in ToSet(events)}
Gained(events) == {ic \in InputContext : <<"FocusIn", ic>> \in ToSet(events)}

LastUnFocused(events) ==
  IF Lost(events) = {} THEN lastUnFocused
  ELSE LET ic == CHOOSE ic \in Lost(events) : TRUE
       IN  [ic |-> ic, program |-> Program[ic]]

\* A call takes the focus from one context at most, and gives it to one at most
\* after that, as EventsTellFocus says.
Handled(s, events) ==
  LET left == DeactivateInputMethod(s, Lost(events), s)
  IN  IF Gained(events) = {} THEN left
      ELSE HandleFocusIn(left, CHOOSE ic \in Gained(events) : TRUE,
                         LastUnFocused(events))

\* Whatever happens to the focus, except to contexts that come or go.
FocusMoves ==
  /\ \/ \E ic \in InputContext :
          \/ Focus!FocusIn(ic)
          \/ Focus!FocusOut(ic)
          \/ \E g \in FocusGroup \cup {None} : Focus!SetFocusGroup(ic, g)
     \/ \E g \in FocusGroup :
          Focus!CreateFocusGroup(g) \/ Focus!DestroyFocusGroup(g)
  /\ Commit(Handled([Now EXCEPT !.has = hasFocus'], posted'))
  /\ lastUnFocused' = LastUnFocused(posted')
  /\ UNCHANGED configVars

\* The contexts whose state a new one of this program takes over, if any.
Siblings(ic) ==
  CASE share = "All" -> {Dummy}
    [] share = "Program" /\ Program[ic] # None ->
         {other \in alive \ {ic} : Program[other] = Program[ic]}
    [] OTHER -> {}

\* Mutant of Create: the new context starts from the default.
Create_NoCopy(ic) ==
  /\ Focus!Create(ic)
  /\ active' = [active EXCEPT ![ic] = ActiveByDefault]
  /\ localIM' = [localIM EXCEPT ![ic] = None]
  /\ capability' = [capability EXCEPT ![ic] = "Normal"]
  /\ UNCHANGED <<lastIM, opened, byAlt, groups, lastUnFocused, configVars>>

\* A context is registered, and copies the state of the first it shares with.
Create(ic) ==
  /\ Focus!Create(ic)
  /\ \/ /\ Siblings(ic) = {}
        /\ active' = [active EXCEPT ![ic] = ActiveByDefault]
        /\ localIM' = [localIM EXCEPT ![ic] = None]
     \/ \E from \in Siblings(ic) :
          /\ active' = [active EXCEPT ![ic] = active[from]]
          /\ localIM' = [localIM EXCEPT ![ic] = localIM[from]]
  /\ capability' = [capability EXCEPT ![ic] = "Normal"]
  /\ UNCHANGED <<lastIM, opened, byAlt, groups, lastUnFocused, configVars>>

\* What belonged to a context goes with it, whatever its engine was told.
Destroy(ic) ==
  /\ Focus!Destroy(ic)
  /\ LET s == Handled([Now EXCEPT !.has = hasFocus'], posted')
     IN  Commit([s EXCEPT !.active[ic] = ActiveByDefault, !.localIM[ic] = None,
                          !.lastIM[ic] = None, !.opened[ic] = {},
                          !.byAlt[ic] = FALSE,
                          !.capability[ic] = "Normal"])
  /\ LET last == LastUnFocused(posted')
     IN  lastUnFocused' = [last EXCEPT !.ic = IF @ = ic THEN None ELSE @]
  /\ UNCHANGED configVars

Unfocused == UNCHANGED <<alive, displays, group, ics, focus, hasFocus, focused,
                         recent, exiting, lastUnFocused>> /\ posted' = <<>>

\* Mutant of SetCapabilityFlags: the engine is deactivated after the change.
SetCapabilityFlags_Late(ic, flags) ==
  /\ ic \in alive
  /\ capability[ic] # flags
  /\ LET changed == [Now EXCEPT !.capability[ic] = flags]
         switched == SwitchInputMethod(changed, {ic} \cap Focused(Now), changed)
     IN  Commit(IF InputMethodDisabled(Now, ic) = InputMethodDisabled(changed, ic)
                THEN changed ELSE switched)
  /\ Unfocused
  /\ UNCHANGED configVars

\* The handlers of CapabilityAboutToChange and CapabilityChanged switch when
\* shouldSwitchIM says that the input method changes.
SetCapabilityFlags(ic, flags) ==
  /\ ic \in alive
  /\ capability[ic] # flags
  /\ LET changed == [Now EXCEPT !.capability[ic] = flags]
     IN  Commit(IF InputMethodDisabled(Now, ic) = InputMethodDisabled(changed, ic)
                THEN changed
                ELSE SwitchInputMethod(changed, {ic} \cap Focused(Now), Now))
  /\ Unfocused
  /\ UNCHANGED configVars

(***************************************************************************)
(* The handlers of CurrentGroupAboutToChange and CurrentGroupChanged: all  *)
(* focused contexts leave the old group and enter the new one.             *)
(***************************************************************************)
GroupsChange(s, changed) ==
  SwitchInputMethod([s EXCEPT !.groups = changed], Focused(s), s)

\* What InputMethodManager may do to its groups.
MoveToFront(order, i) == <<order[i]>> \o RemoveAt(order, i)

SetCurrentGroup(i) ==
  /\ i \in 2..Len(groups)
  /\ Commit(GroupsChange(Now, MoveToFront(groups, i)))
  /\ Unfocused
  /\ UNCHANGED configVars

SetGroup(i, list) ==
  /\ i \in 1..Len(groups)
  /\ list # groups[i].list
  /\ LET changed == [groups EXCEPT ![i].list = list,
                       ![i].default = Normalized(list, groups[i].default)]
     IN  Commit(IF i = 1 THEN GroupsChange(Now, changed)
                ELSE [Now EXCEPT !.groups = changed])
  /\ Unfocused
  /\ UNCHANGED configVars

RemoveGroup(i) ==
  /\ i \in DOMAIN groups
  /\ Len(groups) > 1
  /\ Commit(IF i = 1 THEN GroupsChange(Now, Tail(groups))
            ELSE [Now EXCEPT !.groups = RemoveAt(groups, i)])
  /\ Unfocused
  /\ UNCHANGED configVars

(***************************************************************************)
(* The operations of Instance that work on the most recent context.        *)
(***************************************************************************)
Recent ==
  IF Focus!MostRecentInputContext # None THEN Focus!MostRecentInputContext
  ELSE IF share = "All" THEN Dummy ELSE None

OnRecent(done) ==
  /\ Recent # None
  /\ Commit(Watching(Recent, done))
  /\ Unfocused
  /\ UNCHANGED configVars

ToggleRecent == OnRecent(Toggle(Now, Recent))

SetRecentEnabled(on) == OnRecent(SetEnabled(Now, Recent, on, {Recent}))

EnumerateRecent(forward) == OnRecent(Enumerate(Now, Recent, forward))

\* From the user interface or D-Bus, for the most recent context or none.
ChooseInputMethod(im) ==
  /\ Commit(LET s == SetCurrentInputMethod(Now, Recent, im, FALSE)
            IN  IF Recent = None THEN s ELSE Watching(Recent, s))
  /\ Unfocused
  /\ UNCHANGED configVars

\* From the input method selector, for the context it was opened in.
SelectInputMethod(ic, im, local) ==
  /\ ic \in alive
  /\ hasFocus[ic]
  /\ Commit(Watching(ic, SetCurrentInputMethod(Now, ic, im, local)))
  /\ Unfocused
  /\ UNCHANGED configVars

\* Instance::reloadConfig
ReloadConfig ==
  /\ share' \in Policies
  /\ allowPassword' \in PasswordAllowed
  /\ Unfocused
  /\ UNCHANGED <<stateVars, groups, capability>>

Next ==
  \/ FocusMoves
  \/ ToggleRecent
  \/ ReloadConfig
  \/ \E ic \in InputContext :
       \/ Create(ic)
       \/ Destroy(ic)
       \/ \E flags \in {"Normal", "Password", "Disable"} :
            SetCapabilityFlags(ic, flags)
       \/ \E im \in InputMethod, local \in BOOLEAN :
            SelectInputMethod(ic, im, local)
  \/ \E im \in InputMethod : ChooseInputMethod(im)
  \/ \E on \in BOOLEAN : SetRecentEnabled(on) \/ EnumerateRecent(on)
  \/ \E i \in DOMAIN groups :
       \/ SetCurrentGroup(i)
       \/ RemoveGroup(i)
       \/ \E list \in Lists : SetGroup(i, list)

Spec == Init /\ [][Next]_vars

-----------------------------------------------------------------------------

\* Whatever path changed what a focused context uses, exactly that engine is
\* activated for it and no other is left open, and a context without focus
\* keeps none: what assert(entry->uniqueName() == inputState->lastIM_) and
\* assert(inputState->lastIM_.empty()) rely on.
EnginesFollow ==
  \A ic \in alive :
    LET im == IF hasFocus[ic] THEN InputMethodOf(Now, ic) ELSE None
    IN  lastIM[ic] = im /\ opened[ic] = {im} \ {None}

\* In a password field, unless configured otherwise, and in a disabled one no
\* engine but the keyboard's is ever told of what is typed, also while the field
\* gets or loses these capabilities, the group changes or the state is shared.
PasswordsStayWithKeyboard ==
  \A ic \in alive :
    InputMethodDisabled(Now, ic) => opened[ic] \subseteq {groups[1].layout, KeyboardUs}

SharersAgree ==
  \A ic \in alive, c \in State :
    c \in Sharing(ic) => active[c] = active[ic] /\ localIM[c] = localIM[ic]

\* Contexts that share their state agree after every step if they did before:
\* no path changes one of them alone, and a new one joins in.
StateStaysShared ==
  [][ share' = share /\ SharersAgree => SharersAgree' ]_vars

\* "Toggle between the first input method and active input method": in a group
\* of different input methods the key has an effect in every enabled context,
\* unless it was given the first one as its local input method.
ToggleHasEffect ==
  LET list == groups[1].list
  IN  /\ Recent # None /\ Len(list) > 1 /\ ~InputMethodDisabled(Now, Recent)
      /\ \A i \in 2..Len(list) : list[i] # list[1]
      /\ localIM[Recent] # list[1]
      => InputMethodOf(Watching(Recent, Toggle(Now, Recent)), Recent)
           # InputMethodOf(Now, Recent)

\* The input method that is chosen, for all contexts or for one, is the one the
\* context uses afterwards, whatever it used before and whatever it shares.
ChoiceIsUsed ==
  \A ic \in alive, im \in ToSet(groups[1].list), local \in BOOLEAN :
    /\ hasFocus[ic] \/ (ic = Recent /\ ~local)
    /\ CanTrigger(Now) /\ ~InputMethodDisabled(Now, ic)
    => InputMethodOf(Watching(ic, SetCurrentInputMethod(Now, ic, im, local)), ic)
         = im

\* assert(entry->uniqueName() == inputState->lastIM_) in deactivateInputMethod,
\* for a context that loses focus now.
DeactivationAsserted ==
  \A ic \in alive :
    hasFocus[ic] /\ InputMethodOf(Now, ic) # None
      => lastIM[ic] = InputMethodOf(Now, ic)
=============================================================================
