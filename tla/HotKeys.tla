------------------------------- MODULE HotKeys -------------------------------
(***************************************************************************)
(* The hot keys of Instance: the handler of key events in front of the     *)
(* engines.  A key that is a modifier alone acts when it is released; the  *)
(* trigger key goes through the input methods while its modifier is held;  *)
(* a choice of group is kept pending until all modifiers are released.     *)
(*                                                                         *)
(* Extends InputMethodSwitch, whose contexts get the keys, with the        *)
(* keyboard they are typed on.  A modifier key is identified with the      *)
(* state it gives to the keys typed while it is down, so the left and      *)
(* right one of a kind are one key here.  Of the watchers that see a key   *)
(* before the hot keys do, the input method selector is modelled.          *)
(***************************************************************************)
EXTENDS InputMethodSwitch

CONSTANTS
  Modifier,       \* the modifier keys
  PlainKey,       \* the other keys
  HotKeyConfigs,  \* configurations: the keys for each of KeyHandlers
  SelectorKeys,   \* switchKey of the selector: a key for each list position
  EnumerateWithTriggerKeys, ConsumeRedundantActivateKeys,
  LosesKeys,      \* configurations under which the desktop keeps some keys
  TourBound       \* how many presses of the trigger key are followed up

KeyHandlers == <<"triggerKeys", "altTriggerKeys", "activateKeys",
                 "deactivateKeys", "enumerateForwardKeys",
                 "enumerateBackwardKeys", "enumerateGroupForwardKeys",
                 "enumerateGroupBackwardKeys">>

\* A Key: what it is, and the modifiers held when it is typed.
Key == [sym : Modifier \cup PlainKey, states : SUBSET Modifier]

ASSUME KeysAssumption ==
  /\ Modifier \cap PlainKey = {}
  /\ HotKeyConfigs \subseteq [ToSet(KeyHandlers) -> SUBSET Key]
  /\ SelectorKeys \in Seq([sym : PlainKey, states : SUBSET Modifier])
  /\ EnumerateWithTriggerKeys \in BOOLEAN
  /\ ConsumeRedundantActivateKeys \in BOOLEAN
  /\ LosesKeys \subseteq HotKeyConfigs
  /\ TourBound \in Nat

VARIABLES
  hotKey,     \* the configuration that is in force
  down,       \* the keys of the keyboard that are pressed
  keyState,   \* keyReleased_, lastKeyPressed_, totallyReleased_,
              \* pendingGroupIndex_ and firstTrigger_ of each InputState
  pressed,    \* history: the key whose press was the last that came to the
              \* hot keys of a context
  tour,       \* history: what it used after each press of the held trigger
  tip         \* history: the group it was last told that it switches to

historyVars == <<pressed, tour, tip>>
varsWithKeys == <<vars, hotKey, down, keyState, historyVars>>

-----------------------------------------------------------------------------

IsModifier(key) == key.sym \in Modifier
HasModifier(key) == key.states # {}
IsSingleModifier(key) == IsModifier(key) /\ key.states \subseteq {key.sym}
IsSingleKey(key) == IsSingleModifier(key) \/ ~HasModifier(key)

\* Key::check; a modifier may or may not count itself among its states.
Matches(key, hot) ==
  /\ key.sym = hot.sym
  /\ key.states \ ({key.sym} \cap Modifier) = hot.states \ ({key.sym} \cap Modifier)

\* Key::isReleaseOfModifier: any of the keys held for last ends it.
IsReleaseOfModifier(key, last) ==
  /\ last # None
  /\ IsModifier(last)
  /\ \E m \in {last.sym} \cup last.states :
       Matches(key, [sym |-> m, states |-> {last.sym} \cup last.states])

\* InputState::reset, and an InputState that is made anew.
ResetKeys(state) ==
  [state EXCEPT !.released = 0, !.lastKey = None, !.totally = TRUE, !.pending = 0]

NewKeys == [released |-> 0, lastKey |-> None, totally |-> TRUE, pending |-> 0,
            first |-> FALSE]

\* What a key event hands on: the state of the input methods, the part of the
\* context's InputState that belongs to its keys, reason_ and ignore_ of the
\* watcher it sets up, and what its tips have said.
NowFor(ic) == [im |-> Now, key |-> keyState[ic], alt |-> FALSE,
               ignored |-> FALSE, tip |-> tip[ic]]

-----------------------------------------------------------------------------

Check(s, ic, handler) ==
  CASE handler = "triggerKeys" -> CanTrigger(s)
    [] handler = "altTriggerKeys" ->
         CanTrigger(s) /\ (s.active[ic] \/ s.byAlt[ic])
    [] handler = "activateKeys" ->
         CanTrigger(s) /\ (~s.active[ic] \/ ConsumeRedundantActivateKeys)
    [] handler = "deactivateKeys" ->
         CanTrigger(s) /\ (s.active[ic] \/ ConsumeRedundantActivateKeys)
    [] handler \in {"enumerateForwardKeys", "enumerateBackwardKeys"} ->
         /\ CanTrigger(s)
         /\ EnumerateSkipFirst => s.active[ic] /\ Len(List(s)) > 2
    [] OTHER -> Len(s.groups) > 1

TriggerToggles(s, ic) ==
  \/ s.key.totally
  \/ ~EnumerateWithTriggerKeys
  \/ s.key.first /\ s.im.active[ic]
  \/ EnumerateSkipFirst /\ Len(List(s.im)) <= 2

Triggered(s, ic) ==
  [s EXCEPT !.im = IF TriggerToggles(s, ic) THEN Toggle(@, ic)
                   ELSE Enumerate(@, ic, TRUE)]

\* Mutant of Trigger: firstTrigger_ is never cleared.
Trigger_AlwaysFirst(s, ic) ==
  [Triggered(s, ic) EXCEPT !.key.first = @ \/ s.key.totally]

\* Instance::trigger: active -> inactive -> enumerate, or
\* inactive -> active -> inactive -> enumerate.
Trigger(s, ic) == [Triggered(s, ic) EXCEPT !.key.first = s.key.totally]

\* What tells the groups apart.
Order(order) == [i \in DOMAIN order |-> <<order[i].list, order[i].layout>>]

\* InstancePrivate::navigateGroup, and the tip it shows.
NavigateGroup(s, forward) ==
  LET n == Len(s.im.groups)
      pending == (s.key.pending + (IF forward THEN 1 ELSE n - 1)) % n
  IN  [s EXCEPT !.key.pending = pending, !.tip = Order(s.im.groups)[pending + 1]]

Act(s, ic, handler) ==
  CASE handler = "triggerKeys" -> Trigger(s, ic)
    [] handler = "altTriggerKeys" -> [s EXCEPT !.im = Toggle(@, ic), !.alt = TRUE]
    [] handler \in {"activateKeys", "deactivateKeys"} ->
         [s EXCEPT !.im = SetEnabled(@, ic, handler = "activateKeys", {ic})]
    [] handler \in {"enumerateForwardKeys", "enumerateBackwardKeys"} ->
         [s EXCEPT !.im = Enumerate(@, ic, handler = "enumerateForwardKeys")]
    [] OTHER -> NavigateGroup(s, handler = "enumerateGroupForwardKeys")

(***************************************************************************)
(* A pending group becomes the current one: the groups are turned to it    *)
(* after a key without modifiers, else it is moved to the front.  The      *)
(* watcher leaves the change to the handlers of the group's signals.       *)
(***************************************************************************)
Reordered(order, last, i) ==
  IF last = None \/ IsSingleKey(last)
  THEN SubSeq(order, i, Len(order)) \o SubSeq(order, 1, i - 1)
  ELSE MoveToFront(order, i)

AcceptAt(s, last, i) ==
  [s EXCEPT !.im = IF i <= Len(@.groups)
                   THEN GroupsChange(@, Reordered(@.groups, last, i)) ELSE @,
            !.key.pending = 0, !.key.lastKey = None, !.ignored = TRUE]

\* Mutant of AcceptGroupChange: the index counts from one.
AcceptGroupChange_Shifted(s, last) == AcceptAt(s, last, s.key.pending)

AcceptGroupChange(s, last) == AcceptAt(s, last, s.key.pending + 1)

\* Nothing is accepted before all modifiers are released.
Accepted(s, last) ==
  IF s.key.pending # 0 /\ s.key.totally THEN AcceptGroupChange(s, last) ELSE s

\* A release: handler is the one the last press was for, perhaps 0; within
\* says that a modifier is released in time.
Fires(s, ic, key, handler) ==
  /\ handler # 0
  /\ IsReleaseOfModifier(key, s.key.lastKey)
  /\ Check(s.im, ic, KeyHandlers[handler])

Released(s, ic, key, handler, within) ==
  [ (IF Fires(s, ic, key, handler) /\ within THEN Act(s, ic, KeyHandlers[handler])
     ELSE s)
    EXCEPT !.key.totally =
      IsSingleModifier(key) \/ (@ /\ ~(Fires(s, ic, key, handler) /\ HasModifier(key))) ]

\* A press: the first handler that knows the key and may act takes it, and acts
\* at once unless the key is a modifier.
Takers(s, ic, key) ==
  {i \in DOMAIN KeyHandlers :
     /\ \E hot \in hotKey[KeyHandlers[i]] : Matches(key, hot)
     /\ Check(s.im, ic, KeyHandlers[i])}

TakePress(s, ic, key, i) ==
  IF IsModifier(key) THEN s
  ELSE [Act(s, ic, KeyHandlers[i]) EXCEPT !.key.totally = @ /\ ~HasModifier(key)]

Pressed(s, ic, key) ==
  IF Takers(s, ic, key) = {} THEN s
  ELSE LET first == Min(Takers(s, ic, key))
       IN  TakePress([s EXCEPT !.key.released = first, !.key.lastKey = key],
                     ic, key, first)

(***************************************************************************)
(* What the handler does with a key, once it has cleared keyReleased_;     *)
(* handler is what it was.                                                 *)
(***************************************************************************)
Processed(s, ic, key, release, handler, within) ==
  IF release
  THEN Accepted(Released(s, ic, key, handler, within), s.key.lastKey)
  ELSE Pressed(Accepted(s, s.key.lastKey), ic, key)

\* imChangedRAII at the end of the handler.
CheckedKey(ic, done) ==
  [done EXCEPT !.im = IF done.ignored THEN @ ELSE CheckedAs(done.alt, Now, {ic}, @)]

ForgetPress(s) == [s EXCEPT !.key.released = 0]

\* Mutant of HandleKey: the last press is forgotten only when it is replaced.
HandleKey_KeepsReleased(ic, key, release, within) ==
  CheckedKey(ic, Processed(NowFor(ic), ic, key, release, keyState[ic].released,
                           within))

HandleKey(ic, key, release, within) ==
  CheckedKey(ic, Processed(ForgetPress(NowFor(ic)), ic, key, release,
                           keyState[ic].released, within))

-----------------------------------------------------------------------------

InitWithKeys ==
  /\ Init
  /\ hotKey \in HotKeyConfigs
  /\ down = {}
  /\ keyState = [ic \in InputContext |-> NewKeys]
  /\ pressed = [ic \in InputContext |-> None]
  /\ tour = [ic \in InputContext |-> <<>>]
  /\ tip = [ic \in InputContext |-> None]

\* A tip is out of date when something else has changed the groups.
TipsStill ==
  [ic \in InputContext |->
     IF Order(groups') = Order(groups) /\ keyState'[ic].pending # 0
     THEN tip[ic] ELSE None]

\* What happens otherwise to the contexts; one that loses focus is reset.
Switched ==
  /\ Next
  /\ keyState' = [ic \in InputContext |->
       IF ic \notin alive \cap alive' THEN NewKeys
       ELSE IF ic \in Lost(posted') THEN ResetKeys(keyState[ic])
       ELSE keyState[ic]]
  /\ pressed' = [ic \in InputContext |->
       IF ic \in Lost(posted') \/ ic \notin alive' THEN None ELSE pressed[ic]]
  /\ tour' = [ic \in InputContext |-> <<>>]
  /\ tip' = TipsStill
  /\ UNCHANGED down

\* InputContext::reset, by the client
ClientReset(ic) ==
  /\ ic \in alive
  /\ hasFocus[ic]
  /\ keyState' = [keyState EXCEPT ![ic] = ResetKeys(@)]
  /\ pressed' = [pressed EXCEPT ![ic] = None]
  /\ tour' = [tour EXCEPT ![ic] = <<>>]
  /\ tip' = [tip EXCEPT ![ic] = None]
  /\ Unfocused
  /\ UNCHANGED <<stateVars, configVars, groups, capability, down>>

\* A key goes down, again when it repeats, or up.
KeyMoves(sym, release) ==
  /\ IF release THEN sym \in down ELSE sym \in PlainKey \/ sym \notin down
  /\ down' = IF release THEN down \ {sym} ELSE down \cup {sym}

KeyTyped(sym) == [sym |-> sym, states |-> down \cap Modifier]

Selects(ic, key) ==
  {i \in DOMAIN SelectorKeys : i <= Len(List(Now)) /\ Matches(key, SelectorKeys[i])}

\* What the context used after each press of the trigger key, as long as nothing
\* but its releases comes between; a trigger key that is itself a modifier acts
\* on release and is not followed.
Follow(ic, key, release) ==
  IF IsModifier(key) THEN <<>>
  ELSE IF release THEN tour[ic]
  ELSE IF /\ HasModifier(key) /\ ~InputMethodDisabled(Now, ic)
          /\ \E hot \in hotKey["triggerKeys"] : Matches(key, hot)
  THEN IF Len(tour[ic]) < TourBound THEN Append(tour[ic], InputMethodOf(Now', ic))
       ELSE tour[ic]
  ELSE <<>>

\* A key for a focused context, that nobody takes before the hot keys.
KeyEvent(ic, sym, release, within) ==
  LET key == KeyTyped(sym)
  IN  /\ ic \in alive
      /\ hasFocus[ic]
      /\ KeyMoves(sym, release)
      /\ Selects(ic, key) = {}
      /\ \E s \in {HandleKey(ic, key, release, within)} :
           /\ Commit(s.im)
           /\ keyState' = [keyState EXCEPT ![ic] = s.key]
           /\ tip' = [TipsStill EXCEPT ![ic] = s.tip]
      /\ Unfocused
      /\ UNCHANGED configVars
      /\ pressed' = [pressed EXCEPT ![ic] = IF release THEN None ELSE key]
      /\ tour' = [other \in InputContext |->
                    IF other = ic THEN Follow(ic, key, release) ELSE <<>>]

\* A key that the input method selector takes, pressed or released.
SelectorKeyEvent(ic, sym, release) ==
  LET key == KeyTyped(sym)
      chosen == Selects(ic, key)
  IN  /\ ic \in alive
      /\ hasFocus[ic]
      /\ KeyMoves(sym, release)
      /\ chosen # {}
      /\ Commit(Watching(ic, SetCurrentInputMethod(Now, ic, List(Now)[Min(chosen)],
                                                   FALSE)))
      /\ tour' = [other \in InputContext |-> <<>>]
      /\ Unfocused
      /\ UNCHANGED <<configVars, keyState, pressed, tip>>

\* A key that no context gets, for want of one that has focus or because the
\* desktop has a use for the key.
KeyElsewhere(sym, release) ==
  /\ hotKey \in LosesKeys \/ Focused(Now) = {}
  /\ KeyMoves(sym, release)
  /\ tour' = [ic \in InputContext |-> <<>>]
  /\ Unfocused
  /\ UNCHANGED <<stateVars, configVars, groups, capability, keyState, pressed,
                 tip>>

NextWithKeys ==
  /\ \/ Switched
     \/ \E ic \in InputContext : ClientReset(ic)
     \/ \E sym \in Modifier \cup PlainKey, release \in BOOLEAN :
          \/ KeyElsewhere(sym, release)
          \/ \E ic \in InputContext :
               \/ SelectorKeyEvent(ic, sym, release)
               \/ \E within \in BOOLEAN : KeyEvent(ic, sym, release, within)
  /\ UNCHANGED hotKey

SpecWithKeys == InitWithKeys /\ [][NextWithKeys]_varsWithKeys

-----------------------------------------------------------------------------

\* "Some other key pressed between shift, should not trigger": the release of a
\* modifier changes the input method only if the last thing its context was told
\* is the press of that hot key, with no other key, reset or focus in between
\* (but for the keys of the selector, which the hot keys never see).
ModifierAloneActs ==
  [][ \A ic \in InputContext, m \in Modifier :
        /\ hasFocus[ic] /\ active'[ic] # active[ic]
        /\ m \in down /\ down' = down \ {m}
        => \E other \in InputContext :
             /\ pressed[other] # None
             /\ IsReleaseOfModifier(KeyTyped(m), pressed[other]) ]_varsWithKeys

\* "If Control is held, following key press of Space will enumerate the input
\* method": in a group of different input methods, whatever was used at first, as
\* many presses as the group has input methods and one more reach all of them.
HeldTriggerVisitsAll ==
  LET list == groups[1].list
  IN  \A ic \in alive :
        /\ EnumerateWithTriggerKeys /\ ~EnumerateSkipFirst
        /\ \A i, j \in DOMAIN list : list[i] = list[j] => i = j
        /\ Len(tour[ic]) > Len(list)
        => ToSet(list) \subseteq ToSet(tour[ic])

\* "Switch group to": what is switched to when the modifiers are released is the
\* group that was shown last, if nobody else changed the groups since.
TipIsKept ==
  [][ \A ic \in InputContext :
        /\ ic \in alive \cap alive' /\ tip'[ic] # None
        /\ Order(groups') # Order(groups)
        /\ keyState[ic].pending # 0 /\ keyState'[ic].pending = 0
        => Order(groups')[1] = tip'[ic] ]_varsWithKeys
=============================================================================
