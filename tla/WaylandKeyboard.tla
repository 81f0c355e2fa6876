---------------------------- MODULE WaylandKeyboard ----------------------------
(***************************************************************************)
(* The keyboard of a Wayland text field (input method protocol, version 2): *)
(* while the field is active the keys are grabbed, and what the engine does *)
(* not take is typed on a virtual keyboard.  Keys repeat by a timer, whose  *)
(* key was read when it was set.  Activation and deactivation are notes     *)
(* that take effect when the compositor is done with a batch.               *)
(*                                                                         *)
(* The compositor sends a keymap before any key and does not deactivate in  *)
(* one batch what it activates earlier in it.  An engine takes the release  *)
(* of a key only if it took all that came from the key before.              *)
(***************************************************************************)
EXTENDS VirtualContexts

CONSTANTS
  GrabbedKeys,    \* keys of the keyboard
  RepeatingKeys,  \* those that repeat
  TextKeys        \* those that may be sent as text

ASSUME GrabbedKeysAssumption == RepeatingKeys \cup TextKeys \subseteq GrabbedKeys

VARIABLES
  persistent,  \* PersistentVirtualKeyboard
  wl,          \* the context, and the keys that its virtual keyboard holds down
  active,      \* what the compositor last said
  user         \* history: what the user does with the keys

waylandVars == <<virtualVars, persistent, wl, active, user>>

NoRepeat == "no key"

WaylandInit ==
  /\ VirtualInit
  /\ persistent \in BOOLEAN
  /\ wl = [activate |-> FALSE, deactivate |-> FALSE, grab |-> FALSE, mapped |-> FALSE,
          ready |-> FALSE, pressed |-> {}, timer |-> FALSE, repeatKey |-> NoRepeat,
          serverRepeats |-> FALSE, down |-> {}]
  /\ active = FALSE
  \* held: pressed under this grab; taken: of those, all of which the engine took;
  \* left: keys that were down when the field lost focus before it was deactivated
  /\ user = [held |-> {}, taken |-> {}, left |-> {}]

\* Mutant of SendKeyToVK: the old entry is erased last.
SendKeyToVK_EraseLast(s, key, press, asText) ==
  IF ~s.ready \/ (press /\ asText) THEN s
  ELSE [s EXCEPT !.pressed = @ \ {key}, !.down = IF press THEN @ \cup {key} ELSE @ \ {key}]

SendKeyToVK(s, key, press, asText) ==
  IF ~s.ready \/ (press /\ asText) THEN s
  ELSE [s EXCEPT !.pressed = IF press /\ key \in RepeatingKeys THEN @ \cup {key} ELSE @ \ {key},
                 !.down = IF press THEN @ \cup {key} ELSE @ \ {key}]

Uses(state, focus) ==
  /\ wl' = state
  /\ field' = focus
  /\ UNCHANGED <<monitored, persistent>>

Activate ==
  /\ ~wl.activate
  /\ active' = TRUE
  /\ Uses([wl EXCEPT !.activate = TRUE], SetCapabilityFlags(field, BaseFlags))
  /\ UNCHANGED user

Deactivate ==
  /\ active /\ ~wl.activate
  /\ active' = FALSE
  /\ Uses([wl EXCEPT !.deactivate = TRUE], field)
  /\ UNCHANGED user

\* Without the option the virtual keyboard, and what it holds down, goes with the grab.
NewKeyboard(s) == IF persistent THEN s ELSE [s EXCEPT !.ready = FALSE, !.down = {}]

Deactivated ==
  LET released == IF RealFocus(field) /\ wl.ready
                  THEN [wl EXCEPT !.down = @ \ wl.pressed, !.pressed = {}] ELSE wl
  IN  NewKeyboard([released EXCEPT !.deactivate = FALSE, !.grab = FALSE, !.mapped = FALSE,
                     !.timer = FALSE, !.serverRepeats = FALSE])

Activated(s) ==
  NewKeyboard([s EXCEPT !.activate = FALSE, !.grab = TRUE, !.mapped = FALSE])

Done ==
  LET off == IF wl.deactivate THEN Deactivated ELSE wl
      out == IF wl.deactivate /\ RealFocus(field) THEN FocusOutWrapper(field) ELSE field
  IN  /\ IF wl.activate THEN Uses(Activated(off), FocusInWrapper(out)) ELSE Uses(off, out)
      /\ user' = IF ~wl.deactivate THEN user
                 ELSE [held |-> {}, taken |-> {},
                       left |-> IF RealFocus(field) THEN user.left ELSE user.left \cup wl.pressed]
      /\ UNCHANGED active

Keymap ==
  /\ wl.grab
  /\ Uses([wl EXCEPT !.mapped = TRUE, !.ready = TRUE], field)
  /\ UNCHANGED <<active, user>>

\* keyCallback for a press, of the keyboard or of a compositor that repeats keys
Press(key, repeats, handled, asText) ==
  LET noted == IF repeats THEN [wl EXCEPT !.serverRepeats = TRUE]
               ELSE IF key \in RepeatingKeys /\ ~wl.serverRepeats
               THEN [wl EXCEPT !.repeatKey = key, !.timer = TRUE] ELSE wl
  IN  /\ wl.mapped
      /\ repeats = (key \in user.held)
      /\ Uses(IF handled THEN noted ELSE SendKeyToVK(noted, key, TRUE, asText),
              FocusInWrapper(field))
      /\ user' = [held |-> user.held \cup {key},
                  left |-> IF handled THEN user.left ELSE user.left \ {key},
                  taken |-> IF handled /\ (repeats => key \in user.taken)
                            THEN user.taken \cup {key} ELSE user.taken \ {key}]
      /\ UNCHANGED active

\* keyCallback for a release
Release(key, handled) ==
  LET stopped == [wl EXCEPT !.timer = @ /\ key # wl.repeatKey]
  IN  /\ wl.mapped
      /\ handled => key \in user.taken
      /\ Uses(IF handled THEN stopped ELSE SendKeyToVK(stopped, key, FALSE, FALSE),
              FocusInWrapper(field))
      /\ user' = [held |-> user.held \ {key}, taken |-> user.taken \ {key},
                  left |-> IF handled THEN user.left ELSE user.left \ {key}]
      /\ UNCHANGED active

\* repeat
TimerFires(handled, asText) ==
  LET stopped == [wl EXCEPT !.timer = FALSE]
      up      == SendKeyToVK(stopped, wl.repeatKey, FALSE, FALSE)
      typed   == IF handled THEN up ELSE SendKeyToVK(up, wl.repeatKey, TRUE, asText)
  IN  /\ wl.timer
      /\ IF ~RealFocus(field) \/ wl.serverRepeats THEN Uses(stopped, field) /\ UNCHANGED user
         ELSE /\ Uses([typed EXCEPT !.timer = TRUE], field)
              /\ user' = [user EXCEPT !.taken = IF handled THEN @ ELSE @ \ {wl.repeatKey}]
      /\ UNCHANGED active

\* forwardKeyDelegate, for an engine that types a key
ForwardKey(key, asText) ==
  /\ RealFocus(field)
  /\ Uses(SendKeyToVK(SendKeyToVK(wl, key, TRUE, asText), key, FALSE, FALSE), field)
  /\ user' = [user EXCEPT !.left = @ \ {key}]
  /\ UNCHANGED active

WaylandNext ==
  \/ Activate \/ Deactivate \/ Done \/ Keymap
  \/ \E key \in GrabbedKeys, asText \in BOOLEAN :
       /\ asText => key \in TextKeys
       /\ \/ \E repeats, handled \in BOOLEAN : Press(key, repeats, handled, asText)
          \/ ForwardKey(key, asText)
  \/ \E key \in GrabbedKeys, handled \in BOOLEAN : Release(key, handled)
  \/ \E handled, asText \in BOOLEAN :
       (asText => wl.repeatKey \in TextKeys) /\ TimerFires(handled, asText)
  \/ VirtualNext /\ UNCHANGED <<persistent, wl, active, user>>

WaylandSpec == WaylandInit /\ [][WaylandNext]_waylandVars
-----------------------------------------------------------------------------

(***************************************************************************)
(* "If last key to vk is press, send a release": whatever the engine takes, *)
(* forwards or leaves, whoever repeats the keys, and however activation,    *)
(* deactivation, focus and the timer fall between a press and its release:  *)
(* the virtual keyboard holds down no key that repeats but those that the   *)
(* user holds, and the timer types no other.  Left out are keys that were   *)
(* down when another context took focus before the field was deactivated.   *)
(***************************************************************************)
KeysFollowUser ==
  /\ wl.down \cap RepeatingKeys \subseteq user.held \cup user.left
  /\ wl.timer => wl.repeatKey \in user.held
=============================================================================
