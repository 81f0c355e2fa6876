------------------------------ MODULE MC_HotKeys ------------------------------
(***************************************************************************)
(* One context and the keys of one modifier, in two configurations: the    *)
(* trigger key with the modifier held, which is a hot key alone; and keys  *)
(* for the groups with and without it.  The two are kept apart because a   *)
(* pending group and a trigger key in the same event get in each other's   *)
(* way, which a third configuration shows.                                 *)
(***************************************************************************)
EXTENDS HotKeys, TLC

CONSTANTS ic1, dummy, program, us, pinyin, rime, ctrl, space, f1

OneContext == {ic1}
NoDisplay == {}
AProgram == [c \in {ic1, dummy} |-> IF c = dummy THEN None ELSE program]

AllMethods == {us, pinyin, rime}
NoLists == {}

Group(list, layout) ==
  [list |-> list, default |-> Normalized(list, None), layout |-> layout]

TwoGroups == <<Group(<<us, pinyin>>, us), Group(<<pinyin, us>>, None)>>
ThreeGroups == <<Group(<<us, pinyin, rime>>, us), Group(<<pinyin>>, None),
                 Group(<<us>>, None)>>

OnlyNo == {"No"}
Never == {FALSE}

Control == {ctrl}
TwoKeys == {space, f1}

With(states, sym) == [sym |-> sym, states |-> states]
NoHotKeys == [handler \in ToSet(KeyHandlers) |-> {}]

\* Control alone is the alt trigger, or activates what is inactive; F1 alone goes
\* to the next group, both to the previous group.
GroupKeys ==
  [NoHotKeys EXCEPT !["altTriggerKeys"] = {With({}, ctrl)},
                    !["activateKeys"] = {With({}, ctrl)},
                    !["enumerateGroupForwardKeys"] = {With({}, f1)},
                    !["enumerateGroupBackwardKeys"] = {With({ctrl}, f1)}]

\* Control+space triggers, Control alone deactivates what is active and else goes
\* to the previous input method.
TriggerKeys ==
  [NoHotKeys EXCEPT !["triggerKeys"] = {With({ctrl}, space)},
                    !["deactivateKeys"] = {With({}, ctrl)},
                    !["enumerateBackwardKeys"] = {With({}, ctrl)}]

\* F1 alone goes to the next group, space alone triggers.
SingleKeys ==
  [NoHotKeys EXCEPT !["triggerKeys"] = {With({}, space)},
                    !["enumerateGroupForwardKeys"] = {With({}, f1)}]

Overlapping == {SingleKeys}
Separate == {GroupKeys, TriggerKeys}
Lossy == {TriggerKeys}
Lossless == {}

\* Each configuration is used with its own keys.  The groups stay as they are
\* while the held trigger is followed, and two input methods are enough else.
NextInScope ==
  /\ NextWithKeys
  /\ hotKey = GroupKeys =>
       /\ space \notin down'
       /\ \A i \in DOMAIN groups' : groups'[i].default # rime
       /\ \A c \in DOMAIN localIM' : localIM'[c] # rime
  /\ hotKey = TriggerKeys => f1 \notin down' /\ Order(groups') = Order(groups)

SpecInScope == InitWithKeys /\ [][NextInScope]_varsWithKeys

NoSelector == <<>>
SelectorFirst == <<With({}, space)>>
=============================================================================
