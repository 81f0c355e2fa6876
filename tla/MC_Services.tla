------------------------------ MODULE MC_Services ------------------------------
(***************************************************************************)
(* The parts that stand on their own, side by side in one run, as in        *)
(* MC_Threads: one of them moves in a behaviour and the others stay in one  *)
(* of their initial states.                                                *)
(*                                                                         *)
(* Three addons depend on each other in every way, one of them may be on    *)
(* demand and one may not be there to use: enough for a chain, a cycle and  *)
(* two that wait for the same.  One preedit that is not empty is enough to  *)
(* tell a stale preedit from the current one.  The UI that the options name *)
(* is the only one, and else all are in the order of their priorities.      *)
(* Three contexts and two displays: a hand-over in one display, a focused   *)
(* context in each, and one outside of every display.  Of the letters one   *)
(* has relatives; a word of two characters fills the buffer with one key.   *)
(* A narrow and a wide character, of which the buffer holds four.  One      *)
(* application that is in front or not, with two keys that both repeat.     *)
(***************************************************************************)
EXTENDS FocusGroups, ClientEvents, AddonManager, CandidateList, ServiceWatcher,
        UserInterfaceManager, KeyboardEngine, InputBuffer, WaylandKeyboard

CONSTANTS composing, empty, x, y, z, ic1, ic2, ic3, g1, g2

ThreeContexts == {ic1, ic2, ic3}
TwoDisplays == {g1, g2}

OnePreedit == {composing}

ThreeAddons == <<x, y, z>>

\* What each addon says of each other.
Kinds == {"none", "requires", "optional"}
Dependencies ==
  {d \in [{x, y, z} -> [{x, y, z} -> Kinds]] : \A a \in {x, y, z} : d[a][a] = "none"}

AllCatalogs ==
  {[requires |-> [a \in {x, y, z} |-> {b \in {x, y, z} : d[a][b] = "requires"}],
    optional |-> [a \in {x, y, z} |-> {b \in {x, y, z} : d[a][b] = "optional"}],
    onDemand |-> demanded,
    status |-> [a \in {x, y, z} |-> IF a = odd[1] THEN odd[2] ELSE "works"]] :
     d \in Dependencies,
     demanded \in {{}, {x}, {y}, {z}},
     odd \in {<<x, "works">>} \cup ({x, y, z} \X {"broken", "disabled"})}

SomePreferences ==
  {<<ui>> : ui \in UserInterfaces} \cup {<<"virtualkeyboard", "kimpanel", "classicui">>}

\* Capitals stand for the relatives of a and for what is composed of it.
AllCharacters ==
  {"a", "b", "grave", "acute", "A1", "A2", "A3", "B3", "A4", "w", "another character"}
SomeRelatives == [letter \in {"a"} |-> << <<"A1">>, <<"A2">> >>]
FewOffers == {<<>>, << <<"w">>, <<"w", "w">> >>}
ComposeInTwo ==
  [keys \in {<<"grave", "a">>, <<"acute", "b">>} |-> IF keys[2] = "a" THEN "A3" ELSE "B3"]

\* As above, and a sequence of three keys.
ComposeInThree ==
  [keys \in DOMAIN ComposeInTwo \cup {<<"acute", "acute", "a">>} |->
     IF keys \in DOMAIN ComposeInTwo THEN ComposeInTwo[keys] ELSE "A4"]

TwoWidths == [char \in {"narrow", "wide"} |-> IF char = "narrow" THEN 1 ELSE 3]

VARIABLE part

allVars == <<part, vars, clientVars, addonVars, listVars, watcherVars, uiVars, kbVars, bufferVars,
             waylandVars>>

Independent ==
  [requires |-> [a \in {x, y, z} |-> {}], optional |-> [a \in {x, y, z} |-> {}],
   onDemand |-> {}, status |-> [a \in {x, y, z} |-> "works"]]

PlainPaging == [includeUnselected |-> FALSE, keepInSamePage |-> FALSE,
                after |-> "DonotChange"]

\* The part that moves starts anywhere, the others in one state.
StartsIn(p) ==
  /\ part = p
  /\ p = "addons" \/ catalog = Independent
  /\ p = "client" \/ capability = {}
  /\ p = "candidates" \/ (pageSize = 2 /\ paging = PlainPaging)
  /\ p = "watchers" \/ owner = NoOwner
  /\ p = "ui" \/ autoShow = FALSE
  /\ Init /\ ClientInit /\ AddonInit /\ ListInit /\ WatcherInit /\ UIInit /\ KbInit /\ BufferInit
  /\ p = "keyboard" \/ (predict = FALSE /\ kb = Fresh)
  /\ p = "buffer" \/ options = {}
  /\ WaylandInit
  /\ p = "wayland" \/ (monitored = FALSE /\ persistent = FALSE)

Focus(A) ==
  /\ part = "focus" /\ A
  /\ UNCHANGED <<part, clientVars, addonVars, listVars, watcherVars, uiVars, kbVars, bufferVars,
                 waylandVars>>
Client(A) ==
  /\ part = "client" /\ A
  /\ UNCHANGED <<part, vars, addonVars, listVars, watcherVars, uiVars, kbVars, bufferVars,
                 waylandVars>>
Addons(A) ==
  /\ part = "addons" /\ A
  /\ UNCHANGED <<part, vars, clientVars, listVars, watcherVars, uiVars, kbVars, bufferVars,
                 waylandVars>>
Candidates(A) ==
  /\ part = "candidates" /\ A
  /\ UNCHANGED <<part, vars, clientVars, addonVars, watcherVars, uiVars, kbVars, bufferVars,
                 waylandVars>>
Services(A) ==
  /\ part = "watchers" /\ A
  /\ UNCHANGED <<part, vars, clientVars, addonVars, listVars, uiVars, kbVars, bufferVars,
                 waylandVars>>
Interfaces(A) ==
  /\ part = "ui" /\ A
  /\ UNCHANGED <<part, vars, clientVars, addonVars, listVars, watcherVars, kbVars, bufferVars,
                 waylandVars>>
Keyboard(A) ==
  /\ part = "keyboard" /\ A
  /\ UNCHANGED <<part, vars, clientVars, addonVars, listVars, watcherVars, uiVars, bufferVars,
                 waylandVars>>
Buffer(A) ==
  /\ part = "buffer" /\ A
  /\ UNCHANGED <<part, vars, clientVars, addonVars, listVars, watcherVars, uiVars, kbVars,
                 waylandVars>>

Wayland(A) ==
  /\ part = "wayland" /\ A
  /\ UNCHANGED <<part, vars, clientVars, addonVars, listVars, watcherVars, uiVars, kbVars,
                 bufferVars>>

Parts == {"focus", "client", "addons", "candidates", "watchers", "ui", "keyboard", "buffer",
          "wayland"}

InitAll == \E p \in Parts : StartsIn(p)

NextAll ==
  \/ Focus(Next)
  \/ Keyboard(KbNext)
  \/ Buffer(BufferNext)
  \/ Wayland(WaylandNext)
  \/ Client(ClientNext)
  \/ Addons(AddonNext)
  \/ Candidates(ListNext)
  \/ Services(WatcherNext)
  \/ Interfaces(UINext)

SpecAll == InitAll /\ [][NextAll]_allVars
=============================================================================
