------------------------- MODULE UserInterfaceManager -------------------------
(***************************************************************************)
(* UserInterfaceManager with the addons it chooses from: two that show the  *)
(* input panel next to a real keyboard, one of which needs the panel of the *)
(* desktop, and the virtual keyboard, which needs a service on the bus.     *)
(* The service may end, come back or be replaced at any time, and the addon *)
(* is told of it later; what the addon sends goes to whoever has the name.  *)
(***************************************************************************)
EXTENDS Naturals, Sequences, Filter

CONSTANTS
  Preferences,   \* what load() may leave in uis_
  MaxNews        \* bound on what waits to be read from the bus

UserInterfaces == {"classicui", "kimpanel", "virtualkeyboard"}
NoUI == "none"

ASSUME PreferenceAssumption == Preferences \subseteq Seq(UserInterfaces)

VARIABLES
  uis,        \* uis_, which load() sets, and how instance and addons stand:
  manager,    \* mode, ui_ and isVirtualKeyboardVisible_, available_ of the addons,
              \* visible_ of the virtual keyboard, and the addons not suspended
  autoShow,   \* virtualKeyboardAutoShow_
  service,    \* the virtual keyboard's service: "absent", "hidden" or "shown"
  news        \* on the way to the addon: whether the name has an owner

uiVars == <<uis, manager, autoShow, service, news>>

ModeOf(ui) == IF ui = "virtualkeyboard" THEN "OnScreenKeyboard" ELSE "PhysicalKeyboard"

\* Handlers act on the manager and the service together.
UINow == [m |-> manager, s |-> service]
Becomes(now) == manager' = now.m /\ service' = now.s

UIInit ==
  /\ uis = <<>>
  /\ manager = [mode |-> "PhysicalKeyboard", ui |-> NoUI, flag |-> FALSE,
                available |-> {"classicui"}, visible |-> FALSE, resumed |-> {}]
  /\ autoShow \in BOOLEAN
  /\ service = "absent"
  /\ news = <<>>

-----------------------------------------------------------------------------

\* updateVirtualKeyboardVisibility
UpdateVisibility(now) ==
  [now EXCEPT !.m.flag = now.m.ui = "virtualkeyboard" /\ now.m.visible]

\* setVisible of the virtual keyboard.
SetVisible(now, visible) ==
  IF now.m.visible = visible THEN now
  ELSE UpdateVisibility([now EXCEPT !.m.visible = visible])

\* showVirtualKeyboard and hideVirtualKeyboard of the addon, with the message.
Show(now) ==
  IF "virtualkeyboard" \notin now.m.available THEN now
  ELSE [SetVisible(now, TRUE) EXCEPT !.s = IF @ = "absent" THEN @ ELSE "shown"]

Hide(now) ==
  IF "virtualkeyboard" \notin now.m.available THEN now
  ELSE [SetVisible(now, FALSE) EXCEPT !.s = IF @ = "absent" THEN @ ELSE "hidden"]

\* The suspended virtual keyboard hides, while the manager still has the old UI.
Suspend(now, ui) ==
  LET off == [now EXCEPT !.m.resumed = @ \ {ui}]
  IN  IF ui = "virtualkeyboard" THEN Hide(off) ELSE off

Valid(m, ui) == ui \in m.available /\ ModeOf(ui) = m.mode

\* The first valid UI in the order of uis_.
BestUI(m, order) ==
  LET valid == Kept(order, {ui \in UserInterfaces : Valid(m, ui)})
  IN  IF valid = <<>> THEN NoUI ELSE Head(valid)

UpdateAvailability(now, order) ==
  LET newUI == BestUI(now.m, order)
      switched == IF newUI = now.m.ui THEN now
                  ELSE LET off == Suspend(now, now.m.ui)
                       IN  [off EXCEPT !.m.resumed = (@ \cup {newUI}) \ {NoUI},
                                       !.m.ui = newUI]
  IN  UpdateVisibility(switched)

\* setInputMethodMode, and the manager's watcher of its event.
SetMode(now, mode) ==
  IF now.m.mode = mode THEN now
  ELSE UpdateAvailability([now EXCEPT !.m.mode = mode], uis)

\* setAvailable of an addon.
SetAvailable(now, ui, available) ==
  IF available = (ui \in now.m.available) THEN now
  ELSE UpdateAvailability(
         [now EXCEPT !.m.available = IF available THEN @ \cup {ui} ELSE @ \ {ui}], uis)

-----------------------------------------------------------------------------

\* load(), with the UI that the options name, or with all by priority.
LoadUI ==
  \E order \in Preferences :
    /\ uis' = order
    /\ Becomes(UpdateAvailability(UINow, order))
    /\ UNCHANGED <<autoShow, news>>

\* The panel of the desktop comes or goes.
PanelChanges ==
  \E available \in BOOLEAN :
    /\ Becomes(SetAvailable(UINow, "kimpanel", available))
    /\ UNCHANGED <<uis, autoShow, news>>

\* The service starts, is replaced, or ends.
ServiceChanges ==
  /\ Len(news) < MaxNews
  /\ \E owned \in BOOLEAN :
       /\ owned \/ service # "absent"
       /\ service' = IF owned THEN "hidden" ELSE "absent"
       /\ news' = Append(news, owned)
  /\ UNCHANGED <<uis, manager, autoShow>>

\* Mutant of ServiceTold: the new service is taken to be where the old one was.
ServiceTold_KeepsVisible ==
  /\ news # <<>>
  /\ news' = Tail(news)
  /\ Becomes(SetAvailable(UINow, "virtualkeyboard", Head(news)))
  /\ UNCHANGED <<uis, autoShow>>

\* The watcher of the service's name.
ServiceTold ==
  /\ news # <<>>
  /\ news' = Tail(news)
  /\ Becomes(SetVisible(SetAvailable(UINow, "virtualkeyboard", Head(news)), FALSE))
  /\ UNCHANGED <<uis, autoShow>>

\* showVirtualKeyboard and hideVirtualKeyboard of the manager, for a context that
\* gets or loses focus or whose client asks.
ContextAsks ==
  \E show \in BOOLEAN :
    /\ manager.ui = "virtualkeyboard" /\ (show => autoShow)
    /\ Becomes(IF show THEN Show(UINow) ELSE Hide(UINow))
    /\ UNCHANGED <<uis, autoShow, news>>

\* The methods of the service fcitx offers; toggling is one or the other.
ForceKeyboard ==
  \E show \in BOOLEAN :
    /\ "virtualkeyboard" \in manager.available
    /\ Becomes(IF show THEN Show(SetMode(UINow, "OnScreenKeyboard"))
               ELSE IF autoShow THEN Hide(UINow)
               ELSE SetMode(Hide(UINow), "PhysicalKeyboard"))
    /\ UNCHANGED <<uis, autoShow, news>>

\* A key from a real keyboard, which the virtual keyboard watches for while it is
\* the UI.
RealKey ==
  /\ "virtualkeyboard" \in manager.resumed
  /\ Becomes(SetMode(UINow, "PhysicalKeyboard"))
  /\ UNCHANGED <<uis, autoShow, news>>

UINext ==
  \/ LoadUI \/ PanelChanges \/ ServiceChanges \/ ServiceTold
  \/ ContextAsks \/ ForceKeyboard \/ RealKey

UISpec == UIInit /\ [][UINext]_uiVars

-----------------------------------------------------------------------------

\* Whatever comes and goes, one UI at most is not suspended, the one that the
\* manager updates, and it is the best there is; and once the news are read, what
\* the manager says to be visible is shown by the service that runs now.
UIAgrees ==
  /\ manager.resumed = {manager.ui} \ {NoUI}
  /\ manager.ui = BestUI(manager, uis)
  /\ news = <<>> /\ manager.flag => service = "shown"
=============================================================================
