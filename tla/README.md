# A verification of the core of fcitx5

TLA+ models of the core of fcitx5, the checks TLC makes of them and the proofs
TLAPS checks. Paths below are relative to `src/` in the repository's tree (so
`lib/fcitx/instance.cpp` is `src/lib/fcitx/instance.cpp`); every definition
that stands for code is listed with its lines in `PROJECT.json` under `map`.

Contents: [the system](#1-the-system), [the models](#2-the-models),
[the runs](#3-the-runs), [the proofs](#4-the-proofs),
[disagreements and observations](#5-disagreements-and-observations),
[what is not modelled](#6-what-is-not-modelled), [the plan](#7-the-plan).

To repeat a check: `tlc -config MC_Services.cfg MC_Services.tla`, with the
module and configuration of the run; to repeat a proof: `tlapm FocusGroupsProofs.tla`.

## 1. The system

fcitx5 is a daemon between the text fields of applications and the engines that
turn keys into text. Its core runs on the thread of one event loop. A call from a
frontend, with all the watchers and handlers it runs, is atomic with respect to
every other call. What is hard there is not preemption but *order*: one call posts
several events, each with several handlers in phases, each of which changes
state that a later handler reads again; the same fact is kept in several
places; and what was true when a key went down may not be when it comes up.

Beside it there are threads: one that reads from each X11 and Wayland connection,
one that reads what is copied to a Wayland clipboard, and whatever thread an engine
starts. They reach the loop, and the loop reaches them, by an `EventDispatcher`.
And there are other processes, whose answers come late: the bus with its name
owners, the compositor, the service of a virtual keyboard.

```
 clients (D-Bus, IBus, XIM, Wayland)          desktop, D-Bus, configuration tool
        | keys, focus, capabilities                 | groups, current input method
        v                                           v
 frontends --> InputContext --events--> Instance <--signals-- InputMethodManager
     ^             |    ^                |    |                   |
     |             v    |                |    v                   v
     |    FocusGroup  InputState         | engines, addons     profile file
     |    InputContextManager            v
     +-- commits, preedits, keys --  UserInterfaceManager

 reader threads  <== EventDispatcher ==>  event loop  <-- messages --  bus
```

### Components that are modelled

| component | state | operations | correct when |
|---|---|---|---|
| **Focus tracking**: `InputContext`, `FocusGroup`, `InputContextManager` | which contexts exist, which display each belongs to, who has focus (kept four times: pointer of the group, flag of the context, list of the manager, weak reference to the last one) | create and destroy contexts and displays, move a context between displays, focus in and out | the four copies agree; the events say exactly what happened, loss before gain |
| **Groups**: `InputMethodManager`, `InputMethodGroup` | input methods that exist, named groups of them, the order of the groups (first is current), profile file | edit, add, remove, reorder and enumerate groups; save, load, reset, refresh | map and order match; the default is usable; every change of the current group is announced before and after |
| **Switching**: `Instance`, `InputState` | per context: active or not, a local input method, the engine activated last; shared among contexts by policy; capabilities; configuration | focus, toggle, enable, enumerate, choose, capability change, group change, reload | exactly the engine of the input method in use is active, for focused contexts only |
| **Hot keys**: the first key watcher of `Instance` | per context: last key and its handler, whether all was released, pending group, first trigger | press, release, reset | a modifier acts only when typed alone; a held trigger goes through all methods; what the tip names is what is switched to |
| **Blocked events**: `InputContextPrivate`, the key calls of the frontends | queue of events held back while a key is handled, preedit shown last | commit, forward, update the preedit, handle a key, deliver | text reaches the client in the order it was produced; the client's preedit becomes the engine's |
| **Event dispatcher**: `EventDispatcher` | queue behind a mutex, a pipe, what the loop took | attach, detach, schedule, dispatch | what is scheduled while attached runs once, in order, and eventually |
| **Readers**: `WaylandEventReader`, `XCBEventReader`, `DataReaderThread` | flags behind a mutex, two dispatchers each, the library's queue, tasks | read, dispatch, hang up, destroy | announced reads match reads; no event is lost, doubled or late; only the current offer reaches the clipboard; threads end |
| **Addons**: `AddonManager` | loaded, failed, requested addons, the load order | load in passes, request, unload, exit | dependencies live longer; nothing that can be loaded is left out |
| **User interfaces**: `UserInterfaceManager` and its three addons | mode, current one, availability, visibility of the virtual keyboard | load, switch, suspend, resume, service comes and goes | one is active, the best; what is said to be visible is |
| **Candidate lists**: `CommonCandidateList` | words, filter, page, cursor | move, page, insert, remove, replace, filter | walking in one direction visits what can be chosen |
| **Service watcher**: `ServiceWatcher` over sd-bus | watchers of a name, a match, an open question | watch, unwatch, signals, replies | all who watch know the owner |
| **Keyboard engine**: `KeyboardEngineState`, `ComposeState` | buffer, mode, dead keys, candidates, preedit | keys, candidates, reset, loss of focus, change of engine | no text is lost, doubled or reordered |
| **Input buffer**: `InputBuffer` | bytes, sizes, cursor, cached sums | type, erase, place, query | bytes, characters and cursor agree |
| **Wayland keyboard**: `WaylandIMInputContextV2` | notes of (de)activation, keys held on the virtual keyboard, repeat timer | activate, deactivate, done, keymap, press, release, repeat, forward | no key hangs or repeats that the user does not hold |
| **Virtual contexts**: `VirtualInputContextManager` | a context per application behind one text field, who is in front | applications come and go, focus, capabilities | the context in front has the focus and capabilities of the field |

The remaining components (properties, temporary modes, surrounding text, frontends,
modules, configuration, utilities, drawing, tools) are listed in `PROJECT.json` under
`components`, each with its status and the reason where it is not modelled.

### How they interact

* **Calls.** A frontend calls `focusIn`, `focusOut`, `setCapabilityFlags`,
  `keyEvent`, `reset` on its context; the context calls its group, the group
  calls back into contexts, and contexts tell the manager.
* **Events.** `InputContext::setHasFocus` and others post `FocusIn`, `FocusOut`,
  `CapabilityAboutToChange` and so on to `Instance`, whose watchers run in the
  phases *reserved first*, *pre input method*, *input method*, *post input
  method*, *reserved last*. Once the instance is exiting no event is delivered.
* **Signals.** `InputMethodManager` emits `CurrentGroupAboutToChange` and
  `CurrentGroupChanged`, between which the instance must have no engine active.
* **Shared state.** `InputState` is a property that a policy (`No`, `Program`,
  `All`) copies to other contexts, whose engine may have to change with it.
* **Nested checks.** `CheckInputMethodChanged` is an RAII object: it remembers
  the input method of a context, and its destructor posts the switch if that has
  changed. A nested one for the same context is disarmed by the outer one.
* **Functors between threads.** A reader has two dispatchers, one attached to the main
  loop and one to its own; each thread tells the other what to do by scheduling there.
* **Messages.** The service watcher and the user interfaces learn of other processes by
  messages that were true when they were sent.
* **Virtual contexts.** A `WaylandIMInputContextV2` has the real focus and delegates to the
  context of the application in front.

### Behaviours that are hard to test

`PROJECT.json` lists them under `hazards`, each at its line, with the property
that watches it. The recurring ones are: a fact kept in several places by long
sequences of legal calls (focus, groups and their order, the sums of a buffer); *stale* state
read again after it changed (the engine to deactivate is computed anew from five
pieces of state; a pending group is an index; an offer whose data comes when it is
no longer the current one); *ordering* of events (loss before gain, deactivate before the
flags change, commits before forwarded keys); *interleavings* of a thread that schedules with
one that attaches, runs or ends; restarts with another profile and other addons; and
keys that are lost or taken by others between a press and its release.

## 2. The models

| module | models | lines it stands for |
|---|---|---|
| `FocusGroups` | focus tracking | `inputcontext.cpp`, `focusgroup.cpp`, `inputcontextmanager.cpp` |
| `InputMethodGroup` | the default of a group, shared by the next two | `inputmethodgroup.cpp` |
| `InputMethodGroups` | groups, their order, the profile | `inputmethodmanager.cpp`, `instance.cpp` (default groups), `dbusmodule.cpp` (editing) |
| `InputMethodSwitch` | switching; composes `FocusGroups` by `INSTANCE` | `instance.cpp`, `inputcontextmanager.cpp` (propagation) |
| `HotKeys` | key handler; extends `InputMethodSwitch` | `instance.cpp`, `key.cpp`, `imselector.cpp` |
| `TextQueue` | what the way to a client promises of text (abstract) | |
| `ClientEvents` | blocked events of one context; implements `TextQueue` | `inputcontext_p.h`, `inputcontext.cpp`, the frontends |
| `FunctorQueue` | what a dispatcher promises (abstract) | |
| `EventDispatcher` | the dispatcher; implements `FunctorQueue` | `eventdispatcher.cpp`, `event_sdevent.cpp` |
| `WaylandEventReader` | two threads around libwayland | `waylandeventreader.cpp`, `waylandmodule.cpp` |
| `XCBEventReader` | two threads around libxcb | `xcbeventreader.cpp`, `xcbconnection.cpp` |
| `DataReader` | the Wayland clipboard and its thread | `waylandclipboard.cpp` |
| `AddonManager` | loading and unloading of addons | `addonmanager.cpp` |
| `CandidateList` | a list, its pages, filter and cursor | `candidatelist.cpp` |
| `ServiceWatcher` | watchers of one name on the bus | `servicewatcher.cpp`, `handlertable.h`, `bus.cpp` |
| `UserInterfaceManager` | the choice of the UI, the virtual keyboard | `userinterfacemanager.cpp`, `virtualkeyboard.cpp`, `kimpanel.cpp` |
| `KeyboardEngine` | the engine of keyboard layouts | `keyboard.cpp`, `compose.cpp` |
| `InputBuffer` | a buffer of text in bytes and characters | `inputbuffer.cpp` |
| `VirtualContexts` | contexts of applications behind a text field | `virtualinputcontext.cpp` |
| `WaylandKeyboard` | keys of a Wayland text field; extends `VirtualContexts` | `waylandimserverv2.cpp` |
| `Filter` | what `std::erase_if` keeps of a vector, as a recursive function | `inputmethodmanager.cpp`, `inputcontext_p.h`, `candidatelist.cpp` |
| `FilterProofs` | lemmas about `Filter` and about recursion that other proofs use | |
| `FocusGroupsProofs`, `InputMethodGroupsProofs`, `InputMethodSwitchProofs`, `HotKeysProofs` | theorems about the module of that name | |
| `ClientEventsProofs` | theorems about `ClientEvents` and `KeyboardEngine`: the text on its way, and the text that is typed | |
| `ThreadsProofs` | theorems about `EventDispatcher`, `WaylandEventReader`, `XCBEventReader`, `DataReader` | |
| `ServicesProofs` | theorems about `AddonManager`, `UserInterfaceManager`, `ServiceWatcher`, `WaylandKeyboard`, `VirtualContexts`, `InputBuffer`, `CandidateList` | |
| `MC_*` | constants and symmetry of the runs, and modules side by side | |

Definitions named `X_Slip` after a definition `X` are its *mutants*: what `X`
would be with a plausible bug. No action uses them; each belongs to a property
that must fail when it takes the place of `X`.

### FocusGroups

State: `alive` and `displays` are the manager's registries, `group`/`ics` the two
ends of the link between a context and its display, `focus` and `hasFocus` the
two copies of the focus, `focused` the manager's intrusive list, `recent` its weak
reference, `exiting` the flag that stops events, `posted` the events of the last
call in order.

Actions: `Create`, `Destroy`, `FocusIn`, `FocusOut`, `SetFocusGroup`,
`CreateFocusGroup`, `DestroyFocusGroup`, one for each public call. The nested
calls `SetFocusedInputContext`, `SetHasFocus`, `NotifyFocus` are operators that hand on
a record, in the code's order. The destructor of a display runs `setFocusGroup(nullptr)`
for each of its contexts; only the focused one posts events, and no other effect
depends on the order, so they are one update. Not modelled: a watcher of
`FocusOut` that itself moves the focus (the repository has none).

### InputMethodGroups

State: `entries` (what the addons provide), `groups` and `groupOrder` as in the
class, `profile` on disk, `signals` of the last call, and `fault`, which records that
`currentGroup()` looked up a name that is not there.

Actions: the public operations of the manager, plus `Restart`, which stands for any
end of the program, orderly or not: what was not saved is gone, other addons may be
installed, and the profile may be one that somebody edited. `SetInputMethodGroupInfo` is
the D-Bus method, the only caller of `setGroup` that is not building defaults; as in
the code it gives no default and saves. `load` removes unknown items and drops
sections without items or layout; sections of the same name continue each other.

### InputMethodSwitch

State: the variables of `FocusGroups`; the groups in order; for each context and for the
manager's dummy context the `InputState` fields `active`, `localIM`, `lastIM` and `byAlt`;
`opened`, the engines that were activated and not deactivated since (not in the code:
it is what the engines saw); capabilities; last context that lost focus; two options.

`FocusMoves` runs a step of `FocusGroups` and then the handlers of the events it posted, in
order (`Handled`). `InputMethodOf` is `Instance::inputMethod`, evaluated on the state at the
moment the code evaluates it: `SwitchInputMethod(s, who, before)` deactivates what was used in
`before` and activates what is used in `s`, and each path names its own `before`. `Checked` is
`CheckInputMethodChanged`; its `watched` argument says whom an enclosing check already watches.
The manager's operations are taken as `InputMethodGroups` describes them (`GroupsChange`).

Abstracted: an engine's addon loads, and an engine does not call back into the
instance (no `overrideDeactivateIM`). `opened` is a set: that an engine is not
activated twice is not seen. Of the manager's operations those that change which group
is current or what is in it are here. The dummy context never has focus.

### HotKeys

`HotKeys` adds a keyboard (`down`) and the per-context key state to `InputMethodSwitch`. A key is what
it is (`sym`) and the modifiers held. `KeyEvent` is the whole watcher: forget the last press;
serve a release (`Released`); accept a pending group when everything is released
(`Accepted`); serve a press (`Pressed`); and the check of the input method at the end
(`CheckedKey`), unless the accepting of a group has disarmed it. The time limit of
modifier-only keys is the nondeterministic `within`. These hand on a record: the state of the input
methods, the key state of the context, what the watcher set up at the end looks at (`alt`, `ignored`), and the
tip. `SelectorKeyEvent` is a key that the input method selector takes first. `KeyElsewhere` is a key that no context gets.
`Switched` is any step of `InputMethodSwitch`, with the reset that a loss of focus brings.

`pressed`, `tour` and `tip` are history variables for the properties. `tour` follows a trigger key that is held while it
is pressed again, for `TourBound` presses; what another context or anything but keys does to the input methods
ends it. Trigger keys that are modifiers act when they are released and start no tour.

Abstracted: the left and right key of a kind of modifier are one; hot keys that are
key codes; the other watchers in front (quick phrase, clipboard, Unicode) and temporary
modes.

### TextQueue and ClientEvents

State: `blocking`, `blockedEvents`, the preedit of the input panel, `lastEmpty`
(`lastPreeditUpdateIsEmpty_`), the frontend's `batch`, the `channel` to the client, and the
client's `document` and `shown` preedit. Everything that becomes text, the client's own
keys included, is numbered as it is produced, so that order and completeness are
statements about numbers. A key comes in by one of three calls that differ in whether they
block and in when they answer: `ProcessKeyEvent`, the batched one, and XIM. What an engine
does is arbitrary, except that it shows a preedit in the step that changes it.

`TextQueue` is the promise: what is produced goes behind all that was produced before, and the client takes from the
front. Under the refinement mapping the queue is the text in `channel`, `batch` and `blockedEvents`, in this
order (`Unread`). In the code it is in order only because of what is decided elsewhere: that an answer in front of
blocked events has no text to pass, which `HasPendingEventsStrictOrder` sees to, and that merging commits pushes them
out before any other event.

Left out: contexts that end while a key is handled, the filters of outgoing events, the
key that hides the preedit, deletion of surrounding text.

### FunctorQueue and EventDispatcher

`FunctorQueue` is the promise: functors are taken while it is open, and served once, in the
order they came; one whose context is gone is passed over. `EventDispatcher` is the code: the
list behind the mutex (`eventList`), the pipe that wakes the loop up (`pipe`, which holds
something or nothing: writes coalesce), and the list that `dispatchEvent` swapped out and walks
(`running`). An action is what happens under the mutex or in one system call: `Schedule`,
`ScheduleNull`, `Attach`, `Detach`, `Invalidate` (the context of `scheduleWithContext` dies), and
the loop's `ReadPipe`, `Dispatch`, `Run` and `EndDispatch`. Functors may come from
any thread at any of these points.

Left out: the destructor, and attaching twice without detaching.

### WaylandEventReader, XCBEventReader, DataReader

Each models both threads of its component from the constructor to the end of the destructor. An
action is what a thread does between two points where the other one can come in: the mutex, a
wait, a call of the library, a call of a dispatcher. `wlMain`/`wlWorker` and their like say where
each thread is; the two dispatchers of each are queues of functors (what `EventDispatcher` is shown
to be), of which the worker's drops what comes before it is attached.

* `WaylandEventReader`: libwayland wants every reader to announce itself and then to read or
  to cancel; the main thread announces (`DispatchPending`), the worker reads. `HangUp` closes the socket
  at any time, and `Destroy` starts the destructor at any time.
* `XCBEventReader`: waiting for a reply moves events out of the socket into libxcb's own queue,
  of which no file descriptor tells, so each iteration of the main loop ends by waking the reader up
  (`post`). Events are numbered, so that order is a statement about numbers.
* `DataReader`: offers come (`Select`), are replaced and withdrawn at any time; a task asks an
  offer for its mark or its text, and ends, fails or is cancelled in the worker. Nothing is assumed of
  the client that writes: a task may never end by itself.

Left out: flushing of requests, the primary selection (which goes the same way), seats.

### AddonManager

State: what the files say (`catalog`: any dependencies, circular ones too), which addons are known
and failed, `loadOrder`, requests, and where the current pass over the table is. An action is one
iteration of a loop, since what an addon does when it is loaded may request others. `Load` starts the
passes, `LoadAddon` is one step of a pass, `Request` is `addon(name, true)`, `StartUnloading`,
`UnloadNext` and `EndUnloading` are `unload()`, `Exit` is the end of the instance. `settled` says
that the passes have come to an end and nobody asked since.

Left out: the loaders beyond whether an addon works, versions beyond whether it may be used,
`saveAll`, parsing of files; a request between `unload` and `load`.

### CandidateList

State: the words (plain, placeholder, hidden by a filter), the filter, page size, current page,
cursor and the three cursor options. Each operation of `CommonCandidateList` that changes state is an
action. `MoveCursor` translates the walk with its `unsigned` and `int` indexes; `Reached` repeats
it in one direction to ask where it leads.

### ServiceWatcher

One name on the bus. The daemon's side is external: `Serve` takes the next request, and signals
and answers arrive in the order they were sent. The first watcher installs a match and asks for the
owner, later ones join it, the last one removes both. sd-bus waits when a match is installed and
passes over what it read before. The handler table that holds the watchers is `watching`.

### UserInterfaceManager

The manager and the three addons it chooses from. `kimpanel` and the virtual keyboard are
available when a service is on the bus; the service may end, come back or be replaced at any time
(`ServiceChanges`), and the addon is told later (`ServiceTold`). Handlers act on the record of
manager and service together, nested calls in the code's order: a suspended virtual keyboard hides
itself while the manager still has the old UI.

Left out: the queue of updates per context, the registry of actions, drawing.

### KeyboardEngine

One context with the engine's state in a record `kb`, which the operators hand on in the order of
the calls: the buffer, the mode (`Hint` or `LongPress`), dead keys, the state of libxkbcommon's
composing (`fed`, shared between engines), the list, the preedit last shown, and what a call sent to or
removed from the client. `TypeKey` is a key, `Repeat` one of a key that is held, the others are the
hint keys, choosing by key, cursor and mouse, `BackSpace`, `InvokeAction` (a click into the preedit),
reset, loss of focus and change of the engine. `tail` is the character in front of the client's
cursor, which a long press takes back. Texts are sequences over `Characters`, whatever those are; the loops that
type keys again (`typeImpl`, `backspace`) and those over the characters of what was composed are recursive functions of
the number of turns.

Left out: the old behaviour of dead keys, combinations with Ctrl and Alt, the hyphen inside of
words, layouts and the configuration.

### InputBuffer

`buf` has the bytes, the sizes, the cursor in characters, and the cached sums with the first invalid
one, as in the class; `before` and `after` are the text that it should be. A byte is a character
and a number, so that a cut through a character shows. Queries change the cache, so they are
actions (`Look`) too.

### VirtualContexts and WaylandKeyboard

`field` is the manager with the focus of the display, whose other contexts are one, `Elsewhere`.
`monitored` says whether there is anything that tells of applications; without it the parent
context has the focus itself. `UpdateFocus`, `FocusInWrapper`, `FocusOutWrapper` and
`SetCapabilityFlags` are the manager's methods as operators; `WaylandKeyboard` calls them in its actions.

`wl` is the context of version 2 of the protocol: the notes of activation and deactivation that
take effect with `Done`, the grab and its keymap, the virtual keyboard with the keys it holds
down (`down`) and the code's own idea of them (`pressed`), and the timer. A key event may be
handled by the engine, sent as text or sent to the virtual keyboard; which one is arbitrary, except
that an engine takes a release only if it took all that came from the key before. `user` is a history variable.

Assumed of the compositor: a keymap before any key, and no deactivation in one batch with
an activation before it. Left out: version 1, modifiers, a new repeat rate, drawing, surrounding text.

### Modules side by side

`MC_Threads` and `MC_Services` put modules that do not interact side by side. A variable `part` says
which of them moves in a behaviour; the others stay in one of their initial states, so the states of the
parts add up and do not multiply. `MC_GroupScopes` and `MC_SwitchScopes` do the same for several
instances of one module: a *scope* is a choice of names, lists and policies.

## 3. The runs

Twelve runs; five pass, seven show a disagreement (section 5). For each property of a
passing run `PROJECT.json` names a mutant of a mapped definition that breaks it.

| run | configuration | distinct states | properties |
|---|---|---|---|
| `groups` | *items*: 2 names, 3 methods, 4 lists, 3 edited profiles; *order*: 3 names, 1 method | 144 954 | `OrderMatchesGroups` `OffersUsable` `ProfileRoundTrip` `ChangesBracketed` `RingKept` |
| `switch` | *focus*: 2 contexts of a program, 1 display, 2 groups, policy `Program`; *policies*: 2 contexts, no display, every policy, changing; *choices*: 1 context, 3 methods, 2 groups with edited lists | 67 453 (symmetric) | `EnginesFollow` `PasswordsStayWithKeyboard` `ToggleHasEffect` `ChoiceIsUsed` `StateStaysShared` |
| `hot_keys` | 1 modifier that is a hot key alone; group keys with and without it, 3 groups; trigger under the held modifier, 3 methods, lost keys, a selector key | 58 736 | `HeldTriggerVisitsAll` `ModifierAloneActs` `TipIsKept` |
| `threads` | the dispatcher and the three readers | 44 385 | `ReadsMatched` `XOrder` `IsFunctorQueue` `EventuallyServed` `EventsDispatched` `RemovalEnds` `XEventsProcessed` `XRemovalEnds` `OnlyCurrentText` `NoTaskLeft` `ReaderEnds` |
| `services` | focus, client events, addons, candidates, watchers, user interfaces, keyboard engine, buffer, Wayland keyboard | 1 177 201 | `FocusAgrees` `FocusedListExact` `EventsTellFocus` `MostRecentStable` `TextKept` `PreeditSettles` `KeyMeetsPreedit` `DependenciesOutlive` `LoadingCompletes` `CursorWalks` `WatchersKnowOwner` `UIAgrees` `TypedTextKept` `RangesFit` `KeysFollowUser` `DelegateHasFocus` |
| `reset_two_layouts` | 2 keyboard layouts | violation | `CurrentGroupFound` |
| `reload_password` | option changes at run time | violation | `DeactivationAsserted` |
| `single_group_key` | unmodified group and trigger keys | violation | `DeactivationAsserted` |
| `early_destructor` | a reader that is destroyed at once | violation | `DestructorJoins` |
| `optional_dependency` | three addons | violation | `NothingLeftOut` |
| `second_watcher` | two watchers of a name | violation | `EveryoneIsTold` |
| `dead_keys` | a table with a sequence of three keys | violation | `DeadKeysKept` |

What the passing runs show:

* **groups.** The order and the map match through editing, restarts and edited
  profiles; a default is always usable for a toggle; no group offers what no addon
  provides; what the loader accepts survives saving and loading; each change of the current
  group, or inside it, comes with both signals, with the right names. Going through
  the groups turns a ring and never reorders it.
* **switch.** On every path (focus, password and other flags, sharing, enumerating,
  choosing, group changes) the engines follow. `PasswordsStayWithKeyboard` says so for
  password fields: no engine but the keyboard's is active for a field that forbids input
  methods. State that is shared stays shared. The toggle and the choice have the effect their
  descriptions promise.
* **hot_keys.** A modifier acts on release only after its own press; the group shown
  last is the one that is switched to although others reorder and remove groups meanwhile;
  a held trigger reaches every input method, from any state, also after lost releases.
* **threads.** In every interleaving: the dispatcher implements `FunctorQueue` under the refinement
  mapping `waiting <- running \o eventList` (taking the queue in batches while others add to it is
  not seen), and serves what it takes. Each read that is announced to libwayland is read or cancelled
  once; events of an X server are neither lost nor overtaken, although either thread may take them
  out of the socket, and none waits in libxcb's queue for something else to happen. A connection that breaks is
  removed and its thread ends. Only text of the current selection reaches the clipboard, however late
  it is read, a secret never does, and a client that never writes keeps no task alive.
* **services.**
  *Focus:* however contexts gain and lose focus, move between displays and go away with or
  before their display, the copies of the focus agree; replaying the events of
  a call over the focus before it gives the focus after it; whom the instance takes for the most recent
  context changes only for a reason.
  *Client events:* blocked or not, batched or not, text is in order and complete, and a key that goes
  back to the client meets the preedit it was typed to.
  *Addons:* for every choice of dependencies among three, an addon lives only while what it
  depends on does, and passes do not end too soon.
  *Candidates:* walking in either direction comes to all that can be selected and a step back undoes
  a step.
  *Watchers, user interfaces:* once the bus is quiet, who watches knows the owner; one UI is
  active, the best there is, and what is said to be visible is shown by the service that runs now.
  *Keyboard engine, buffer:* no call loses, doubles or moves a character that the user sees;
  bytes, characters and cursor agree under the cache.
  *Wayland keyboard:* no key is held down or repeated that the user does not hold; the context that
  gets the keys has the focus and the capabilities of the field.

### Bounds, and why they are enough

* *Contexts and displays.* A hand-over needs two contexts in one display, a third one shows
  that bystanders are left alone; a second display or none gives contexts focused at the same
  time. The focus part of `services` has three contexts and two displays; its invariants are proved for
  any number. `switch` uses two contexts, since sharing and nested checks relate pairs, and a single
  display or none, which gives one or two focused contexts.
* *Groups and input methods.* Three methods tell *the first*, *the default* and *another* apart; lists
  with a repeated item, of one item and empty ones are among `FewLists` and `SomeLists`. Two groups
  suffice for what relates the current group to another, three (*order*, `hot_keys`) for what depends
  on order.
* *Profiles.* Written by `save`, or one of three edited ones: an order that names a group without
  items; one that misses a group, which stands in two sections; none at all, with a
  section that lacks a layout.
* *Keys.* A modifier and one key used with and without it give each case of the handler; `TourBound = 4`
  is one press more than the group has input methods, which is what `HeldTriggerVisitsAll`
  needs to have a say; the run covers every start, since a press restarts a tour after any
  other event.
* *Client events.* `MaxText = 4` and `MaxPending = 4`: a merge needs two commits, a flush something of
  another kind between them, and a further key has to arrive behind that.
* *Threads.* Three functors, one with a context: one that runs, one taken with it, one that comes
  meanwhile; `AttachBound = 2`, to attach again after a detach. Two events for each reader: one that is
  being read while the next arrives; two replies, so that one comes after the last event; three
  offers, so that one is read, one replaced and one current. The safety properties are proved for any bound.
* *Addons.* Three, every one requiring, liking or ignoring each other, one perhaps on demand, one
  perhaps broken or disabled: a chain, a cycle and two that wait for the same.
* *Candidates.* Up to four words and pages of two or three: a full page, a partial last page, and
  pages that consist of placeholders.
* *Watchers, user interfaces.* Two watchers (the first and one that joins), two owners, and three
  signals or pieces of news on their way, so that a stale one can be followed by two newer.
* *Keyboard engine.* Two letters, of which one has relatives, two dead keys, words of one and two
  characters, and a buffer of three: reached by typing and overrun by a word.
* *Buffer.* A narrow and a wide character, up to four of them: a cut behind, in front of and across
  the cursor.
* *Wayland.* One application, in front or not, and two keys that repeat: one that the timer has
  and another. The proofs are for any applications and keys, also such that do not repeat.

Sizes of the parts of `services`: addons 592 000, client 316 000, Wayland 165 000, candidates
43 000, focus 6 000, keyboard 16 000, buffer 10 000, watchers 7 000, user interfaces 1 000, and
20 458 initial states, most of them catalogs of addons.

### Fairness and deadlock

`threads` checks liveness. Assumed is weak fairness of `Loop` of the dispatcher, and of the steps
of either thread of each reader. It is justified: a thread that can go on is scheduled by the operating
system, and a loop serves a source that is ready. Nothing is assumed of those who schedule
functors, attach or detach, of the compositor or the X server, nor of clients that write
to a pipe. Liveness properties that depend on somebody leaving the thing alone say so: `EventuallyServed`
ends with a detach, `EventsDispatched` with the reader quitting.

In the other runs what must *eventually* happen happens within a call, and the model runs each
call to its end. `PreeditSettles`, `TextKept`, `WatchersKnowOwner` and `UIAgrees` are stated of
the moments when nothing is on its way, so they need no assumption that the client reads or the bus delivers.

Deadlock is checked in `groups`, `switch` and `hot_keys`. In `threads` and `services` it is not: readers end,
and bounded events run out.

## 4. The proofs

All safety properties that a passing run checks, and the refinements of `FunctorQueue` and `TextQueue`, are
theorems: they hold for any contexts, displays, names, lists, keys, addons, watchers, texts and bounds, where the
runs of section 3 try small ones. Columns: theorem, and the property it states.

| module | theorem | property |
|---|---|---|
| `FocusGroupsProofs` | `FocusAgreement` | `FocusAgrees` |
| | `FocusedListIsExact` | `FocusedListExact` |
| | `EventsAreTheFocus` | `EventsTellFocus` (of every step) |
| | `LastUsedIsRemembered` | `MostRecentStable` (of every step) |
| | `InvariantHolds`, `TypeCorrect`, `LinksAgree`, `MostRecentIsSound` | the inductive invariant, and its parts `TypeOK`, `GroupsLinked`, `MostRecentSound` |
| `InputMethodGroupsProofs` | `EveryGroupHasItsPlace` | `OrderMatchesGroups` |
| | `GroupsAreUsable` | `OffersUsable` |
| | `SavingIsLossless` | `ProfileRoundTrip` |
| | `ChangesAreAnnounced` | `ChangesBracketed` (of every step) |
| | `EnumerationTurns` | `RingKept` (of every step) |
| `InputMethodSwitchProofs` | `EnginesAreThoseInUse` | `EnginesFollow`, if `PasswordOptionStays` |
| | `PasswordsReachKeyboardOnly` | `PasswordsStayWithKeyboard`, if `PasswordOptionStays` |
| | `TogglingHasEffect` | `ToggleHasEffect` |
| | `ChosenIsUsed` | `ChoiceIsUsed` |
| | `SharingIsKept` | `StateStaysShared` (of every step) |
| `HotKeysProofs` | `ModifiersActAlone` | `ModifierAloneActs` (of every step) |
| | `TipsAreKept` | `TipIsKept` (of every step) |
| | `TriggerVisitsAll` | `HeldTriggerVisitsAll` |
| `ClientEventsProofs` | `TextKeptAlways` | `TextKept` |
| | `PreeditSettlesAlways` | `PreeditSettles` |
| | `KeyMeetsPreeditAlways` | `KeyMeetsPreedit` (of every step) |
| | `ClientIsTextQueue` | `IsTextQueue`: the way to the client implements `TextQueue` (no run states it) |
| | `TypedTextKeptAlways` | `TypedTextKept` (of every step), if `PairsOnly` |
| | `KeyboardInvariant` | the inductive invariant of `KeyboardEngine`, if `PairsOnly` |
| `ThreadsProofs` | `DispatcherIsQueue` | `IsFunctorQueue`: the dispatcher implements `FunctorQueue` |
| | `ReadsMatchedAlways` | `ReadsMatched` |
| | `XOrderAlways` | `XOrder` |
| | `OnlyCurrentTextAlways` | `OnlyCurrentText` (of every step) |
| `ServicesProofs` | `DependenciesOutliveAlways`, `LoadingCompletesAlways` | `DependenciesOutlive`, `LoadingCompletes` |
| | `UIAgreesAlways` | `UIAgrees` |
| | `WatchersKnowOwnerAlways` | `WatchersKnowOwner` |
| | `KeysFollowUserAlways`, `DelegateHasFocusAlways` | `KeysFollowUser`, `DelegateHasFocus` |
| | `RangesFitAlways` | `RangesFit` |
| | `CursorWalksAlways` | `CursorWalks` |

`FilterProofs` holds what several of them need: `HasLeast` and `LeastWrong` (arguments by a least counterexample),
`RecursionExists` (a recursive function on numbers is what its equation says) and the facts of `Kept`.

### From which assumptions

Each constant has named assumptions in the module that declares it, which TLC evaluates in every run. Most are
typing: bounds are numbers, null is no context, functors with a context are functors. These say more:

* `TableAssumption`: the addon table lists each addon once, as a map does.
* `IsProfile` (`ProfilesAssumption`): an edited profile's order names each group once, and without an order the
  sections that are read have different names; else `setGroupOrder` asserts (`inputmethodmanager.cpp:380`).
* `GroupsAssumption`: the groups at the start of `InputMethodSwitch` are such as a profile can describe; their defaults
  are what `setDefaultInputMethod` leaves.
* `KeysAssumption`: the keys of the selector are no modifiers, as the constraint of its option demands
  (`imselector.h:44`), and a hot key is a key with modifiers of the keyboard.
* `PasswordOptionStays` is a hypothesis of two theorems and not of their modules: the option
  `AllowInputMethodForPassword` does not change. The run `reload_password` shows what happens if it does.
* `WordsAssumption`: no text that is offered for a letter is empty (section 5 says what an empty one would do).
* `PairsOnly` is a hypothesis of the two theorems about `KeyboardEngine` and not of the module: each sequence of the
  compose table is a dead key and one more key, as in the table of the run `services`. Of a longer sequence
  that is broken off, keys are lost: the run `dead_keys` shows it of three dead keys, and a sequence with another key
  in it is swallowed on purpose (`compose.cpp:168`).

### Along which arguments

**Focus.** None of the invariants is inductive alone. `FocusAgrees` needs `GroupsLinked` to know that the context a
group names is one of its own, and `FocusedListExact` to conclude that a context that leaves is alive;
`MostRecentSound` needs `FocusedListExact`, since the reference is set when the list becomes empty.
`IInv` is their conjunction with `TypeOK`. The argument follows the calls: `BooksOK` is the part that the records
handed between nested calls satisfy; lemmas show that `SetHasFocus` keeps it and changes one flag,
that `SetFocusedInputContext` keeps it and moves the focus of one group, and that `TakeFocus` and
`DropFocus` do. For the events the same calls are followed once more: each announces at most one loss and then at
most one gain, and replaying them over the old focus gives the new one.

**Groups.** `GroupsOK` says that the groups are typed, that every default is one that `setDefaultInputMethod` would leave as it is, that the order
has each name of the map once, and that the profile could be loaded. `loadConfig` goes through the sections of a file
one after another; what has been read after each of them is shown to fit by the least section for which it would
not. For the signals, `Brackets` is what a call emits; the nested calls emit none of their own.

**Switching.** The invariant is that of `FocusGroups`, under `INSTANCE`, together with `Typed(Now)`. What the properties say is
`Settled(s, W)`: every context outside of `W` runs the engine of what it uses now. An operation is `Careful` for the
contexts `W` that its caller watches: it leaves everybody else settled, and `W` running what it ran. Careful
operations compose, and a check at the end (`CheckedCloses`) takes contexts out of `W`. Every path is then a composition of
careful steps, closed by the checks that the code makes; the focus handlers are the exception, and have lemmas of their own.

**Hot keys.** `KeysFit` ties the state of a context's keys to its history: a press that may still act is the last thing the
context was told, and the pending index is the place, in the order as it is now, of the group that was shown.
`TourFits` is about the presses of the held trigger: from the first on nothing is due to be accepted and
`totallyReleased_` is false, from the second on `firstTrigger_` is, and then the list turns by one place with each press
(`Turns`, `EnumerateGoesOn`). A release in between changes nothing of that.

**Client events.** `Takes` is what delivering the queue does to the client, written as one pass over the queue. `ClientInv`
says that channel, batch and queue, read one after another, continue the document: their texts are numbered without
a gap, and the last preedit among them is what the client will show, or the panel's. `DeliveredReads` follows
the delivery, by the least event for which it would not hold. The refinement of `TextQueue` comes with it: by `ClientInv`
the unread text is the numbers from the client's last to the last produced (`UnreadIsTheRest`), so it is determined by
these two, and a step that produces one, or after which the client has more, can only be `Produce` or `Take`.

**Keyboard engine.** The property compares what is seen before and after a call, so the invariant `KbInv` says what can
be seen together. At most one dead key waits, and libxkbcommon knows of it unless another engine has reset
it; a long press offers for a key that was typed, and no dead key waits then; words are offered for a buffer that is
not empty; a held key was typed last, so that it is the end of the buffer or of the client's text; and the panel
shows the preedit unless the last call was no key. Each helper of the engine then has a lemma that says what it makes of
the text that is sent followed by the text that waits (`CommitBuffer` and `UpdateBuffer` keep it, with or without room
in the buffer, `ResetState` drops what waits), and a call is a composition of them. With one dead key at most, the
recursive functions of `TypeImpl` and of `backspace` are unfolded once.

**Dispatcher.** The step that could break the refinement is the swap, which forgets what was in
`running`. `TakesWhenDone` says that nothing is left in it then, so the swap is a stutter; running the
head is the abstract `Serve`, scheduling the abstract `Take`, detaching the abstract closing.

**Wayland reader.** The reason is a baton: at any time it is a functor on its way to
the main thread, or with the main thread while it dispatches, or the flag `isReading_`, or with the
worker while it reads; or it was dropped. `OneBaton` says so, and `QuitFirst` that the main thread
never has it again once the reader quits.

**X reader.** `PlacesInv`: five sequences in a row, from what was processed to the socket, hold the
numbers of the events in order. Each step takes from the front of one and adds to the end
of the next (`MoveOne`, `AppendLast`, and one lemma for each kind of step).

**Clipboard.** Whether text may reach the clipboard is decided when it is asked for, two threads
earlier. `OfferInv` follows each task from the queue of the reader through the tasks to the queue of the main
thread: what is asked suits the kind of the offer, and a current offer was not received before.

**Addons.** `DependenciesOutlive` speaks of what is loaded; `Outlived` of what can still be: what an addon
can do without and did not find when it was loaded has failed, and failures stay. For `LoadingCompletes`, `Waits` says
why an addon that a pass went by is not loaded, and `PassInv` that it still holds unless the pass has changed something,
in which case there is another one.

**User interfaces.** `UIInv`: the one that is in use is the best of those that were available when they were last
looked at (`Chosen`), and what the addons know of the services is true or else news of it is on its way
(`NewsAreTrue`, `Informed`).

**Watchers.** `Truthful`: the last of what is on its way tells the present owner; `Knows`: what a watcher was told last is
what was read last, or an answer is still to come.

**Wayland keyboard.** `Noted`: every repeating key that is down is in `pressedVKKey_`, from which a
deactivation releases. `TakenIsUp`: a key all of whose presses the engine took is not down, so the engine may
take its release as well. For the focus, `Sound` is the property of any state that the manager's methods pass
through; `UpdateSound` says that `updateFocus` repairs whatever it finds, which is
all that is needed of the applications.

**Buffer.** `BufferInv`: the bytes are those of the text that the buffer should hold (`BytesOf`), and the cached sums are the
places of its characters as far as they are valid (`CacheFits`). Typing and erasing are statements
about texts in two halves (`PlaceInBoth`, `ErasedHalves`); a query that fills the cache (`EnsureFacts`) leaves no sum
wrong, by the least one that would be.

**Candidates.** What the list is at the time is of no account beyond the types; the property is about the walks. A stride
keeps to the rotation of its page (`StrideFacts`), so a move, which stops at a place it has been at, stops before it runs
out of places: as many as there are cannot all be different (`WalkFacts`). A stride is taken back by one in
the other direction (`StrideBack`), hence so is a move from a candidate (`StepBack`). A move comes nearer to each
candidate that it does not reach (`Far`, `MoveNearer`), so that going on comes to all.

### Only model-checked

* *Liveness:* `EventuallyServed`, `EventsDispatched`, `RemovalEnds`, `XEventsProcessed`, `XRemovalEnds`, `NoTaskLeft` and
  `ReaderEnds`. The prover knows neither fairness nor `ENABLED`.
* `TypedTextKept` with compose sequences of more than two keys: what keys that are typed again compose is an induction
  over the sequence. The violation of `dead_keys` is with such a table.

The prover cannot instantiate the induction theorems of its library, whose parameter is an operator.
Recursion is therefore written as recursive functions, and what they compute is proved by a least counterexample;
folds and `SelectSeq`, which the code's loops over vectors would suggest, are replaced by those where
a theorem needs them (`Filter`, the loader of the profile, the delivery of the client's queue).

## 5. Disagreements and observations

Seven runs end in a violation, each of something the code, its header or a comment states:

* `reset_two_layouts`: `InputMethodManager::reset` clears the groups but not their order, so while
  it builds one group for each layout `currentGroup()` looks up a name that is gone.
* `reload_password`: `reloadConfig` changes what `inputMethod()` answers for a focused password field and
  switches no engine; the assertion in `deactivateInputMethod` fails at the next loss of focus.
* `single_group_key`: accepting a pending group disarms the check of the event, which then serves a
  trigger key in the same event; the engine is not switched. `hot_keys` therefore uses keys that do not
  overlap in this way. A lost release with overlapping keys comes to the same.
* `early_destructor`: "The destructor will join the reader thread so it's ok", but a destructor that
  comes before the worker has attached its dispatcher tells nobody to end and joins for ever. `RemovalEnds`
  excludes it by the history variable `unheard`. `XCBEventReader` has the same hole (`xcbeventreader.cpp:43`),
  excluded by `missed`.
* `optional_dependency`: an addon that waits for an optional one, which then fails in the last pass that
  changes something, is not considered again.
* `second_watcher`: "this will also initiate a GetNameOwner call" holds for the first watcher of a name only; a
  second one that joins when the answer is there is told nothing until the owner changes.
* `dead_keys`: when three dead keys fail to match, the first becomes text and the others are typed
  again, which loses one and doubles another if the second attempt fails too.

Observations made while modelling, without a run of their own. Where a property leaves a case out, it is
one of these.

*Groups, switching, hot keys*

* A profile whose order names a group twice fails the assertion at `inputmethodmanager.cpp:380`. The
  edited profiles of the runs name each group once.
* A focused context outside of any display that is destroyed gets no `FocusOut`, and its engine
  no `deactivate` (`inputcontext.cpp:109`); `EventsTellFocus` names this exception.
* `setCurrentInputMethod(ic, name, local)` with `local` is documented "only for this input context"
  (`instance.h:416`), but the local input method is part of what a policy shares.
* If the local input method is the first of a group entered later, toggling has no effect: `ToggleHasEffect` excludes it.
* A key that the input method selector takes between the press and the release of a modifier does not
  stop the modifier from acting, as `ModifierAloneActs` would demand (the
  test of the property, `testinstance.cpp:155`, types a key nobody takes).
* The mark left by the alternative trigger key is set for focused contexts only (`instance.cpp:1251`), so
  it is stale in a context that the key turned off through shared state.
* The trigger key goes on from the place of the current input method in the list. In a list that has one twice
  (a profile may) it goes from the first place each time and never comes past the second; `HeldTriggerVisitsAll` excludes such lists.
* A trigger key that is a modifier acts on its release, after which everything is released: holding it
  enumerates nothing. `HeldTriggerVisitsAll` is about trigger keys with modifiers.
* `activateInputMethod` records `lastIM_` before it finds out that the engine's addon cannot be loaded.
* `Instance::addonForInputMethod` returns the unique name of the input method (`instance.cpp:2041`), though
  its header says "Return the addon name of given input method" (`instance.h:378`).

*Threads*

* `detach()` keeps the queue, and attaching again does not wake the loop up, so what is left waits for the
  next `schedule`. Functors that were taken run even after a detach. Attaching twice loses a wake-up.
* `schedule(nullptr)` on a dispatcher that is not attached dereferences a null `asyncEvent_`.
* The X reader can miss its first wake-up: the post event may come before the worker has attached, and
  an event in libxcb's queue then waits for the next iteration of the main loop (`missed`).
* A task asked of the clipboard's reader before the worker attaches is dropped.

*Addons, watchers, user interfaces*

* `unload()` keeps addons that were never loaded, although `addonmanager.h` says that all information is
  cleared. A request between `unload` and `load` could load an addon before an optional dependency.
* The libdbus backend hears signals that were read before a match was installed (in `ServiceWatcher` the mutant
  `Heard_Earlier`). The handler of the reply erases the slot of its question, which would be the new one if a callback
  removed and re-added the last watcher. Errors other than `NameHasNoOwner` tell nobody.
  `libdbus/servicenamecache.cpp:40` erases `newName` where it means the service.
* The iterator of a handler table's view is constructed with `&&` for `||`, harmlessly.
* If the service of the virtual keyboard ends in on-screen mode no UI is valid, and nothing returns to the
  real keyboard's mode until it is back. `flush()` walks the list of updates while handlers may
  add to it. Registering an action twice leaves a dangling entry.

*Candidates, buffer*

* `clear()` leaves the current page, which may then be beyond the list ("This means a bug",
  `candidatelist.cpp:416`); no caller uses a cleared list again. `fixAfterUpdate` on an empty list
  leaves the cursor at 0.
* With the option to select nothing and several pages, walking past the end goes on with the last page and never comes
  to the earlier ones; a cursor on another page can stop the walk. `CursorWalks` excludes both.
* `InputBuffer::setCursor` (`inputbuffer.cpp:144`) checks the old cursor instead of the argument.

*Keyboard engine* (the cases that `TypedTextKept` leaves out)

* BackSpace in long press with text in the buffer doubles the buffer.
* A key that makes a chosen word too long for the buffer is lost, and if it repeats it takes back a
  character that it never typed.
* After a dead key in long press the list stays, and choosing from it adds instead of replacing.
* A held key that ended a sequence of dead keys takes back the composed character and offers relatives
  of the plain letter. A reset during a long press makes the next repeat delete another character.
* `LongPressCandidateWord::select` by the mouse with hints turned on does not set the preedit, and a click into
  the preedit or a change of the engine commits without updating it, so a loss of focus afterwards loses or doubles text,
  though `deactivate` says "When client get unfocused, the framework will try to commit the string". Pending dead keys
  stay.
* The configured texts of a long press are taken as they are (`longpress.cpp:158`). With an empty one under the cursor
  the next key finds nothing to commit and does not leave the mode, so that the text that was to be replaced comes
  back. `WordsAssumption` excludes it.
* The composing state is shared by all engines of a context: what it was fed may not be what this engine shows (`fed`).

*Wayland*

* With a persistent virtual keyboard and no monitor of applications, a key that is held when another context
  takes the focus before the field is deactivated gets no release: the loop at "If last key to vk is press, send a release"
  runs only with the real focus. `KeysFollowUser` excludes it by `user.left`.
* `pressedVKKey_` is not cleared when the virtual keyboard is replaced, which makes a superfluous release later. The
  timer goes on across an activation without a deactivation.
* A batch that activates and then deactivates would end active. A keymap that fails to compile keeps a state
  with no keymap.

## 6. What is not modelled

* *Pure input and output, conversion and drawing:* files, logging, D-Bus marshalling, the parser of the
  configuration, key tables, spelling, emoji, the classic user interface, themes, tools. No state
  the rest depends on, or functions that unit tests cover. Most of the repository's lines are of this kind
  (the tables of keysyms alone are over ten thousand), and so the models stand for a small share of its lines.
* *Third-party behaviour:* the event loops, XIM, libxcb, libwayland and D-Bus libraries. The models take from them
  that callbacks of a loop run one at a time on its thread, that messages to one client stay in order, and what is
  said of the libraries with each model; definitions for it are marked external in `map`.
* *Within modelled components:* listed with each model in section 2, and in the notes of `components`.
* *Not yet:* the components of section 7.

## 7. The plan

Done: focus and its proofs; groups; switching; hot keys; client events; the dispatcher with its abstract queue and
refinement, and that of the text on its way to a client; the readers of X11, Wayland and the clipboard with liveness; addons; candidate lists; the service
watcher; user interfaces; the keyboard engine and its buffer; the Wayland keyboard with virtual contexts; the
proofs of section 4, which cover every safety property of the passing runs.

Left, in order of what matters most:

1. *More abstract specifications, and the proofs that they are implemented.* For `FocusGroups` a register per display
   that holds a context or none; for the X11 reader and the clipboard a queue from socket to handler.
2. `PropertySlots`: slots of all contexts under registration and removal of factories.
3. `TempModeManager`, with hot keys: which mode handles a key first.
4. `SurroundingText`: cursor and anchor after deletions; the deletion of surrounding text in `ClientEvents`.
5. The queue of updates in `UserInterfaceManager`; a handler table changed by the handlers that it runs.
6. Key repeat of version 1 of the Wayland protocol, the clipboard's history, the key grabs of X11, ownership of the
   bus name.

The number of runs is kept at a dozen. Where a new module needs one, it joins `threads` or `services` as
a further part.
