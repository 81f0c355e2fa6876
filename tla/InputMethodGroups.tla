-------------------------- MODULE InputMethodGroups --------------------------
(***************************************************************************)
(* InputMethodManager: the input methods that exist, the groups a user has *)
(* put them in, the order of the groups (the first is the current one) and *)
(* the profile file that keeps the groups between two runs of fcitx.       *)
(*                                                                         *)
(* The layout a group may give to one of its items is left out: nothing    *)
(* here reads it.  A keyboard layout ("us") and the input method that      *)
(* stands for it ("keyboard-us") are one value.                            *)
(***************************************************************************)
EXTENDS InputMethodGroup, FiniteSets, SequencesExt, Filter

CONSTANTS
  GroupName,     \* names of groups
  InputMethod,   \* unique names of input methods
  Keyboard,      \* those that stand for a keyboard layout, and the layouts
  KeyboardUs,    \* "keyboard-us" and "us", which the code falls back to
  Lists,         \* the lists of input methods a client may ask for
  Layouts,       \* the sequences of layouts a desktop may be set up with
  Preferred,     \* DefaultInputMethod of the user's language
  DefaultName,   \* "Default"
  NumberedName,  \* "Group 1", "Group 2", ...
  HandWritten,   \* profiles that were not written by save
  MaxGroups      \* bound on the number of groups

ASSUME NoneAssumption == None \notin GroupName \cup InputMethod
ASSUME KeyboardAssumption == KeyboardUs \in Keyboard /\ Keyboard \subseteq InputMethod
ASSUME ListsAssumption ==
  Lists \subseteq Seq(InputMethod) /\ Preferred \in Seq(InputMethod)
ASSUME LayoutsAssumption ==
  \A layouts \in Layouts :
    /\ layouts \in Seq(Keyboard)
    /\ \A i, j \in DOMAIN layouts : layouts[i] = layouts[j] => i = j
    /\ Len(layouts) <= Len(NumberedName)
ASSUME NamesAssumption ==
  /\ DefaultName \in GroupName /\ NumberedName \in Seq(GroupName)
  /\ \A i, j \in DOMAIN NumberedName : NumberedName[i] = NumberedName[j] => i = j

\* What a profile can say; an order that names a group twice, and a profile without
\* an order in which two sections that are read have the same name, end at the
\* assertion of setGroupOrder.
IsProfile(file) ==
  /\ file \in [order : Seq(GroupName),
               sections : Seq([name : GroupName, list : Seq(InputMethod),
                               default : InputMethod \cup {None},
                               layout : Keyboard \cup {None}])]
  /\ \A i, j \in DOMAIN file.order : file.order[i] = file.order[j] => i = j
  /\ file.order = <<>> =>
       \A i, j \in DOMAIN file.sections :
         /\ file.sections[i].name = file.sections[j].name
         /\ file.sections[i].layout # None /\ file.sections[j].layout # None
         => i = j

ASSUME ProfilesAssumption == \A file \in HandWritten : IsProfile(file)

VARIABLES
  entries,     \* entries_: the input methods that some addon provides
  groups,      \* groups_, from names to [list, default, layout]
  groupOrder,  \* groupOrder_
  profile,     \* the profile on disk: its group order and its sections
  signals,     \* the signals of the last call, in order
  fault        \* currentGroup() has dereferenced the end of groups_

vars == <<entries, groups, groupOrder, profile, signals, fault>>

CurrentGroup == groups[Head(groupOrder)]

AboutToChange(name) == <<"CurrentGroupAboutToChange", name>>
Changed(name) == <<"CurrentGroupChanged", name>>

Known(list, known) == Kept(list, known)

\* Mutant of Revised: the list is not filtered.
Revised_Unfiltered(g, list, layout) ==
  [list |-> list, layout |-> layout, default |-> Normalized(list, g.default)]

\* InputMethodManager::setGroup, for a new value that names no default.
Revised(g, list, layout) ==
  LET kept == Known(list, entries)
  IN  [list |-> kept, layout |-> layout,
       default |-> Normalized(kept, g.default)]

WithGroup(gs, name, g) ==
  [n \in DOMAIN gs \cup {name} |-> IF n = name THEN g ELSE gs[n]]

WithoutGroup(gs, name) == [n \in DOMAIN gs \ {name} |-> gs[n]]

(***************************************************************************)
(* InputMethodManagerPrivate::setGroupOrder.  The groups that order does   *)
(* not name follow in the order of an unordered map.                       *)
(***************************************************************************)
Orders(gs, order) ==
  {Kept(order, DOMAIN gs) \o rest :
     rest \in SetToSeqs(DOMAIN gs \ ToSet(order))}

(***************************************************************************)
(* InstancePrivate::buildDefaultGroup: a group for each layout of the      *)
(* desktop that some input method stands for, holding that one and the     *)
(* first input method of the language that exists.                         *)
(***************************************************************************)
UsableLayouts(layouts, known) ==
  IF Known(layouts, known) = <<>> THEN <<KeyboardUs>> ELSE Known(layouts, known)

BuiltNames(layouts, known) ==
  LET usable == UsableLayouts(layouts, known)
  IN  IF Len(usable) = 1 THEN <<DefaultName>>
      ELSE SubSeq(NumberedName, 1, Len(usable))

Built(layouts, known) ==
  LET names == BuiltNames(layouts, known)
      extra == Known(Preferred, known)
  IN  [n \in ToSet(names) |->
         LET layout == UsableLayouts(layouts, known)[CHOOSE i \in DOMAIN names :
                                                       names[i] = n]
             list == IF extra = <<>> THEN <<layout>>
                     ELSE <<layout, Head(extra)>>
             kept == Known(list, known)
         IN  [list |-> kept, default |-> Normalized(kept, None),
              layout |-> layout]]

(***************************************************************************)
(* The groups are added one by one, and addEmptyGroup looks up the current *)
(* group as soon as there is one.  groups_ was cleared before, but not     *)
(* groupOrder_, whose first name may belong to no group any more.          *)
(***************************************************************************)
LooksUpMissingGroup(names, order) ==
  \E i \in 2..Len(names) :
    Head(order \o names) \notin ToSet(SubSeq(names, 1, i - 1))

\* Mutant of WithSection: the default is set before the items are read.
WithSection_DefaultFirst(gs, section, known) ==
  LET before == IF section.name \in DOMAIN gs THEN gs[section.name].list
                                              ELSE <<>>
      list == before \o Known(section.list, known)
  IN  IF section.layout = None THEN gs
      ELSE IF list = <<>> THEN WithoutGroup(gs, section.name)
      ELSE WithGroup(gs, section.name,
                     [list |-> list, layout |-> section.layout,
                      default |-> Normalized(before, section.default)])

(***************************************************************************)
(* InputMethodManagerPrivate::loadConfig: what one section of the profile  *)
(* adds to the groups read before it.                                      *)
(***************************************************************************)
WithSection(gs, section, known) ==
  LET before == IF section.name \in DOMAIN gs THEN gs[section.name].list
                                              ELSE <<>>
      list == before \o Known(section.list, known)
  IN  IF section.layout = None THEN gs
      ELSE IF list = <<>> THEN WithoutGroup(gs, section.name)
      ELSE WithGroup(gs, section.name,
                     [list |-> list, layout |-> section.layout,
                      default |-> Normalized(list, section.default)])

LoadedGroups(file, known) ==
  LET read[n \in 0..Len(file.sections)] ==
        IF n = 0 THEN [name \in {} |-> None]
        ELSE WithSection(read[n - 1], file.sections[n], known)
  IN  read[Len(file.sections)]

\* Those that are read: a section without a layout is left out.
SectionsIn(file) ==
  {section \in ToSet(file.sections) : section.layout # None}

LoadedOrders(file, gs) ==
  Orders(gs, IF file.order # <<>> THEN file.order
             ELSE LET named == Kept(file.sections, SectionsIn(file))
                  IN  [i \in DOMAIN named |-> named[i].name])

\* InputMethodManager::save
Saved(gs, order) ==
  [order |-> order,
   sections |-> [i \in DOMAIN order |->
                   [name |-> order[i], list |-> gs[order[i]].list,
                    default |-> gs[order[i]].default,
                    layout |-> gs[order[i]].layout]]]

-----------------------------------------------------------------------------

\* InputMethodManager::load, at the start of the program.
LoadFrom(file, known) ==
  /\ entries' = known
  /\ fault' = FALSE
  /\ LET read == LoadedGroups(file, known)
     IN  IF DOMAIN read # {}
         THEN groups' = read /\ groupOrder' \in LoadedOrders(file, read)
         ELSE \E layouts \in Layouts :
                /\ groups' = Built(layouts, known)
                /\ groupOrder' = BuiltNames(layouts, known)
  /\ signals' = <<AboutToChange(None), Changed(Head(groupOrder'))>>

Empty == [order |-> <<>>, sections |-> <<>>]

Init ==
  /\ entries \in {known \in SUBSET InputMethod : KeyboardUs \in known}
  /\ \E layouts \in Layouts :
       /\ groups = Built(layouts, entries)
       /\ groupOrder = BuiltNames(layouts, entries)
  /\ profile = Empty
  /\ signals = <<AboutToChange(None), Changed(Head(groupOrder))>>
  /\ fault = FALSE

(***************************************************************************)
(* The program ends, in order or not, and starts again, perhaps with other *)
(* addons and with a profile that somebody else has written.  What was not *)
(* saved is lost.                                                          *)
(***************************************************************************)
Restart ==
  \E known \in SUBSET InputMethod, file \in {profile} \cup HandWritten :
    /\ KeyboardUs \in known
    /\ profile' = file
    /\ LoadFrom(file, known)

Save ==
  /\ profile' = Saved(groups, groupOrder)
  /\ signals' = <<>>
  /\ UNCHANGED <<entries, groups, groupOrder, fault>>

\* InputMethodManager::refresh: entries are added, never taken away.
Refresh ==
  /\ \E known \in SUBSET InputMethod :
       entries \subseteq known /\ entries' = known
  /\ signals' = <<>>
  /\ UNCHANGED <<groups, groupOrder, profile, fault>>

(***************************************************************************)
(* InputMethodManager::reset.  What currentGroup() reads by mistake is     *)
(* overwritten by the next call, if the program survives reading it; if    *)
(* not, the next step is Restart.                                          *)
(***************************************************************************)
Reset ==
  \E layouts \in Layouts :
    /\ groups' = Built(layouts, entries)
    /\ groupOrder' = BuiltNames(layouts, entries)
    /\ fault' = (fault \/ LooksUpMissingGroup(groupOrder', groupOrder))
    /\ signals' = <<AboutToChange(Head(groupOrder)), Changed(Head(groupOrder'))>>
    /\ UNCHANGED <<entries, profile>>

\* groupOrder_.remove(name)
WithoutName(order, name) == Kept(order, GroupName \ {name})

\* What setCurrentGroup and the enumerations have in common.
MoveTo(order) ==
  /\ groupOrder' = order
  /\ signals' = <<AboutToChange(Head(groupOrder)), Changed(Head(order))>>
  /\ UNCHANGED <<entries, groups, profile, fault>>

SetCurrentGroup(name) ==
  /\ name \in ToSet(groupOrder)
  /\ name # Head(groupOrder)
  /\ MoveTo(<<name>> \o WithoutName(groupOrder, name))

\* Mutant of EnumerateGroupTo: only the one group is moved.
EnumerateGroupTo_MovesOne(name) ==
  /\ name \in ToSet(groupOrder)
  /\ name # Head(groupOrder)
  /\ MoveTo(<<name>> \o WithoutName(groupOrder, name))

EnumerateGroupTo(name) ==
  \E i \in 2..Len(groupOrder) :
    /\ groupOrder[i] = name
    /\ \A j \in 1..(i - 1) : groupOrder[j] # name
    /\ MoveTo(SubSeq(groupOrder, i, Len(groupOrder))
              \o SubSeq(groupOrder, 1, i - 1))

EnumerateGroup(forward) ==
  /\ Len(groupOrder) > 1
  /\ MoveTo(IF forward THEN Tail(groupOrder) \o <<Head(groupOrder)>>
            ELSE <<Last(groupOrder)>> \o Front(groupOrder))

SetDefaultInputMethod(im) ==
  /\ groups' = [groups EXCEPT ![Head(groupOrder)].default =
                  Normalized(CurrentGroup.list, im)]
  /\ signals' = <<>>
  /\ UNCHANGED <<entries, groupOrder, profile, fault>>

\* Mutant of SetInputMethodGroupInfo: only a change of another group is announced.
SetInputMethodGroupInfo_Silent(name, list, layout) ==
  /\ name \in DOMAIN groups
  /\ groups' = [groups EXCEPT ![name] = Revised(@, list, layout)]
  /\ profile' = Saved(groups', groupOrder)
  /\ signals' = IF name # Head(groupOrder)
                THEN <<AboutToChange(name), Changed(name)>> ELSE <<>>
  /\ UNCHANGED <<entries, groupOrder, fault>>

(***************************************************************************)
(* The D-Bus method of this name, the only caller of setGroup besides      *)
(* buildDefaultGroup.  It gives no default and saves what it did.          *)
(***************************************************************************)
SetInputMethodGroupInfo(name, list, layout) ==
  /\ name \in DOMAIN groups
  /\ groups' = [groups EXCEPT ![name] = Revised(@, list, layout)]
  /\ profile' = Saved(groups', groupOrder)
  /\ signals' = IF name = Head(groupOrder)
                THEN <<AboutToChange(name), Changed(name)>> ELSE <<>>
  /\ UNCHANGED <<entries, groupOrder, fault>>

AddEmptyGroup(name) ==
  /\ name \notin DOMAIN groups
  /\ Len(groupOrder) < MaxGroups
  /\ groups' = WithGroup(groups, name,
       [list |-> <<>>, default |-> None,
        layout |-> IF CurrentGroup.layout = None THEN KeyboardUs
                   ELSE CurrentGroup.layout])
  /\ groupOrder' = Append(groupOrder, name)
  /\ signals' = <<<<"GroupAdded", name>>>>
  /\ UNCHANGED <<entries, profile, fault>>

\* Mutant of RemoveGroup: the name stays in the order.
RemoveGroup_KeepsName(name) ==
  /\ name \in DOMAIN groups
  /\ DOMAIN groups # {name}
  /\ groups' = WithoutGroup(groups, name)
  /\ signals' = <<<<"GroupRemoved", name>>>>
  /\ UNCHANGED <<entries, groupOrder, profile, fault>>

RemoveGroup(name) ==
  /\ name \in DOMAIN groups
  /\ DOMAIN groups # {name}
  /\ groups' = WithoutGroup(groups, name)
  /\ groupOrder' = WithoutName(groupOrder, name)
  /\ signals' = (IF name = Head(groupOrder)
                 THEN <<AboutToChange(name), Changed(Head(groupOrder'))>>
                 ELSE <<>>) \o <<<<"GroupRemoved", name>>>>
  /\ UNCHANGED <<entries, profile, fault>>

Next ==
  \/ Restart
  \/ Save
  \/ Refresh
  \/ Reset
  \/ \E name \in GroupName :
       \/ SetCurrentGroup(name)
       \/ EnumerateGroupTo(name)
       \/ AddEmptyGroup(name)
       \/ RemoveGroup(name)
       \/ \E list \in Lists, layout \in Keyboard \cup {None} :
            SetInputMethodGroupInfo(name, list, layout)
  \/ \E forward \in BOOLEAN : EnumerateGroup(forward)
  \/ \E im \in InputMethod : SetDefaultInputMethod(im)

Spec == Init /\ [][Next]_vars

-----------------------------------------------------------------------------

\* Every group has exactly one place in the order, and there is always a current
\* group: what assert(groupOrder_.size() == groups_.size()), currentGroup() and
\* "groupOrder guarantee to be non-empty at this point" rely on.
OrderMatchesGroups ==
  /\ groupOrder # <<>>
  /\ ToSet(groupOrder) = DOMAIN groups
  /\ \A i, j \in DOMAIN groupOrder : groupOrder[i] = groupOrder[j] => i = j

\* What a group offers can be used: no item that no addon provides, whatever a
\* client asked for, a profile says, or an addon used to provide; and a default
\* that is one of them, but not the first whenever the first two differ, so that
\* toggling between the two has an effect.
OffersUsable ==
  \A name \in DOMAIN groups :
    LET g == groups[name]
    IN  /\ ToSet(g.list) \subseteq entries
        /\ IF g.list = <<>> THEN g.default = None
           ELSE /\ g.default \in ToSet(g.list)
                /\ Len(g.list) > 1 /\ g.list[1] # g.list[2]
                     => g.default # g.list[1]

\* Saving and loading is lossless for the groups the loader accepts (it drops
\* those without an item or a layout): same lists, same defaults, same order.
ProfileRoundTrip ==
  LET file == Saved(groups, groupOrder)
      kept == {name \in DOMAIN groups : /\ groups[name].list # <<>>
                                        /\ groups[name].layout # None}
  IN  /\ LoadedGroups(file, entries) = [name \in kept |-> groups[name]]
      /\ LoadedOrders(file, LoadedGroups(file, entries))
           = {Kept(groupOrder, kept)}

\* The instance deactivates the input methods in use when the current group is
\* about to change and activates those of the new one afterwards, so whatever
\* call changes which group is current or what is in it announces both, naming
\* the groups that are current before and after; and no call announces one
\* without the other.
ChangesBracketed ==
  [][ LET here == <<Head(groupOrder), CurrentGroup.list, CurrentGroup.layout>>
          about == {i \in DOMAIN signals' :
                      signals'[i][1] = "CurrentGroupAboutToChange"}
          done == {i \in DOMAIN signals' :
                     signals'[i][1] = "CurrentGroupChanged"}
      IN  /\ here' # here => about # {}
          /\ \A i \in about : signals'[i][2] \in {Head(groupOrder), None}
          /\ \A i \in done : signals'[i][2] = Head(groupOrder')
          /\ done = {i + 1 : i \in about} ]_vars

\* Enumerating turns the ring of groups and never reorders it, so that going on
\* in one direction visits every group.
RingKept ==
  [][ (\/ \E forward \in BOOLEAN : EnumerateGroup(forward)
       \/ \E name \in GroupName : EnumerateGroupTo(name)) =>
        \E turn \in 0..(Len(groupOrder) - 1) :
          groupOrder' = [i \in DOMAIN groupOrder |->
            groupOrder[((i + turn - 1) % Len(groupOrder)) + 1]] ]_vars

\* "Return the current group": a call of currentGroup() finds one.
CurrentGroupFound == ~fault
=============================================================================
