----------------------------- MODULE FocusGroups -----------------------------
(***************************************************************************)
(* The keyboard focus of fcitx: InputContext (one text field of a client), *)
(* FocusGroup (one display connection, which has at most one focused       *)
(* context) and the bookkeeping of InputContextManager (the list of        *)
(* focused contexts and the most recently used one).                       *)
(*                                                                         *)
(* All of it runs on the event loop's thread, so one call from a frontend, *)
(* with every call it makes, is one action.  What the call tells the rest  *)
(* of the program is the sequence of events it posts, kept in posted.      *)
(***************************************************************************)
EXTENDS Naturals, Sequences, SequencesExt

CONSTANTS
  InputContext,  \* the identities an InputContext object can have
  FocusGroup,    \* the identities a FocusGroup object can have
  None,          \* the null pointer
  ExitWhenMainDisplayDisconnected  \* instance option, TRUE unless --keep

ASSUME NoneAssumption == None \notin InputContext /\ None \notin FocusGroup
ASSUME ExitAssumption == ExitWhenMainDisplayDisconnected \in BOOLEAN

VARIABLES
  alive,       \* contexts registered with the manager (inputContexts_)
  displays,    \* focus groups registered with the manager (groups_)
  group,       \* group_ of each context
  ics,         \* ics_ of each focus group
  focus,       \* focus_ of each focus group
  hasFocus,    \* hasFocus_ of each context
  focused,     \* focusedInputContexts_, the latest first
  recent,      \* mostRecentInputContext_, a weak reference
  exiting,     \* exit_ of the instance: no event is dispatched any more
  posted       \* events dispatched by the last call, in order

vars == <<alive, displays, group, ics, focus, hasFocus, focused, recent,
          exiting, posted>>

(***************************************************************************)
(* The part of the state that a change of focus touches, handed from one   *)
(* nested call to the next.                                                *)
(***************************************************************************)
Now == [focus |-> focus, has |-> hasFocus, list |-> focused,
        recent |-> recent, events |-> <<>>]

Post(f, event) ==
  [f EXCEPT !.events = IF exiting THEN @ ELSE Append(@, event)]

\* IntrusiveList::erase(iterator_to(ic)), or nothing when ic is not linked.
Unlink(list, ic) ==
  IF \E i \in DOMAIN list : list[i] = ic
  THEN RemoveAt(list, CHOOSE i \in DOMAIN list : list[i] = ic)
  ELSE list

\* Mutant of NotifyFocus: the last context is not remembered when it loses focus.
NotifyFocus_ForgetsRecent(f, ic, has) ==
  LET rest == Unlink(f.list, ic)
  IN  [f EXCEPT !.list = IF has THEN <<ic>> \o rest ELSE rest,
                !.recent = IF has THEN None ELSE @]

\* InputContextManager::notifyFocus
NotifyFocus(f, ic, has) ==
  IF has
  THEN [f EXCEPT !.list = <<ic>> \o Unlink(@, ic), !.recent = None]
  ELSE LET rest == Unlink(f.list, ic)
       IN  [f EXCEPT !.list = rest,
                     !.recent = IF rest = <<>> THEN ic ELSE @]

\* InputContext::setHasFocus
SetHasFocus(f, ic, has) ==
  IF f.has[ic] = has
  THEN f
  ELSE Post(NotifyFocus([f EXCEPT !.has[ic] = has], ic, has),
            <<IF has THEN "FocusIn" ELSE "FocusOut", ic>>)

\* Mutants of SetFocusedInputContext: the old context is not told, or is told
\* after the new one.
SetFocusedInputContext_NoHandOver(f, g, ic) ==
  LET moved == [f EXCEPT !.focus[g] = ic]
  IN  IF f.focus[g] = ic THEN f
      ELSE IF ic # None THEN SetHasFocus(moved, ic, TRUE)
           ELSE SetHasFocus(moved, f.focus[g], FALSE)

SetFocusedInputContext_GainFirst(f, g, ic) ==
  LET moved == [f EXCEPT !.focus[g] = ic]
      taken == IF ic # None THEN SetHasFocus(moved, ic, TRUE) ELSE moved
  IN  IF f.focus[g] = ic THEN f
      ELSE IF f.focus[g] # None THEN SetHasFocus(taken, f.focus[g], FALSE)
           ELSE taken

\* FocusGroup::setFocusedInputContext; ic may be None.
SetFocusedInputContext(f, g, ic) ==
  IF f.focus[g] = ic
  THEN f
  ELSE LET left  == IF f.focus[g] # None
                    THEN SetHasFocus(f, f.focus[g], FALSE)
                    ELSE f
           moved == [left EXCEPT !.focus[g] = ic]
           taken == IF ic # None THEN SetHasFocus(moved, ic, TRUE) ELSE moved
       IN  Post(taken, <<"FocusGroupFocusChanged", g>>)

\* InputContext::focusIn and InputContext::focusOut
TakeFocus(f, ic) ==
  IF group[ic] # None
  THEN SetFocusedInputContext(f, group[ic], ic)
  ELSE SetHasFocus(f, ic, TRUE)

DropFocus(f, ic) ==
  IF group[ic] = None
  THEN SetHasFocus(f, ic, FALSE)
  ELSE IF f.focus[group[ic]] = ic
       THEN SetFocusedInputContext(f, group[ic], None)
       ELSE f

Commit(f) ==
  /\ focus' = f.focus
  /\ hasFocus' = f.has
  /\ focused' = f.list
  /\ recent' = f.recent
  /\ posted' = f.events

-----------------------------------------------------------------------------

Init ==
  /\ alive = {}
  /\ displays = {}
  /\ group = [ic \in InputContext |-> None]
  /\ ics = [g \in FocusGroup |-> {}]
  /\ focus = [g \in FocusGroup |-> None]
  /\ hasFocus = [ic \in InputContext |-> FALSE]
  /\ focused = <<>>
  /\ recent = None
  /\ exiting = FALSE
  /\ posted = <<>>

\* The constructor, which registers the context with the manager.
Create(ic) ==
  /\ ic \notin alive
  /\ alive' = alive \cup {ic}
  /\ posted' = <<>>
  /\ UNCHANGED <<displays, group, ics, focus, hasFocus, focused, recent,
                 exiting>>

Destroy_StaysInList(ic) ==
  /\ ic \in alive
  /\ LET left == IF group[ic] # None /\ focus[group[ic]] = ic
                 THEN SetFocusedInputContext(Now, group[ic], None)
                 ELSE Now
     IN  Commit([left EXCEPT !.has[ic] = FALSE,
                             !.recent = IF @ = ic THEN None ELSE @])
  /\ ics' = [g \in FocusGroup |-> ics[g] \ {ic}]
  /\ group' = [group EXCEPT ![ic] = None]
  /\ alive' = alive \ {ic}
  /\ UNCHANGED <<displays, exiting>>

(***************************************************************************)
(* InputContext::destroy, called by the destructor of every frontend's     *)
(* context.  A context without a group gets no focusOut: it only leaves    *)
(* the lists.  The weak reference dies with the object.                    *)
(***************************************************************************)
Destroy(ic) ==
  /\ ic \in alive
  /\ LET left == IF group[ic] # None /\ focus[group[ic]] = ic
                 THEN SetFocusedInputContext(Now, group[ic], None)
                 ELSE Now
         told == Post(left, <<"InputContextDestroyed", ic>>)
     IN  Commit([told EXCEPT !.has[ic] = FALSE,
                             !.list = Unlink(@, ic),
                             !.recent = IF @ = ic THEN None ELSE @])
  /\ ics' = [g \in FocusGroup |-> ics[g] \ {ic}]
  /\ group' = [group EXCEPT ![ic] = None]
  /\ alive' = alive \ {ic}
  /\ UNCHANGED <<displays, exiting>>

\* A display connection appears: FocusGroup's constructor.
CreateFocusGroup(g) ==
  /\ g \notin displays
  /\ displays' = displays \cup {g}
  /\ posted' = <<>>
  /\ UNCHANGED <<alive, group, ics, focus, hasFocus, focused, recent, exiting>>

(***************************************************************************)
(* ~FocusGroup, on loss of the display: every context leaves by            *)
(* setFocusGroup(nullptr), of which only the focused one posts anything,   *)
(* and the last group to go makes the instance exit.                       *)
(***************************************************************************)
DestroyFocusGroup(g) ==
  /\ g \in displays
  /\ Commit(SetFocusedInputContext(Now, g, None))
  /\ group' = [ic \in InputContext |-> IF ic \in ics[g] THEN None
                                                        ELSE group[ic]]
  /\ ics' = [ics EXCEPT ![g] = {}]
  /\ displays' = displays \ {g}
  /\ exiting' = (exiting \/ (ExitWhenMainDisplayDisconnected
                             /\ displays' = {}))
  /\ UNCHANGED alive

\* InputContext::setFocusGroup; g may be None.
SetFocusGroup(ic, g) ==
  /\ ic \in alive
  /\ g \in displays \cup {None}
  /\ Commit(DropFocus(Now, ic))
  /\ ics' = [h \in FocusGroup |-> IF h = g THEN ics[h] \cup {ic}
                                           ELSE ics[h] \ {ic}]
  /\ group' = [group EXCEPT ![ic] = g]
  /\ UNCHANGED <<alive, displays, exiting>>

FocusIn(ic) ==
  /\ ic \in alive
  /\ Commit(TakeFocus(Now, ic))
  /\ UNCHANGED <<alive, displays, group, ics, exiting>>

FocusOut(ic) ==
  /\ ic \in alive
  /\ Commit(DropFocus(Now, ic))
  /\ UNCHANGED <<alive, displays, group, ics, exiting>>

Next ==
  \/ \E ic \in InputContext :
       \/ Create(ic)
       \/ Destroy(ic)
       \/ FocusIn(ic)
       \/ FocusOut(ic)
       \/ \E g \in FocusGroup \cup {None} : SetFocusGroup(ic, g)
  \/ \E g \in FocusGroup : CreateFocusGroup(g) \/ DestroyFocusGroup(g)

Spec == Init /\ [][Next]_vars

\* InputContextManager::lastFocusedInputContext, mostRecentInputContext
LastFocusedInputContext == IF focused = <<>> THEN None ELSE Head(focused)

MostRecentInputContext == IF focused = <<>> THEN recent ELSE Head(focused)

-----------------------------------------------------------------------------
(* What every caller of these classes relies on. *)

\* The state variables have the types their C++ members have.
TypeOK ==
  /\ alive \in SUBSET InputContext
  /\ displays \in SUBSET FocusGroup
  /\ group \in [InputContext -> FocusGroup \cup {None}]
  /\ ics \in [FocusGroup -> SUBSET InputContext]
  /\ focus \in [FocusGroup -> InputContext \cup {None}]
  /\ hasFocus \in [InputContext -> BOOLEAN]
  /\ focused \in Seq(InputContext)
  /\ recent \in InputContext \cup {None}
  /\ exiting \in BOOLEAN

\* The two directions of the link between a context and its group agree, and
\* no object that was destroyed is still linked from a live one (setFocusGroup,
\* addInputContext, removeInputContext, the two destructors).
GroupsLinked ==
  /\ \A g \in FocusGroup : ics[g] = {ic \in InputContext : group[ic] = g}
  /\ \A ic \in InputContext : group[ic] \in displays \cup {None}
  /\ \A ic \in InputContext : group[ic] # None => ic \in alive

\* Focus is kept twice, in the group and in each of its contexts: the context a
\* group names is exactly the one of its contexts whose hasFocus() is true.
FocusAgrees ==
  \A g \in FocusGroup :
    {ic \in ics[g] : hasFocus[ic]} = {focus[g]} \ {None}

\* focusedInputContexts_ is an intrusive list of raw objects: it links every
\* context that has focus, each once, and nothing that was destroyed.
FocusedListExact ==
  /\ \A i, j \in DOMAIN focused : focused[i] = focused[j] => i = j
  /\ \A ic \in InputContext :
       hasFocus[ic] <=> \E i \in DOMAIN focused : focused[i] = ic
  /\ \A ic \in InputContext : hasFocus[ic] => ic \in alive

\* mostRecentInputContext_ is only set while nothing has focus, and it never
\* names an object that is gone.
MostRecentSound ==
  recent # None => recent \in alive /\ focused = <<>>

-----------------------------------------------------------------------------
(* What one call may do and tell. *)

\* hasFocus as it is after the first n events of the last call.
Replay(n) ==
  [ic \in InputContext |->
     LET said == {i \in 1..n : posted'[i] \in {<<"FocusIn", ic>>,
                                               <<"FocusOut", ic>>}}
     IN  IF said = {} THEN hasFocus[ic]
         ELSE posted'[CHOOSE i \in said : \A j \in said : j <= i][1]
                = "FocusIn"]

\* Engines are activated and deactivated by the focus events, so the events of
\* a call must lead from the focus before it to the focus after it, and between
\* two events no group may seem to have two focused contexts.  A context
\* outside every group that is destroyed while focused is the one exception:
\* destroy() tells nobody that it lost focus.
EventsTellFocus ==
  [][ ~exiting =>
        /\ \A ic \in InputContext :
             \/ Replay(Len(posted'))[ic] = hasFocus'[ic]
             \/ ic \notin alive' /\ group[ic] = None
        /\ \A n \in 0..Len(posted'), g \in FocusGroup :
             \A ic, jc \in ics[g] :
               Replay(n)[ic] /\ Replay(n)[jc] => ic = jc ]_vars

\* Whom mostRecentInputContext() answers changes only when some context gains
\* focus, when the answer is destroyed, or when it loses focus while others
\* keep theirs: the context used last is remembered when all focus is lost.
MostRecentStable ==
  [][ MostRecentInputContext' # MostRecentInputContext =>
        \/ \E ic \in InputContext : ~hasFocus[ic] /\ hasFocus'[ic]
        \/ MostRecentInputContext \notin alive'
        \/ ~hasFocus'[MostRecentInputContext] /\ focused' # <<>> ]_vars

=============================================================================
