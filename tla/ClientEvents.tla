----------------------------- MODULE ClientEvents -----------------------------
(***************************************************************************)
(* What one input context sends to its client: committed text, forwarded   *)
(* keys and the preedit, and the answers to the client's keys.  A frontend *)
(* may block the events while a key is handled, deliver them after the     *)
(* answer, and have a key that nobody accepts forwarded behind them        *)
(* (KeyEventOrderFix), or return them together with the answer.            *)
(*                                                                         *)
(* Everything that becomes text in the client, its own keys included, is   *)
(* numbered in the order in which it is produced, so that the text is in   *)
(* order when its numbers are.  What an engine does is left open, except   *)
(* that it shows a preedit in the same step as it changes it.              *)
(***************************************************************************)
EXTENDS Naturals, SequencesExt

CONSTANTS
  Preedit,      \* the preedits that are not empty
  Empty,        \* the empty one
  MaxText,      \* how much text is produced
  MaxPending    \* how many events are on their way to the client

ASSUME PreeditAssumption == Empty \notin Preedit
ASSUME BoundsAssumption == MaxText \in Nat /\ MaxPending \in Nat

VARIABLES
  capability,     \* of the flags, Preedit and KeyEventOrderFix
  call,           \* the way the key that is handled now came in
  blocking,       \* blockEventToClient_
  blockedEvents,  \* blockedEvents_
  clientPreedit,  \* that of the input panel
  lastEmpty,      \* lastPreeditUpdateIsEmpty_
  batch,          \* blockedEvents_ of a DBusInputContext1, in a batch call
  channel,        \* what is on its way to the client
  produced,       \* how much text has been produced
  document,       \* the client's text
  shown,          \* the client's preedit
  told            \* history: the preedit was updated since the client shows it

clientSide == <<document, shown>>
clientVars == <<capability, call, blocking, blockedEvents, clientPreedit, lastEmpty,
          batch, channel, produced, clientSide, told>>

Calls == {"ProcessKeyEvent", "ProcessKeyEventBatch", "XIM"}

\* An event: the text of a commit, or a key with the preedit that it was typed
\* to, as far as the client was told of it.
CommitOf(text) == [type |-> "CommitString", text |-> text]
CommitWithCursor(text) == [type |-> "CommitStringWithCursor", text |-> text]
Key(text, at) == [type |-> "ForwardKey", text |-> text, at |-> at]
Update == [type |-> "UpdatePreedit"]
Shows(preedit) == [type |-> "UpdatePreedit", preedit |-> preedit]

\* commitStringImpl, updatePreeditImpl and forwardKeyImpl of the frontends.
Send(messages) ==
  IF call = "ProcessKeyEventBatch"
  THEN batch' = batch \o messages /\ UNCHANGED channel
  ELSE channel' = channel \o messages /\ UNCHANGED batch

-----------------------------------------------------------------------------

\* Mutant of Delivered: what is buffered waits until another commit or the end.
Delivered_Late(events) ==
  LET Step(done, e) ==
        IF e.type = "CommitString" THEN [done EXCEPT !.buffer = @ \o e.text]
        ELSE [done EXCEPT !.sent = Append(@,
                IF e = Update THEN Shows(clientPreedit) ELSE e)]
      all == FoldLeft(Step, [sent |-> <<>>, buffer |-> <<>>], events)
  IN  IF all.buffer = <<>> THEN all.sent ELSE Append(all.sent, CommitOf(all.buffer))

\* What is sent of the events so far, and the text of the last commits in a row.
Flushed(done) ==
  IF done.buffer = <<>> THEN done
  ELSE [sent |-> Append(done.sent, CommitOf(done.buffer)), buffer |-> <<>>]

Handed(done, e) ==
  IF e.type = "CommitString" THEN [done EXCEPT !.buffer = @ \o e.text]
  ELSE [sent |-> Append(Flushed(done).sent, IF e = Update THEN Shows(clientPreedit) ELSE e),
        buffer |-> <<>>]

(***************************************************************************)
(* deliverBlockedEvents: commits in a row become one, and a preedit is the *)
(* one of the moment of delivery.                                          *)
(***************************************************************************)
Delivered(events) ==
  LET done[n \in 0..Len(events)] ==
        IF n = 0 THEN [sent |-> <<>>, buffer |-> <<>>]
        ELSE Handed(done[n - 1], events[n])
  IN  Flushed(done[Len(events)]).sent

\* InputContextPrivate::pushEvent, with the preedit of the next state
Push(event) ==
  IF blocking
  THEN blockedEvents' = Append(blockedEvents, event) /\ UNCHANGED <<batch, channel>>
  ELSE /\ Send(<<IF event = Update THEN Shows(clientPreedit') ELSE event>>)
       /\ UNCHANGED blockedEvents

\* Mutant of HasPendingEventsStrictOrder: an update of the preedit never counts.
HasPendingEventsStrictOrder_NoPreedit ==
  \E i \in DOMAIN blockedEvents : blockedEvents[i] # Update

HasPendingEventsStrictOrder ==
  /\ blockedEvents # <<>>
  /\ \/ \E i \in DOMAIN blockedEvents : blockedEvents[i] # Update
     \/ clientPreedit # Empty

-----------------------------------------------------------------------------

ClientInit ==
  /\ capability \in SUBSET {"Preedit", "KeyEventOrderFix"}
  /\ call = "None"
  /\ blocking = FALSE
  /\ blockedEvents = <<>>
  /\ clientPreedit = Empty
  /\ lastEmpty = TRUE
  /\ batch = <<>>
  /\ channel = <<>>
  /\ produced = 0
  /\ document = <<>>
  /\ shown = Empty
  /\ told = FALSE

NextText == <<produced + 1>>

\* The bounds of the model.
Room ==
  /\ produced < MaxText
  /\ Len(blockedEvents) + Len(batch) + Len(channel) < MaxPending

\* The client's key arrives; a context with KeyEventOrderFix blocks its events
\* for ProcessKeyEvent, and XIM blocks them always.
StartKey(how) ==
  /\ call = "None"
  /\ Room
  /\ call' = how
  /\ blocking' = \/ how = "XIM"
                 \/ how = "ProcessKeyEvent" /\ "KeyEventOrderFix" \in capability
  /\ UNCHANGED <<capability, blockedEvents, clientPreedit, lastEmpty, batch,
                 channel, produced, clientSide, told>>

\* An engine commits text or forwards a key, while a key is handled or not.
CommitString ==
  /\ Room
  /\ \E event \in {CommitOf(NextText), CommitWithCursor(NextText),
                   Key(NextText, Empty)} : Push(event)
  /\ produced' = produced + 1
  /\ UNCHANGED <<capability, call, blocking, clientPreedit, lastEmpty,
                 clientSide, told>>

\* Mutant of UpdatePreedit: that the preedit is empty is noted for a client, too,
\* that is not sent any.
UpdatePreedit_NotesUnsent ==
  /\ lastEmpty' = (clientPreedit' = Empty)
  /\ IF "Preedit" \in capability /\ ~(clientPreedit' = Empty /\ lastEmpty)
     THEN Push(Update)
     ELSE UNCHANGED <<blockedEvents, batch, channel>>

\* InputContext::updatePreedit(false)
UpdatePreedit ==
  IF "Preedit" \in capability /\ ~(clientPreedit' = Empty /\ lastEmpty)
  THEN lastEmpty' = (clientPreedit' = Empty) /\ Push(Update)
  ELSE UNCHANGED <<lastEmpty, blockedEvents, batch, channel>>

\* An engine changes the preedit and has it shown.
ShowPreedit(preedit) ==
  /\ Len(blockedEvents) + Len(batch) + Len(channel) < MaxPending
  /\ clientPreedit' = preedit
  /\ UpdatePreedit
  /\ told' = ("Preedit" \in capability)
  /\ UNCHANGED <<capability, call, blocking, produced, clientSide>>

\* The key that is handled was not accepted: the client types it itself, or gets
\* it back behind what is pending.
Typed == Key(NextText, IF told THEN clientPreedit ELSE Empty)

\* Instance::postEvent has the key forwarded if order demands it.
ForwardsKey(accepted) ==
  /\ ~accepted
  /\ "KeyEventOrderFix" \in capability
  /\ HasPendingEventsStrictOrder

\* The end of a key: the frontend answers, and unblocks the events after or before
\* that; a batch call answers with them.
FinishKey(accepted) ==
  LET forwards == ForwardsKey(accepted)
      answer == IF accepted \/ forwards THEN <<>> ELSE <<Typed>>
      events == Delivered(IF forwards THEN Append(blockedEvents, Typed)
                          ELSE blockedEvents)
  IN  /\ call # "None"
      /\ accepted \/ produced < MaxText
      /\ produced' = IF accepted THEN produced ELSE produced + 1
      /\ channel' = channel \o (CASE call = "ProcessKeyEvent" -> answer \o events
                                  [] call = "ProcessKeyEventBatch" -> batch \o answer
                                  [] call = "XIM" -> events \o answer)
      /\ call' = "None"
      /\ blocking' = FALSE
      /\ blockedEvents' = <<>>
      /\ batch' = <<>>
      /\ UNCHANGED <<capability, clientPreedit, lastEmpty, clientSide, told>>

\* The client changes its capabilities, between its keys.
SetCapability(flags) ==
  /\ call = "None"
  /\ capability' = flags
  /\ told' = (told /\ "Preedit" \in capability \cap flags)
  /\ UNCHANGED <<call, blocking, blockedEvents, clientPreedit, lastEmpty, batch,
                 channel, produced, clientSide>>

\* The client takes the next message.
Receive ==
  /\ channel # <<>>
  /\ channel' = Tail(channel)
  /\ LET m == Head(channel)
     IN  IF m.type = "UpdatePreedit"
         THEN shown' = m.preedit /\ UNCHANGED document
         ELSE document' = document \o m.text /\ UNCHANGED shown
  /\ UNCHANGED <<capability, call, blocking, blockedEvents, clientPreedit,
                 lastEmpty, batch, produced, told>>

ClientNext ==
  \/ CommitString
  \/ Receive
  \/ \E how \in Calls : StartKey(how)
  \/ \E accepted \in BOOLEAN : FinishKey(accepted)
  \/ \E preedit \in Preedit \cup {Empty} : ShowPreedit(preedit)
  \/ \E flags \in SUBSET {"Preedit", "KeyEventOrderFix"} : SetCapability(flags)

ClientSpec == ClientInit /\ [][ClientNext]_clientVars

-----------------------------------------------------------------------------

\* "To make sync and async event handled in the same order": the client's text is
\* in the order in which the engines and the client's keys produced it, and when
\* nothing is on its way the client has all of it.
TextKept ==
  /\ \A i \in DOMAIN document : document[i] = i
  /\ call = "None" /\ channel = <<>> => Len(document) = produced

\* "It still may trigger the clear preedit": a key that the client gets to type is
\* typed to the preedit that the engine had when it let the key go, except that
\* an empty one may be shown later.
KeyMeetsPreedit ==
  [][ Receive /\ Head(channel).type = "ForwardKey" /\ Head(channel).at # Empty
        => shown = Head(channel).at ]_clientVars

\* When nothing is on its way, the client shows the preedit it was told of.
PreeditSettles ==
  told /\ channel = <<>> /\ blockedEvents = <<>> /\ batch = <<>>
    => shown = clientPreedit

-----------------------------------------------------------------------------

\* The text of an event, and of events in a row.
TextOf(e) == IF e.type = "UpdatePreedit" THEN <<>> ELSE e.text

TextsOf(events) ==
  LET upTo[n \in 0..Len(events)] ==
        IF n = 0 THEN <<>> ELSE upTo[n - 1] \o TextOf(events[n])
  IN  upTo[Len(events)]

\* What the client has not read: what is sent, what a batch call has gathered, and
\* what is blocked.
Unread == TextsOf(channel) \o TextsOf(batch) \o TextsOf(blockedEvents)

TextPromise == INSTANCE TextQueue WITH waiting <- Unread, taken <- document

\* "To make sync and async event handled in the same order", at every moment: the
\* channel, the batch and the blocked events are a single queue of text, and
\* merging, delivering, answering and forwarding never let a later piece pass an
\* earlier one, lose one or repeat one.
IsTextQueue == TextPromise!TextSpec
=============================================================================
