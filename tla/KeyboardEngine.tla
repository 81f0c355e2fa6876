---------------------------- MODULE KeyboardEngine ----------------------------
(***************************************************************************)
(* The engine of keyboard layouts for one context: what is typed may wait  *)
(* in a buffer while words are offered for it, a key that is held offers   *)
(* its accented relatives, and dead keys wait for the key they belong to.  *)
(* The text that the user sees is what the client has plus the preedit,    *)
(* and the preedit is computed from the buffer, the mode, the candidate    *)
(* under the cursor and the dead keys.                                     *)
(*                                                                         *)
(* Long press and the new behaviour of dead keys are turned on, and the    *)
(* client shows preedits.  A text is a sequence of characters, and a dead  *)
(* key stands for its own text.                                            *)
(***************************************************************************)
EXTENDS Integers, SequencesExt

CONSTANTS
  Characters,    \* what texts are made of
  Letters,       \* keys of letters; they are also characters
  DeadKeys,      \* dead keys
  OtherChars,    \* more characters that words may have (validChars)
  Relatives,     \* longPressData: the texts that a held key offers
  ComposeTable,  \* the character that a sequence of keys composes
  Offers,        \* the lists of words that spelling and emoji may offer
  BufferLimit    \* FCITX_KEYBOARD_MAX_BUFFER

VARIABLES
  predict,  \* the capabilities of the context allow words to be offered
  kb,       \* KeyboardEngineState and the panel, and what the last call did
  held,     \* the key that is held and repeats
  tail,     \* the character in front of the client's cursor
  did       \* history: the last call

kbVars == <<predict, kb, held, tail, did>>

NoKey == "none"
Other == "another character"
Syms == Letters \cup DeadKeys \cup {Other}

Texts == Seq(Characters)
OfferedWords == Texts \ {<<>>}

ASSUME LettersAssumption ==
  /\ Letters \cap DeadKeys = {} /\ Other \notin Letters \cup DeadKeys
  /\ NoKey \notin Letters
  /\ Syms \cup OtherChars \subseteq Characters
ASSUME ComposeAssumption ==
  /\ \A keys \in DOMAIN ComposeTable : keys \in Seq(Syms) /\ ComposeTable[keys] \in Characters
  /\ \A d \in DeadKeys : \E keys \in DOMAIN ComposeTable : Len(keys) > 1 /\ keys[1] = d
\* Nothing that is offered is empty.
ASSUME WordsAssumption ==
  /\ DOMAIN Relatives \subseteq Letters
  /\ \A letter \in DOMAIN Relatives : Relatives[letter] \in Seq(OfferedWords)
  /\ Offers \subseteq Seq(OfferedWords)
ASSUME LimitAssumption == BufferLimit \in Nat \ {0}

NoList == [kind |-> "None", words |-> <<>>, cursor |-> 0]

(***************************************************************************)
(* fed is the compose state that the engines of a context share, shown the *)
(* preedit in the panel; sent and removed are what a call does to the      *)
(* client's text.  The operators below take such a record and hand it on   *)
(* in the order of the calls.                                              *)
(***************************************************************************)
Fresh ==
  [wordHint |-> FALSE, oneTime |-> FALSE, buffer |-> <<>>, mode |-> "Hint",
   orig |-> <<>>, repeated |-> FALSE, composing |-> <<>>, fed |-> <<>>,
   list |-> NoList, shown |-> <<>>, sent |-> <<>>, removed |-> 0]

-----------------------------------------------------------------------------

CurrentSelection(s) ==
  LET chosen == s.list.kind = s.mode /\ s.list.cursor > 0
      word   == s.list.words[s.list.cursor]
  IN  CASE s.mode = "Hint" -> IF chosen THEN word ELSE s.buffer
        [] s.mode = "LongPress" -> s.buffer \o (IF chosen THEN word ELSE s.orig)

PreeditString(s) ==
  CurrentSelection(s) \o (IF s.mode = "Hint" THEN s.composing ELSE <<>>)

SetPreedit(s) == [s EXCEPT !.shown = PreeditString(s)]

\* inputPanel().reset()
ResetPanel(s) == [s EXCEPT !.list = NoList, !.shown = <<>>]

CommitText(s, text) == [s EXCEPT !.sent = @ \o text]

\* reset(resetCompose)
ResetState(s, resetCompose) ==
  LET cleared == [ResetPanel(s) EXCEPT !.orig = <<>>, !.buffer = <<>>,
                    !.mode = "Hint", !.repeated = FALSE, !.oneTime = FALSE]
  IN  IF resetCompose THEN [cleared EXCEPT !.composing = <<>>, !.fed = <<>>]
      ELSE cleared

CommitBuffer(s) ==
  IF CurrentSelection(s) = <<>> THEN s
  ELSE ResetState(CommitText(s, CurrentSelection(s)), FALSE)

\* Nothing is offered for an empty buffer.
UpdateCandidate(s, words) ==
  [ResetPanel(s) EXCEPT !.mode = "Hint",
     !.list = [kind |-> "Hint", cursor |-> 0,
               words |-> IF s.buffer = <<>> THEN <<>> ELSE words]]

HintEnabled(s) == predict /\ (s.wordHint \/ s.oneTime)

\* updateBuffer, where it is not refused
UpdateBuffer(s, text, words) ==
  LET typed == [s EXCEPT !.buffer = @ \o text]
  IN  IF Len(typed.buffer) >= BufferLimit THEN CommitBuffer(typed)
      ELSE UpdateCandidate(typed, words)

-----------------------------------------------------------------------------
(* Dead keys. *)

\* The compose state of libxkbcommon after one more key: a result, a longer
\* sequence, nothing, or a sequence that is broken off.
Composes(keys) == keys \in DOMAIN ComposeTable
Begins(keys) ==
  \E all \in DOMAIN ComposeTable : Len(keys) < Len(all) /\ IsPrefix(keys, all)

ResetCompose(s) == [s EXCEPT !.composing = <<>>, !.fed = <<>>]

(***************************************************************************)
(* ComposeState::typeImpl appends to the text in r and says whether the    *)
(* key is consumed.  When nothing but dead keys fails to match, the first  *)
(* becomes text and the others are typed again: the loop over them types   *)
(* the last key each time, so again[n] is what n times that key are when   *)
(* nothing is composed yet.                                                *)
(***************************************************************************)
TypeImpl(r, sym, again) ==
  LET s     == IF (r.s.fed = <<>>) = (r.s.composing = <<>>) THEN r.s
               ELSE ResetCompose(r.s)
      fed   == Append(s.fed, sym)
      keys  == Append(s.composing, sym)
      Answer(state, text, consumed) ==
        [s |-> state, text |-> r.text \o text, consumed |-> consumed]
  IN  IF Composes(fed)
      THEN Answer(ResetCompose(s), <<ComposeTable[fed]>>, TRUE)
      ELSE IF Begins(fed)
      THEN Answer([s EXCEPT !.fed = fed, !.composing = keys], <<>>, TRUE)
      ELSE IF s.fed = <<>>
      THEN Answer(ResetCompose(s), <<>>, FALSE)
      ELSE IF ToSet(s.composing) \subseteq DeadKeys
      THEN IF sym \in DeadKeys
           THEN LET rest == again[Len(s.composing)]
                IN  Answer(rest.s, <<keys[1]>> \o rest.text, rest.consumed)
           ELSE Answer(ResetCompose(s), s.composing, FALSE)
      ELSE Answer(ResetCompose(s), <<>>, TRUE)

Nothing(s) == [s |-> s, text |-> <<>>, consumed |-> FALSE]

Type(s, sym) ==
  LET again[n \in 0..Len(s.composing)] ==
        IF n = 0 THEN Nothing(ResetCompose(s)) ELSE TypeImpl(again[n - 1], sym, again)
  IN  TypeImpl(Nothing(s), sym, again)

\* ComposeState::backspace: all but the last key are typed again.
ComposeBackspace(s) ==
  LET typed[n \in 0..(Len(s.composing) - 1)] ==
        IF n = 0 THEN ResetCompose(s) ELSE Type(typed[n - 1], s.composing[n]).s
  IN  typed[Len(s.composing) - 1]

\* Mutant of HandleCompose: the choice stays in the list.
HandleCompose_KeepsBuffer(s, sym) == Type([s EXCEPT !.mode = "Hint", !.orig = <<>>], sym)

\* What is chosen becomes the buffer before a key is typed behind it.
HandleCompose(s, sym) ==
  LET current == CurrentSelection(s)
  IN  Type(IF s.buffer = current THEN s
           ELSE [s EXCEPT !.buffer = current, !.mode = "Hint", !.orig = <<>>], sym)

-----------------------------------------------------------------------------

KbInit ==
  /\ predict \in BOOLEAN
  /\ \E byDefault \in BOOLEAN : kb = [Fresh EXCEPT !.wordHint = byDefault]
  /\ held = NoKey
  /\ tail = Other
  /\ did = <<"none">>

\* A call starts from, and ends in.
Start == [kb EXCEPT !.sent = <<>>, !.removed = 0]

Ends(what, s, key) ==
  /\ did' = what
  /\ kb' = s
  /\ held' = IF key \in DOMAIN Relatives THEN key ELSE NoKey
  /\ tail' = IF s.sent # <<>> THEN (IF Last(s.sent) \in Letters THEN Last(s.sent) ELSE Other)
             ELSE IF s.removed = 1 THEN Other ELSE tail
  /\ UNCHANGED predict

\* keyEvent: any press but a repeated one ends a long press; the preedit is shown
\* at the end.
Pressed == [Start EXCEPT !.repeated = FALSE]
KeyEnds(what, s, key) == Ends(what, SetPreedit(s), key)

\* A character that composing yields goes into the buffer or to the client.
TypeChar(s, char, words) ==
  IF char \in Letters \cup OtherChars /\ HintEnabled(s) THEN UpdateBuffer(s, <<char>>, words)
  ELSE CommitText(CommitBuffer(s), <<char>>)

\* A key that types something, from the check for a combination on.  A key that
\* nobody takes is typed by the client.
Taken(s, sym, words) ==
  LET r == HandleCompose(s, sym)
      typed[n \in 0..Len(r.text)] ==
        IF n = 0 THEN r.s ELSE TypeChar(typed[n - 1], r.text[n], words)
      done == typed[Len(r.text)]
  IN  IF r.consumed THEN done
      ELSE IF sym \in Letters /\ HintEnabled(done) THEN UpdateBuffer(done, <<sym>>, words)
      ELSE CommitText(ResetPanel(CommitBuffer(done)), <<sym>>)

\* A key is pressed, or repeats without relatives to offer.
TypeKey(sym) ==
  \E words \in Offers : KeyEnds(<<"Type", sym>>, Taken(Pressed, sym, words), sym)

\* handleLongPress, for a key that has relatives: what it typed is taken back.
LongPressed(s, sym) ==
  IF s.repeated THEN s
  ELSE [ResetPanel(s) EXCEPT !.repeated = TRUE, !.mode = "LongPress", !.orig = <<sym>>,
          !.list = [kind |-> "LongPress", words |-> Relatives[sym], cursor |-> 0],
          !.removed = IF s.buffer = <<>> THEN 1 ELSE 0,
          !.buffer = IF @ = <<>> THEN @ ELSE Front(@)]

Repeat ==
  /\ held \in DOMAIN Relatives
  /\ KeyEnds(<<"Repeat">>, LongPressed(Start, held), held)

HintTrigger ==
  KeyEnds(<<"Trigger">>, CommitBuffer([Pressed EXCEPT !.wordHint = ~@, !.oneTime = FALSE]), NoKey)

OneTimeHintTrigger ==
  KeyEnds(<<"Trigger">>, [CommitBuffer([Pressed EXCEPT !.wordHint = FALSE])
             EXCEPT !.oneTime = ~kb.oneTime], NoKey)

\* select of KeyboardCandidateWord and of LongPressCandidateWord
Select(s, i, words) ==
  LET word == s.list.words[i]
      hint == [s EXCEPT !.mode = "Hint", !.list = NoList]
  IN  IF s.list.kind = "Hint" THEN ResetState(CommitText(ResetPanel(s), word), TRUE)
      ELSE IF HintEnabled(hint) THEN UpdateBuffer(hint, word, words)
      ELSE CommitText(SetPreedit(ResetPanel(CommitBuffer(hint))), word)

\* A candidate is chosen by its key, or clicked at.
SelectKey(i) ==
  /\ i \in DOMAIN kb.list.words
  /\ \E words \in Offers : KeyEnds(<<"Select", i>>, Select(Pressed, i, words), NoKey)

Click(i) ==
  /\ i \in DOMAIN kb.list.words
  /\ \E words \in Offers : Ends(<<"Click", i>>, Select(Start, i, words), NoKey)

\* The keys of the next and of the previous candidate; none chosen is one of them.
MoveChoice(step) ==
  /\ kb.list.kind # "None"
  /\ LET count == Len(kb.list.words) + 1
     IN  KeyEnds(<<"Move">>, [Pressed EXCEPT !.list.cursor = (@ + step + count) % count], NoKey)

\* handleBackspace
Backspaced(s, words) ==
  LET hint == [ResetPanel(s) EXCEPT !.orig = <<>>, !.mode = "Hint"]
      less == [s EXCEPT !.buffer = Front(@)]
  IN  IF s.mode = "LongPress"
      THEN IF HintEnabled(hint) THEN UpdateBuffer(hint, s.buffer, words)
           ELSE CommitText(CommitBuffer(hint), s.buffer)
      ELSE IF s.composing # <<>> THEN ComposeBackspace(s)
      ELSE IF s.buffer = <<>> THEN [s EXCEPT !.removed = 1]
      ELSE IF Len(s.buffer) = 1 THEN ResetState(less, TRUE)
      ELSE UpdateCandidate(less, words)

BackSpace ==
  \E words \in Offers : KeyEnds(<<"BackSpace">>, Backspaced(Pressed, words), NoKey)

\* invokeActionImpl: the preedit was clicked at.
InvokeAction == Ends(<<"Invoke">>, CommitBuffer(Start), held)

\* The client resets its context.
KbReset == Ends(<<"Reset">>, ResetState([Start EXCEPT !.fed = <<>>], TRUE), NoKey)

\* The context loses focus: the instance commits the preedit, then the engine is
\* deactivated.
Unfocus == Ends(<<"Unfocus">>, ResetState(CommitText(Start, kb.shown), TRUE), NoKey)

\* Another engine takes over for a while, and may use the compose state.
SwitchAway ==
  \E rest \in {kb.fed, <<>>} :
     Ends(<<"Switch">>, [ResetPanel(CommitBuffer(Start)) EXCEPT !.fed = rest], NoKey)

KbNext ==
  \/ \E sym \in Syms : TypeKey(sym)
  \/ Repeat
  \/ HintTrigger \/ OneTimeHintTrigger
  \/ \E i \in 1..2 : SelectKey(i) \/ Click(i)
  \/ \E step \in {-1, 1} : MoveChoice(step)
  \/ BackSpace
  \/ InvokeAction \/ KbReset \/ Unfocus \/ SwitchAway

KbSpec == KbInit /\ [][KbNext]_kbVars
-----------------------------------------------------------------------------

\* What the user sees of the text that is being typed, before a call and after it.
Was  == PreeditString(kb)
Seen == kb'.sent \o PreeditString(kb')

\* A key types itself, or what it composes together with the dead keys before it.
Typing(sym) ==
  LET keys == Append(kb.composing, sym)
  IN  CurrentSelection(kb) \o (IF Composes(keys) THEN <<ComposeTable[keys]>> ELSE keys)

\* A word that was chosen with the cursor and that a key makes too long for the
\* buffer is committed without that key.
Overlong ==
  /\ kb.list.kind = kb.mode /\ kb.mode = "Hint" /\ kb.list.cursor > 0
  /\ Len(CurrentSelection(kb)) + 1 >= BufferLimit

\* What a key that starts to repeat takes back is what it typed: neither what it
\* composed, nor another character since its own was too much for the buffer.
TakesOwn ==
  did[1] = "Repeat" \/ (IF kb.buffer = <<>> THEN tail ELSE Last(kb.buffer)) = held

\* What a call makes of the text.
CallKeepsText ==
  CASE did'[1] = "Type" ->
         kb.fed = kb.composing /\ ~Overlong => Seen = Typing(did'[2])
    [] did'[1] = "Repeat" ->
         TakesOwn => Seen = (IF kb'.removed = 1 THEN <<tail>> ELSE <<>>) \o Was
    [] did'[1] \in {"Select", "Click"} ->
         kb.list.kind = kb.mode =>
           Seen = (IF kb.mode = "Hint" THEN <<>> ELSE kb.buffer) \o kb.list.words[did'[2]]
    [] did'[1] = "BackSpace" ->
         IF kb.mode = "LongPress" THEN kb.buffer = <<>> => Seen = <<>>
         ELSE IF kb.composing # <<>> THEN Seen = Front(Was)
         ELSE IF kb.buffer # <<>> THEN Seen = Front(kb.buffer)
         ELSE Seen = <<>> /\ kb'.removed = 1
    [] did'[1] \in {"Trigger", "Invoke", "Switch"} -> Seen = Was
    [] did'[1] = "Unfocus" -> did[1] \notin {"Click", "Invoke", "Switch"} => Seen = Was
    [] OTHER -> TRUE

(***************************************************************************)
(* "Return false if chr will be skipped by buffer": whatever waits in the  *)
(* buffer, is offered, chosen or composed, no call loses, doubles or moves *)
(* a character of the text that the user sees.  A key adds its own; what a *)
(* held key typed is replaced by its first choice; a choice replaces what  *)
(* it was offered for; BackSpace takes the last one; and all else changes  *)
(* nothing.  Left out are the cases of section 5 of the README.            *)
(***************************************************************************)
TypedTextKept == [][CallKeepsText]_kbVars

\* "commit dead key if there is no matching sequence", and "dead keys are never
\* *really* dead": a dead key that does not go on with a sequence leaves the dead
\* keys before it in the text.
DeadKeysKept ==
  [][ did'[1] = "Type" /\ did'[2] \in DeadKeys /\ kb.fed = kb.composing
        => Seen = Typing(did'[2]) ]_kbVars
=============================================================================
