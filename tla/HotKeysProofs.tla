---------------------------- MODULE HotKeysProofs ----------------------------
(***************************************************************************)
(* What HotKeys promises, for all contexts, keys, configurations, groups   *)
(* and input methods.                                                      *)
(*                                                                         *)
(* The invariant adds to that of InputMethodSwitch what the history says   *)
(* of the state of the keys: a press that may still act is the last thing  *)
(* its context was told; the pending group is the one shown last; and the  *)
(* presses of a held trigger, after the first, go through the list.        *)
(***************************************************************************)
EXTENDS HotKeys, InputMethodSwitchProofs

(***************************************************************************)
(* The groups and their order.                                             *)
(***************************************************************************)

\* Either way of accepting a group puts it in front.
LEMMA ReorderedFacts ==
  ASSUME NEW order \in Seq(KnownGroups), NEW i \in 1..Len(order), NEW last
  PROVE  /\ Reordered(order, last, i) \in Seq(KnownGroups) \ {<<>>}
         /\ Reordered(order, last, i)[1] = order[i]
<1> DEFINE back == SubSeq(order, i, Len(order))
           front == SubSeq(order, 1, i - 1)
           rest == RemoveAt(order, i)
<1>1. /\ back \in Seq(KnownGroups) /\ Len(back) = Len(order) - i + 1
      /\ back[1] = order[i] /\ front \in Seq(KnownGroups)
      /\ order[i] \in KnownGroups
  OBVIOUS
<1>2. rest \in Seq(KnownGroups)
  BY RemoveAtFacts
<1> HIDE DEF back, front, rest
<1>3. /\ back \o front \in Seq(KnownGroups)
      /\ Len(back \o front) = Len(back) + Len(front)
      /\ (back \o front)[1] = order[i]
  <2>1. Len(back) \in Nat \ {0} /\ Len(front) \in Nat
    BY <1>1
  <2>2. /\ back \o front \in Seq(KnownGroups)
        /\ Len(back \o front) = Len(back) + Len(front)
    BY <1>1, ConcatProperties
  <2>3. (back \o front)[1] = back[1]
    BY <1>1, <2>1
  <2> QED BY <1>1, <2>2, <2>3
<1>4. /\ <<order[i]>> \o rest \in Seq(KnownGroups)
      /\ Len(<<order[i]>> \o rest) = 1 + Len(rest)
      /\ (<<order[i]>> \o rest)[1] = order[i]
  <2>1. <<order[i]>> \in Seq(KnownGroups) /\ Len(<<order[i]>>) = 1
        /\ <<order[i]>>[1] = order[i] /\ Len(rest) \in Nat
    BY <1>1, <1>2
  <2> QED BY <1>2, <2>1, ConcatProperties
<1>5. /\ back \o front # <<>> /\ <<order[i]>> \o rest # <<>>
  <2>1. Len(back \o front) # 0
    BY <1>1, <1>3
  <2>2. Len(<<order[i]>> \o rest) # 0
    BY <1>2, <1>4
  <2> QED BY <2>1, <2>2
<1>6. CASE last = None \/ IsSingleKey(last)
  <2>1. Reordered(order, last, i) = back \o front
    BY <1>6 DEF Reordered, back, front
  <2> QED BY <2>1, <1>3, <1>5
<1>7. CASE ~(last = None \/ IsSingleKey(last))
  <2>1. Reordered(order, last, i) = <<order[i]>> \o rest
    BY <1>7 DEF Reordered, MoveToFront, rest
  <2> QED BY <2>1, <1>4, <1>5
<1> QED BY <1>6, <1>7

\* The handlers of the signals of the groups.
LEMMA GroupsChangeFacts ==
  ASSUME NEW s, Typed(s), NEW order \in Seq(KnownGroups) \ {<<>>}
  PROVE  LET r == GroupsChange(s, order)
         IN  /\ Typed(r) /\ r.groups = order
             /\ r.active = s.active /\ r.localIM = s.localIM
             /\ r.capability = s.capability /\ r.has = s.has /\ r.allow = s.allow
<1> DEFINE q == [s EXCEPT !.groups = order]
           r == SwitchInputMethod(q, Focused(s), s)
<1>1. q = [Rec(s) EXCEPT !.groups = order]
  BY DEF Typed
<1> HIDE DEF q
<1>2. /\ q = Rec(q) /\ q.active = s.active /\ q.localIM = s.localIM
      /\ q.lastIM = s.lastIM /\ q.opened = s.opened /\ q.byAlt = s.byAlt
      /\ q.groups = order /\ q.capability = s.capability
      /\ q.has = s.has /\ q.allow = s.allow
  BY <1>1 DEF Rec
<1>3. Typed(q)
  BY <1>2 DEF Typed
<1>4. Focused(s) \in SUBSET State
  BY DEF Focused, State
<1>5. Typed(r) /\ SameChoice(q, r)
  BY <1>3, <1>4, SwitchFacts
<1>6. GroupsChange(s, order) = r
  BY DEF GroupsChange, q
<1> HIDE DEF r
<1> QED BY <1>2, <1>5, <1>6 DEF SameChoice

\* A change of the default is none of the order.
LEMMA DefaultKeepsOrder ==
  ASSUME NEW s, Typed(s), NEW im
  PROVE  Order(SetDefaultInputMethod(s, im).groups) = Order(s.groups)
<1> DEFINE d == Normalized(List(s), im)
           G == [s.groups EXCEPT ![1].default = d]
<1>1. SetDefaultInputMethod(s, im).groups = G
  BY DEF Typed, Rec, SetDefaultInputMethod
<1> HIDE DEF d
<1>2. /\ s.groups \in Seq(KnownGroups) /\ DOMAIN s.groups = DOMAIN G
      /\ \A i \in DOMAIN s.groups : s.groups[i] \in KnownGroups
  BY DEF Typed
<1>3. \A i \in DOMAIN G : /\ G[i].list = s.groups[i].list
                          /\ G[i].layout = s.groups[i].layout
  BY <1>2 DEF KnownGroups
<1> HIDE DEF G
<1> QED BY <1>1, <1>2, <1>3 DEF Order

\* Groups in the same order are equally many, with the same lists.
LEMMA SameOrder ==
  ASSUME NEW a \in Seq(KnownGroups), NEW b \in Seq(KnownGroups),
         Order(a) = Order(b)
  PROVE  /\ Len(a) = Len(b)
         /\ \A i \in 1..Len(a) : a[i].list = b[i].list /\ a[i].layout = b[i].layout
<1>1. DOMAIN a = DOMAIN b
  <2>1. DOMAIN Order(a) = DOMAIN a /\ DOMAIN Order(b) = DOMAIN b
    BY DEF Order
  <2> QED BY <2>1
<1>2. Len(a) = Len(b)
  BY <1>1
<1>3. ASSUME NEW i \in 1..Len(a)
      PROVE  a[i].list = b[i].list /\ a[i].layout = b[i].layout
  <2>1. /\ Order(a)[i] = <<a[i].list, a[i].layout>>
        /\ Order(b)[i] = <<b[i].list, b[i].layout>>
    BY <1>1, <1>3 DEF Order
  <2> QED BY <2>1
<1> QED BY <1>2, <1>3

(***************************************************************************)
(* Instance::enumerate.                                                    *)
(***************************************************************************)

\* The branch that chooses an input method other than the first.
LEMMA GoesTo ==
  ASSUME NEW s, Typed(s), NEW ic \in State, NEW im, alive \in SUBSET InputContext
  PROVE  LET watched == Focused(s) \cup {ic}
             chosen == SetActive(SetDefaultInputMethod(s, im), ic, TRUE, watched)
             r == Checked(s, Focused(s) \ {ic},
                          SetLocalIM(chosen, ic, None, watched))
         IN  /\ HasState(r, ic, TRUE, None)
             /\ r.groups[1].default = Normalized(List(s), im)
             /\ Order(r.groups) = Order(s.groups)
<1> DEFINE watched == Focused(s) \cup {ic}
           X == Focused(s) \ {ic}
           d == SetDefaultInputMethod(s, im)
           q == SetActive(d, ic, TRUE, watched)
           l == SetLocalIM(q, ic, None, watched)
           r == Checked(s, X, l)
<1>1. /\ watched \in SUBSET State /\ X \in SUBSET State
      /\ Focused(s) \subseteq watched
  BY DEF Focused, State
<1> HIDE DEF watched, X
<1>2. /\ Typed(d) /\ d.groups[1].default = Normalized(List(s), im)
      /\ Order(d.groups) = Order(s.groups)
  BY <1>1, SetDefaultFacts, DefaultKeepsOrder DEF Careful
<1> HIDE DEF d
<1>3. Typed(q) /\ q.groups = d.groups /\ q.active[ic] = TRUE
  <2>1. /\ Careful(d, q, watched \cup {ic}) /\ q.groups = d.groups
        /\ HasState(q, ic, TRUE, d.localIM[ic])
    BY <1>1, <1>2, SetActiveFacts
  <2> HIDE DEF q
  <2> QED BY <2>1 DEF Careful, HasState
<1> HIDE DEF q
<1>4. Typed(l) /\ l.groups = d.groups /\ HasState(l, ic, TRUE, None)
  <2>1. /\ Careful(q, l, watched \cup {ic}) /\ l.groups = q.groups
        /\ HasState(l, ic, q.active[ic], None)
    BY <1>1, <1>3, SetLocalIMFacts
  <2> QED BY <1>3, <2>1 DEF Careful
<1> HIDE DEF l
<1>5. SameChoice(l, r)
  BY <1>1, <1>4, CheckedFacts DEF Checked
<1> HIDE DEF r
<1>6. HasState(r, ic, TRUE, None) /\ r.groups = d.groups
  BY <1>4, <1>5 DEF SameChoice, HasState
<1> QED BY <1>2, <1>6 DEF r, l, q, d, watched, X

\* The order of the groups stays what it is.
LEMMA EnumerateKeepsOrder ==
  ASSUME NEW s, Typed(s), NEW ic \in State, NEW forward \in BOOLEAN,
         alive \in SUBSET InputContext
  PROVE  Order(Enumerate(s, ic, forward).groups) = Order(s.groups)
<1>1. SetActive(s, ic, FALSE, {ic}).groups = s.groups
  <2>1. {ic} \in SUBSET State
    OBVIOUS
  <2> QED BY <2>1, SetActiveFacts
<1> QED BY <1>1, GoesTo DEF Enumerate

\* Position i of the list comes before position After(list, i).
After(list, i) == IF i = Len(list) THEN 1 ELSE i + 1

\* Forward, and without skipping the first, the next one of the list is used.
LEMMA EnumerateGoesOn ==
  ASSUME NEW s, Typed(s), NEW ic \in State, alive \in SUBSET InputContext,
         CanTrigger(s), ~EnumerateSkipFirst, ~InputMethodDisabled(s, ic),
         \A i, j \in 1..Len(List(s)) : List(s)[i] = List(s)[j] => i = j,
         NEW i \in 1..Len(List(s)), List(s)[i] = InputMethodOf(s, ic)
  PROVE  InputMethodOf(Enumerate(s, ic, TRUE), ic) = List(s)[After(List(s), i)]
<1> DEFINE L == List(s)
           at == Position(L, InputMethodOf(s, ic))
           next == After(L, i)
           r == Enumerate(s, ic, TRUE)
           W == Focused(s) \cup {ic}
           chosen == Checked(s, Focused(s) \ {ic},
                       SetLocalIM(SetActive(SetDefaultInputMethod(s, L[next]), ic,
                                            TRUE, W), ic, None, W))
           off == SetActive(s, ic, FALSE, {ic})
<1>1. L \in Seq(InputMethod) /\ Len(L) \in Nat /\ Len(L) > 1
  BY FirstGroup DEF CanTrigger
<1>2. at = i
  BY <1>1, PositionFacts DEF FoundAt
<1>3. next \in 1..Len(L) /\ NextIndex(s, i, TRUE) = next
  <2> DEFINE m == i % Len(L)
  <2>1. NextIndex(s, i, TRUE) = m + 1
    BY DEF NextIndex
  <2>2. m = IF i = Len(L) THEN 0 ELSE i
    BY <1>1
  <2> HIDE DEF m
  <2>3. CASE i = Len(L)
    <3>1. m = 0 /\ next = 1
      BY <2>2, <2>3 DEF After
    <3>2. 1 \in 1..Len(L)
      BY <1>1
    <3>3. m + 1 = 1
      BY <3>1
    <3> HIDE DEF L, next
    <3> QED BY <2>1, <3>1, <3>2, <3>3
  <2>4. CASE i # Len(L)
    <3>1. m = i /\ next = i + 1 /\ i + 1 \in 1..Len(L)
      BY <1>1, <2>2, <2>4 DEF After
    <3> QED BY <2>1, <3>1
  <2> QED BY <2>3, <2>4
<1> HIDE DEF L
<1>4. r = IF next # 1 THEN chosen ELSE off
  <2> HIDE DEF next
  <2>1. ~(~CanTrigger(s) \/ at = 0 \/ (EnumerateSkipFirst /\ Len(List(s)) <= 2))
    BY <1>2
  <2>2. NextIndex(s, at, TRUE) = next
    BY <1>2, <1>3
  <2> QED BY <2>1, <2>2 DEF Enumerate, Position, L
<1>5. /\ ~InputMethodDisabled(r, ic) /\ List(r) = L
      /\ L # <<>> /\ Head(L) = L[1]
  <2>1. Careful(s, r, {ic})
    BY EnumerateFacts
  <2> HIDE DEF r
  <2>2. r.capability = s.capability /\ r.allow = s.allow /\ List(r) = List(s)
    BY <2>1 DEF Careful, List
  <2> QED BY <1>1, <2>2 DEF InputMethodDisabled, L
<1>6. HasState(off, ic, FALSE, s.localIM[ic])
  <2>1. {ic} \in SUBSET State
    OBVIOUS
  <2> QED BY <2>1, SetActiveFacts
<1>7. /\ HasState(chosen, ic, TRUE, None)
      /\ chosen.groups[1].default = Normalized(L, L[next])
  BY GoesTo DEF L
<1> HIDE DEF off, chosen, r, next
<1>8. ASSUME next = 1 PROVE InputMethodOf(r, ic) = L[next]
  BY <1>4, <1>5, <1>6, <1>8 DEF InputMethodOf, HasState
<1>9. ASSUME next # 1 PROVE InputMethodOf(r, ic) = L[next]
  <2>2. None \notin ToSet(L)
    BY <1>1, NoNullItem
  <2>3. Normalized(L, L[next]) = L[next]
    <3>1. L[next] # L[1] /\ L[next] \in ToSet(L)
      BY <1>1, <1>3, <1>9 DEF ToSet, L
    <3> QED BY <1>1, <3>1, NormalizedFacts
  <2> QED BY <1>4, <1>5, <1>7, <1>9, <2>2, <2>3 DEF InputMethodOf, HasState
<1> QED BY <1>8, <1>9 DEF L, r, next

(***************************************************************************)
(* What the key handler hands on.                                          *)
(***************************************************************************)

KeyRec == [released : 0..Len(KeyHandlers), lastKey : Key \cup {None},
           totally : BOOLEAN, pending : Nat, first : BOOLEAN]

Hand(s) == [im |-> s.im, key |-> s.key, alt |-> s.alt, ignored |-> s.ignored,
            tip |-> s.tip]

Held(s) ==
  /\ s = Hand(s)
  /\ Typed(s.im)
  /\ s.key \in KeyRec
  /\ s.alt \in BOOLEAN /\ s.ignored \in BOOLEAN

\* Keys move no focus and change no capability.
SameWorld(s, r) ==
  /\ r.im.has = s.im.has /\ r.im.allow = s.im.allow
  /\ r.im.capability = s.im.capability

\* The tip names the pending group.
TipFits(s) ==
  s.tip # None /\ s.key.pending # 0
    => /\ s.key.pending + 1 \in 1..Len(s.im.groups)
       /\ s.tip = Order(s.im.groups)[s.key.pending + 1]

\* The tip named what is the current group now.
Told(s) == s.tip # None => s.tip = Order(s.im.groups)[1]

\* The last press, and whether all was released, are left to the caller.
SamePress(s, r) ==
  /\ r.key.released = s.key.released /\ r.key.lastKey = s.key.lastKey
  /\ r.key.totally = s.key.totally

\* A group may have been made pending, with the tip that says so.
MayPend(s, r) ==
  \/ r.key.pending = s.key.pending /\ r.tip = s.tip
  \/ /\ r.key.pending + 1 \in 1..Len(r.im.groups)
     /\ r.tip = Order(r.im.groups)[r.key.pending + 1]

Acts(s, r) ==
  /\ Held(r) /\ SameWorld(s, r) /\ SamePress(s, r) /\ MayPend(s, r)
  /\ r.ignored = s.ignored
  /\ Order(r.im.groups) = Order(s.im.groups)

\* The operations on the input method, as a handler of keys calls them.
LEMMA HandSwitched ==
  ASSUME NEW s, Held(s), NEW im,
         Typed(im), Order(im.groups) = Order(s.im.groups),
         im.has = s.im.has, im.allow = s.im.allow,
         im.capability = s.im.capability
  PROVE  /\ Acts(s, [s EXCEPT !.im = im])
         /\ \A alt \in BOOLEAN : Acts(s, [s EXCEPT !.im = im, !.alt = alt])
         /\ \A first \in BOOLEAN :
              Acts(s, [s EXCEPT !.im = im, !.key.first = first])
<1> USE DEF Acts, SameWorld, SamePress, MayPend
<1>1. Acts(s, [s EXCEPT !.im = im])
  <2> DEFINE r == [s EXCEPT !.im = im]
  <2>1. r = [Hand(s) EXCEPT !.im = im]
    BY DEF Held
  <2> HIDE DEF r
  <2>2. /\ r = Hand(r) /\ r.im = im /\ r.key = s.key /\ r.alt = s.alt
        /\ r.ignored = s.ignored /\ r.tip = s.tip
    BY <2>1 DEF Hand
  <2>3. Held(r)
    BY <2>2 DEF Held
  <2> QED BY <2>2, <2>3 DEF r
<1>2. ASSUME NEW alt \in BOOLEAN
      PROVE  Acts(s, [s EXCEPT !.im = im, !.alt = alt])
  <2> DEFINE r == [s EXCEPT !.im = im, !.alt = alt]
  <2>1. r = [Hand(s) EXCEPT !.im = im, !.alt = alt]
    BY DEF Held
  <2> HIDE DEF r
  <2>2. /\ r = Hand(r) /\ r.im = im /\ r.key = s.key /\ r.alt = alt
        /\ r.ignored = s.ignored /\ r.tip = s.tip
    BY <2>1 DEF Hand
  <2>3. Held(r)
    BY <2>2 DEF Held
  <2> QED BY <2>2, <2>3 DEF r
<1>3. ASSUME NEW first \in BOOLEAN
      PROVE  Acts(s, [s EXCEPT !.im = im, !.key.first = first])
  <2> DEFINE k == [s.key EXCEPT !.first = first]
             r == [s EXCEPT !.im = im, !.key.first = first]
  <2>1. r = [Hand(s) EXCEPT !.im = im, !.key = k]
    BY DEF Held, Hand
  <2>2. /\ k \in KeyRec /\ k.released = s.key.released
        /\ k.lastKey = s.key.lastKey /\ k.totally = s.key.totally
        /\ k.pending = s.key.pending
    BY DEF Held, KeyRec
  <2> HIDE DEF r, k
  <2>3. /\ r = Hand(r) /\ r.im = im /\ r.key = k /\ r.alt = s.alt
        /\ r.ignored = s.ignored /\ r.tip = s.tip
    BY <2>1 DEF Hand
  <2>4. Held(r)
    BY <2>2, <2>3 DEF Held
  <2> QED BY <2>2, <2>3, <2>4 DEF r
<1> QED BY <1>1, <1>2, <1>3

LEMMA NavigateFacts ==
  ASSUME NEW s, Held(s), NEW forward \in BOOLEAN
  PROVE  Acts(s, NavigateGroup(s, forward))
<1> DEFINE n == Len(s.im.groups)
           pending == (s.key.pending + (IF forward THEN 1 ELSE n - 1)) % n
           text == Order(s.im.groups)[pending + 1]
           k == [s.key EXCEPT !.pending = pending]
           r == NavigateGroup(s, forward)
<1>1. r = [Hand(s) EXCEPT !.key = k, !.tip = text]
  BY DEF Held, Hand, NavigateGroup
<1>2. pending \in Nat /\ pending + 1 \in 1..n
  <2>1. n \in Nat \ {0} /\ s.key.pending \in Nat
    <3>1. s.im.groups \in Seq(KnownGroups) /\ s.im.groups # <<>>
      BY DEF Held, Typed
    <3> QED BY <3>1 DEF Held, KeyRec
  <2> DEFINE a == s.key.pending + (IF forward THEN 1 ELSE n - 1)
  <2>2. a \in Nat
    BY <2>1
  <2> HIDE DEF n, a
  <2>3. a % n \in 0..(n - 1)
    BY <2>1, <2>2
  <2> QED BY <2>1, <2>3 DEF a
<1> HIDE DEF r, pending
<1>3. /\ k \in KeyRec /\ k.released = s.key.released
      /\ k.lastKey = s.key.lastKey /\ k.totally = s.key.totally
      /\ k.pending = pending
  BY <1>2 DEF Held, KeyRec
<1> HIDE DEF k, text, n
<1>4. /\ r = Hand(r) /\ r.im = s.im /\ r.key = k /\ r.alt = s.alt
      /\ r.ignored = s.ignored /\ r.tip = text
  BY <1>1 DEF Hand
<1>5. Held(r)
  BY <1>3, <1>4 DEF Held
<1> QED BY <1>2, <1>3, <1>4, <1>5 DEF Acts, SameWorld, SamePress, MayPend, r, text, n

\* Whatever a hot key does, it is for the input method of its context, or makes a
\* group pending.
LEMMA ActFacts ==
  ASSUME NEW s, Held(s), NEW ic \in InputContext, NEW handler,
         alive \in SUBSET InputContext
  PROVE  Acts(s, Act(s, ic, handler))
<1> DEFINE Fits(im) == /\ Typed(im) /\ Order(im.groups) = Order(s.im.groups)
                       /\ im.has = s.im.has /\ im.allow = s.im.allow
                       /\ im.capability = s.im.capability
<1>1. /\ Typed(s.im) /\ ic \in State /\ {ic} \in SUBSET State
      /\ {ic} \cup {ic} = {ic}
      /\ s.key.totally \in BOOLEAN
  BY DEF Held, State, KeyRec
<1>2. Fits(Toggle(s.im, ic))
  <2>1. Careful(s.im, Toggle(s.im, ic), {ic}) /\ Toggle(s.im, ic).groups = s.im.groups
    BY <1>1, ToggleFacts
  <2> QED BY <2>1 DEF Careful
<1>3. ASSUME NEW on \in BOOLEAN
      PROVE  Fits(SetEnabled(s.im, ic, on, {ic}))
  <2>1. /\ Careful(s.im, SetActive(s.im, ic, on, {ic}), {ic})
        /\ SetActive(s.im, ic, on, {ic}).groups = s.im.groups
    BY <1>1, SetActiveFacts
  <2>2. Careful(s.im, s.im, {ic})
    BY <1>1, CarefulSelf
  <2> QED BY <2>1, <2>2 DEF SetEnabled, Careful
<1>4. ASSUME NEW forward \in BOOLEAN
      PROVE  Fits(Enumerate(s.im, ic, forward))
  <2>1. Careful(s.im, Enumerate(s.im, ic, forward), {ic})
    BY <1>1, EnumerateFacts
  <2>2. Order(Enumerate(s.im, ic, forward).groups) = Order(s.im.groups)
    BY <1>1, EnumerateKeepsOrder
  <2> QED BY <2>1, <2>2 DEF Careful
<1>5. CASE handler = "triggerKeys"
  <2> DEFINE im == IF TriggerToggles(s, ic) THEN Toggle(s.im, ic)
                   ELSE Enumerate(s.im, ic, TRUE)
  <2>1. Fits(im)
    <3>1. Fits(Enumerate(s.im, ic, TRUE))
      BY <1>4
    <3> QED BY <1>2, <3>1
  <2> HIDE DEF im
  <2>2. Trigger(s, ic) = [s EXCEPT !.im = im, !.key.first = s.key.totally]
    <3>1. Triggered(s, ic) = [s EXCEPT !.im = im]
      BY DEF Triggered, im
    <3>2. [s EXCEPT !.im = im] = [Hand(s) EXCEPT !.im = im]
      BY DEF Held
    <3> DEFINE k == [s.key EXCEPT !.first = s.key.totally]
    <3>3. [[s EXCEPT !.im = im] EXCEPT !.key.first = s.key.totally]
            = [Hand(s) EXCEPT !.im = im, !.key = k]
      BY <3>2 DEF Hand
    <3>4. [s EXCEPT !.im = im, !.key.first = s.key.totally]
            = [Hand(s) EXCEPT !.im = im, !.key = k]
      BY DEF Held, Hand
    <3> QED BY <3>1, <3>3, <3>4 DEF Trigger
  <2>3. Act(s, ic, handler) = Trigger(s, ic)
    BY <1>5 DEF Act
  <2>4. \A first \in BOOLEAN :
          Acts(s, [s EXCEPT !.im = im, !.key.first = first])
    BY <2>1, HandSwitched
  <2>5. Acts(s, [s EXCEPT !.im = im, !.key.first = s.key.totally])
    BY <1>1, <2>4
  <2> QED BY <2>2, <2>3, <2>5
<1>6. CASE handler = "altTriggerKeys"
  <2>1. Act(s, ic, handler) = [s EXCEPT !.im = Toggle(s.im, ic), !.alt = TRUE]
    BY <1>6 DEF Act
  <2> DEFINE im == Toggle(s.im, ic)
  <2>2. Fits(im)
    BY <1>2
  <2> HIDE DEF im
  <2>3. Acts(s, [s EXCEPT !.im = im, !.alt = TRUE])
    <3>1. \A alt \in BOOLEAN : Acts(s, [s EXCEPT !.im = im, !.alt = alt])
      BY <2>2, HandSwitched
    <3> QED BY <3>1
  <2> QED BY <2>1, <2>3 DEF im
<1>7. CASE handler \in {"activateKeys", "deactivateKeys"}
  <2> DEFINE on == handler = "activateKeys"
             im == SetEnabled(s.im, ic, on, {ic})
  <2>1. Act(s, ic, handler) = [s EXCEPT !.im = im]
    BY <1>7 DEF Act
  <2>2. Fits(im)
    <3>1. on \in BOOLEAN
      OBVIOUS
    <3> HIDE DEF on
    <3> QED BY <1>3, <3>1
  <2> HIDE DEF im
  <2>3. Acts(s, [s EXCEPT !.im = im])
    BY <2>2, HandSwitched
  <2> QED BY <2>1, <2>3
<1>8. CASE handler \in {"enumerateForwardKeys", "enumerateBackwardKeys"}
  <2> DEFINE forward == handler = "enumerateForwardKeys"
             im == Enumerate(s.im, ic, forward)
  <2>1. Act(s, ic, handler) = [s EXCEPT !.im = im]
    BY <1>8 DEF Act
  <2>2. Fits(im)
    <3>1. forward \in BOOLEAN
      OBVIOUS
    <3> HIDE DEF forward
    <3> QED BY <1>4, <3>1
  <2> HIDE DEF im
  <2>3. Acts(s, [s EXCEPT !.im = im])
    BY <2>2, HandSwitched
  <2> QED BY <2>1, <2>3
<1>9. CASE handler \notin {"triggerKeys", "altTriggerKeys", "activateKeys",
                           "deactivateKeys", "enumerateForwardKeys",
                           "enumerateBackwardKeys"}
  <2> DEFINE forward == handler = "enumerateGroupForwardKeys"
  <2>1. Act(s, ic, handler) = NavigateGroup(s, forward)
    BY <1>9 DEF Act
  <2>2. forward \in BOOLEAN
    OBVIOUS
  <2> HIDE DEF forward
  <2> QED BY <2>1, <2>2, NavigateFacts
<1> QED BY <1>5, <1>6, <1>7, <1>8, <1>9

\* A group is accepted or nothing happens.
LEMMA AcceptedFacts ==
  ASSUME NEW s, Held(s), TipFits(s), NEW last
  PROVE  LET r == Accepted(s, last)
         IN  /\ Held(r) /\ SameWorld(s, r)
             /\ r.im.active = s.im.active /\ r.im.localIM = s.im.localIM
             /\ r.key.released = s.key.released /\ r.key.totally = s.key.totally
             /\ r.key.first = s.key.first /\ r.tip = s.tip
             /\ \/ r = s
                \/ r.key.pending = 0 /\ s.key.pending # 0 /\ s.key.totally
             /\ Order(r.im.groups) = Order(s.im.groups) \/ Told(r)
<1> DEFINE i == s.key.pending + 1
           order == Reordered(s.im.groups, last, i)
           im == IF i <= Len(s.im.groups) THEN GroupsChange(s.im, order) ELSE s.im
           k == [s.key EXCEPT !.pending = 0, !.lastKey = None]
           r == AcceptGroupChange(s, last)
<1>1. r = [Hand(s) EXCEPT !.im = im, !.key = k, !.ignored = TRUE]
  BY DEF Held, Hand, AcceptGroupChange, AcceptAt
<1>2. /\ k \in KeyRec /\ k.released = s.key.released
      /\ k.totally = s.key.totally /\ k.first = s.key.first /\ k.pending = 0
  BY DEF Held, KeyRec
<1>3. /\ s.im.groups \in Seq(KnownGroups) /\ Len(s.im.groups) \in Nat
      /\ i \in Nat \ {0} /\ Typed(s.im)
  BY DEF Held, Typed, KeyRec
<1>4. i \in 1..Len(s.im.groups) =>
        /\ order \in Seq(KnownGroups) \ {<<>>} /\ order[1] = s.im.groups[i]
  BY <1>3, ReorderedFacts
<1> HIDE DEF order, k
<1>5. /\ Typed(im) /\ im.active = s.im.active /\ im.localIM = s.im.localIM
      /\ im.has = s.im.has /\ im.allow = s.im.allow
      /\ im.capability = s.im.capability
  BY <1>3, <1>4, GroupsChangeFacts
<1>6. \/ im = s.im
      \/ i \in 1..Len(s.im.groups) /\ im.groups = order
  BY <1>3, <1>4, GroupsChangeFacts
<1> HIDE DEF im, r
<1>7. /\ r = Hand(r) /\ r.im = im /\ r.key = k /\ r.alt = s.alt
      /\ r.ignored = TRUE /\ r.tip = s.tip
  BY <1>1 DEF Hand
<1>8. Held(r) /\ SameWorld(s, r)
  BY <1>2, <1>5, <1>7 DEF Held, SameWorld
<1>9. s.key.pending # 0 => Order(r.im.groups) = Order(s.im.groups) \/ Told(r)
  <2> SUFFICES ASSUME s.key.pending # 0, im # s.im, s.tip # None
               PROVE  Told(r)
    BY <1>7 DEF Told
  <2>1. /\ i \in 1..Len(s.im.groups) /\ im.groups = order
        /\ s.tip = Order(s.im.groups)[i]
    BY <1>6 DEF TipFits
  <2>2. /\ order \in Seq(KnownGroups) \ {<<>>} /\ order[1] = s.im.groups[i]
    BY <1>4, <2>1
  <2>3. 1 \in DOMAIN order /\ i \in DOMAIN s.im.groups
    BY <1>3, <2>1, <2>2
  <2>4. Order(order)[1] = Order(s.im.groups)[i]
    BY <2>2, <2>3 DEF Order
  <2> QED BY <1>7, <2>1, <2>4 DEF Told
<1>10. CASE s.key.pending # 0 /\ s.key.totally
  <2>1. Accepted(s, last) = r
    BY <1>10 DEF Accepted, r
  <2> QED BY <1>2, <1>5, <1>7, <1>8, <1>9, <1>10, <2>1
<1>11. CASE ~(s.key.pending # 0 /\ s.key.totally)
  <2>1. Accepted(s, last) = s
    BY <1>11 DEF Accepted
  <2> QED BY <2>1 DEF SameWorld
<1> QED BY <1>10, <1>11

\* What totallyReleased_ is set to does not matter to anything else.
LEMMA HandTotally ==
  ASSUME NEW s, Held(s), NEW totally \in BOOLEAN
  PROVE  LET r == [s EXCEPT !.key.totally = totally]
         IN  /\ Held(r) /\ r.im = s.im /\ r.ignored = s.ignored
             /\ r.tip = s.tip /\ r.alt = s.alt
             /\ r.key.released = s.key.released /\ r.key.lastKey = s.key.lastKey
             /\ r.key.pending = s.key.pending /\ r.key.first = s.key.first
             /\ r.key.totally = totally
<1> DEFINE r == [s EXCEPT !.key.totally = totally]
           k == [s.key EXCEPT !.totally = totally]
<1>1. r = [Hand(s) EXCEPT !.key = k]
  BY DEF Held, Hand
<1>2. /\ k \in KeyRec /\ k.released = s.key.released /\ k.lastKey = s.key.lastKey
      /\ k.pending = s.key.pending /\ k.first = s.key.first
      /\ k.totally = totally
  BY DEF Held, KeyRec
<1> HIDE DEF k, r
<1>3. /\ r = Hand(r) /\ r.im = s.im /\ r.key = k /\ r.alt = s.alt
      /\ r.ignored = s.ignored /\ r.tip = s.tip
  BY <1>1 DEF Hand
<1>4. Held(r)
  BY <1>2, <1>3 DEF Held
<1> QED BY <1>2, <1>3, <1>4 DEF r

\* A release may do what its press was for.
LEMMA ReleasedFacts ==
  ASSUME NEW s, Held(s), NEW ic \in InputContext, NEW key \in Key, NEW handler,
         NEW within \in BOOLEAN, alive \in SUBSET InputContext
  PROVE  LET r == Released(s, ic, key, handler, within)
         IN  /\ Held(r) /\ SameWorld(s, r) /\ MayPend(s, r)
             /\ r.ignored = s.ignored /\ r.key.released = s.key.released
             /\ Order(r.im.groups) = Order(s.im.groups)
             /\ ~Fires(s, ic, key, handler)
                => /\ r.im = s.im /\ r.tip = s.tip /\ r.key.first = s.key.first
                   /\ r.key.pending = s.key.pending
                   /\ r.key.totally <=> IsSingleModifier(key) \/ s.key.totally
<1> DEFINE fires == Fires(s, ic, key, handler)
           a == IF fires /\ within THEN Act(s, ic, KeyHandlers[handler]) ELSE s
           totally == IsSingleModifier(key)
                        \/ (a.key.totally /\ ~(fires /\ HasModifier(key)))
           r == Released(s, ic, key, handler, within)
<1>1. Acts(s, a)
  <2>1. Acts(s, Act(s, ic, KeyHandlers[handler]))
    BY ActFacts
  <2>2. Acts(s, s)
    BY DEF Acts, SameWorld, SamePress, MayPend
  <2> QED BY <2>1, <2>2
<1>2. ~fires => a = s
  OBVIOUS
<1>3. r = [a EXCEPT !.key.totally = totally]
  BY DEF Released
<1>4. totally \in BOOLEAN
  OBVIOUS
<1>5. ~fires => (totally <=> IsSingleModifier(key) \/ a.key.totally)
  OBVIOUS
<1> HIDE DEF a, fires, totally, r
<1>6. /\ Held(r) /\ r.im = a.im /\ r.ignored = a.ignored /\ r.tip = a.tip
      /\ r.key.released = a.key.released /\ r.key.pending = a.key.pending
      /\ r.key.first = a.key.first /\ r.key.totally = totally
  BY <1>1, <1>3, <1>4, HandTotally DEF Acts
<1>7. ~fires => /\ r.im = s.im /\ r.tip = s.tip /\ r.key.first = s.key.first
                /\ r.key.pending = s.key.pending
                /\ r.key.totally <=> IsSingleModifier(key) \/ s.key.totally
  BY <1>2, <1>5, <1>6
<1> QED BY <1>1, <1>6, <1>7 DEF Acts, SameWorld, SamePress, MayPend, r, fires

\* A press that a handler takes, as it is noted.
Noted(s, handler, key) ==
  [s EXCEPT !.key.released = handler, !.key.lastKey = key]

LEMMA HandNoted ==
  ASSUME NEW s, Held(s), NEW handler \in 1..Len(KeyHandlers), NEW key \in Key
  PROVE  LET r == Noted(s, handler, key)
         IN  /\ Held(r) /\ r.im = s.im /\ r.ignored = s.ignored
             /\ r.tip = s.tip /\ r.alt = s.alt
             /\ r.key.released = handler /\ r.key.lastKey = key
             /\ r.key.pending = s.key.pending /\ r.key.first = s.key.first
             /\ r.key.totally = s.key.totally
<1> DEFINE r == Noted(s, handler, key)
           k == [s.key EXCEPT !.released = handler, !.lastKey = key]
<1>1. r = [Hand(s) EXCEPT !.key = k]
  BY DEF Held, Hand, Noted
<1>2. /\ k \in KeyRec /\ k.released = handler /\ k.lastKey = key
      /\ k.pending = s.key.pending /\ k.first = s.key.first
      /\ k.totally = s.key.totally
  <2>1. Len(KeyHandlers) = 8
    BY DEF KeyHandlers
  <2>2. handler \in 0..Len(KeyHandlers)
    BY <2>1
  <2> QED BY <2>2 DEF Held, KeyRec
<1> HIDE DEF k, r
<1>3. /\ r = Hand(r) /\ r.im = s.im /\ r.key = k /\ r.alt = s.alt
      /\ r.ignored = s.ignored /\ r.tip = s.tip
  BY <1>1 DEF Hand
<1>4. Held(r)
  BY <1>2, <1>3 DEF Held
<1> QED BY <1>2, <1>3, <1>4 DEF r

\* The first of those that may take a key is one of them.
LEMMA FirstTaker ==
  ASSUME NEW s, NEW ic, NEW key, Takers(s, ic, key) # {}
  PROVE  /\ Min(Takers(s, ic, key)) \in Takers(s, ic, key)
         /\ \A i \in Takers(s, ic, key) : Min(Takers(s, ic, key)) <= i
         /\ Takers(s, ic, key) \subseteq 1..Len(KeyHandlers)
<1> DEFINE T == Takers(s, ic, key)
<1>1. T \subseteq DOMAIN KeyHandlers /\ DOMAIN KeyHandlers = 1..Len(KeyHandlers)
      /\ Len(KeyHandlers) = 8
  BY DEF Takers, KeyHandlers
<1> HIDE DEF T
<1>2. T # {} => Min(T) \in T /\ \A i \in T : Min(T) <= i
  <2>1. T \subseteq Nat
    BY <1>1
  <2> QED BY <2>1, HasLeast DEF Min
<1> QED BY <1>1, <1>2 DEF T

\* A press is taken by the handler that is noted, or by none.
LEMMA PressedFacts ==
  ASSUME NEW s, Held(s), NEW ic \in InputContext, NEW key \in Key,
         alive \in SUBSET InputContext
  PROVE  LET r == Pressed(s, ic, key)
         IN  /\ Held(r) /\ SameWorld(s, r) /\ MayPend(s, r)
             /\ r.ignored = s.ignored
             /\ Order(r.im.groups) = Order(s.im.groups)
             /\ r = s \/ r.key.lastKey = key
<1> DEFINE i == Min(Takers(s, ic, key))
           q == Noted(s, i, key)
           a == Act(q, ic, KeyHandlers[i])
           totally == a.key.totally /\ ~HasModifier(key)
           t == [a EXCEPT !.key.totally = totally]
           r == Pressed(s, ic, key)
<1>1. CASE Takers(s, ic, key) = {}
  <2>1. Pressed(s, ic, key) = s
    BY <1>1 DEF Pressed
  <2> QED BY <2>1 DEF SameWorld, MayPend
<1>2. CASE Takers(s, ic, key) # {}
  <2>1. i \in 1..Len(KeyHandlers)
    BY <1>2, FirstTaker
  <2>2. r = IF IsModifier(key) THEN q ELSE t
    BY <1>2 DEF Pressed, TakePress, Noted
  <2> HIDE DEF i
  <2>3. /\ Held(q) /\ q.im = s.im /\ q.ignored = s.ignored /\ q.tip = s.tip
        /\ q.key.lastKey = key /\ q.key.pending = s.key.pending
    BY <2>1, HandNoted
  <2> HIDE DEF q
  <2>4. Acts(q, a)
    BY <2>3, ActFacts
  <2>5. totally \in BOOLEAN
    OBVIOUS
  <2> HIDE DEF a, totally
  <2>6. /\ Held(t) /\ t.im = a.im /\ t.ignored = a.ignored /\ t.tip = a.tip
        /\ t.key.lastKey = a.key.lastKey /\ t.key.pending = a.key.pending
    BY <2>4, <2>5, HandTotally DEF Acts
  <2> HIDE DEF t, r
  <2>7. CASE IsModifier(key)
    BY <2>2, <2>3, <2>7 DEF SameWorld, MayPend, r
  <2>8. CASE ~IsModifier(key)
    BY <2>2, <2>3, <2>4, <2>6, <2>8
    DEF Acts, SameWorld, SamePress, MayPend, r
  <2> QED BY <2>7, <2>8
<1> QED BY <1>1, <1>2

(***************************************************************************)
(* The whole handler.                                                      *)
(***************************************************************************)

\* What an event starts from, when it has forgotten the last press.
Begins(s, ic) ==
  /\ Held(s) /\ s.im = Now /\ s.tip = tip[ic] /\ s.ignored = FALSE
  /\ s.key.released = 0 /\ s.key.lastKey = keyState[ic].lastKey
  /\ s.key.totally = keyState[ic].totally
  /\ s.key.pending = keyState[ic].pending /\ s.key.first = keyState[ic].first

LEMMA BeginFacts ==
  ASSUME NEW ic \in InputContext, Typed(Now), keyState[ic] \in KeyRec
  PROVE  Begins(ForgetPress(NowFor(ic)), ic)
<1> DEFINE s == NowFor(ic)
           k == [keyState[ic] EXCEPT !.released = 0]
           r == ForgetPress(s)
<1>1. r = [im |-> Now, key |-> k, alt |-> FALSE, ignored |-> FALSE,
           tip |-> tip[ic]]
  <2>1. s = [im |-> Now, key |-> keyState[ic], alt |-> FALSE, ignored |-> FALSE,
             tip |-> tip[ic]]
    BY DEF NowFor
  <2> HIDE DEF s
  <2>2. s.key = keyState[ic]
    BY <2>1
  <2>3. r = [s EXCEPT !.key = k]
    BY <2>2 DEF ForgetPress
  <2> HIDE DEF k, r
  <2> QED BY <2>1, <2>3
<1>2. /\ k \in KeyRec /\ k.released = 0 /\ k.lastKey = keyState[ic].lastKey
      /\ k.totally = keyState[ic].totally
      /\ k.pending = keyState[ic].pending /\ k.first = keyState[ic].first
  <2>1. Len(KeyHandlers) = 8
    BY DEF KeyHandlers
  <2> QED BY <2>1 DEF KeyRec
<1> HIDE DEF k, r, s
<1>3. /\ r = Hand(r) /\ r.im = Now /\ r.key = k /\ r.alt = FALSE
      /\ r.ignored = FALSE /\ r.tip = tip[ic]
  BY <1>1 DEF Hand
<1> QED BY <1>2, <1>3 DEF Held, Begins, r, s

\* A tip that fits goes on doing so.
LEMMA StillFits ==
  ASSUME NEW s, NEW r, Held(s), Held(r), TipFits(s), MayPend(s, r),
         Order(r.im.groups) = Order(s.im.groups)
  PROVE  TipFits(r)
<1>1. Len(r.im.groups) = Len(s.im.groups)
  <2>1. r.im.groups \in Seq(KnownGroups) /\ s.im.groups \in Seq(KnownGroups)
    BY DEF Held, Typed
  <2> QED BY <2>1, SameOrder
<1> QED BY <1>1 DEF TipFits, MayPend

\* What the handler does before it looks whether the input method changed.
LEMMA ProcessedFacts ==
  ASSUME NEW s, NEW ic \in InputContext, Begins(s, ic), TipFits(s),
         NEW key \in Key, NEW release \in BOOLEAN, NEW handler,
         NEW within \in BOOLEAN, alive \in SUBSET InputContext
  PROVE  LET r == Processed(s, ic, key, release, handler, within)
         IN  /\ Held(r) /\ SameWorld(s, r) /\ TipFits(r)
             /\ \/ Order(r.im.groups) = Order(s.im.groups)
                \/ r.key.pending = 0 => Told(r)
             /\ r.key.released = 0 \/ (~release /\ r.key.lastKey = key)
             /\ release /\ ~Fires(s, ic, key, handler)
                  => r.im.active = s.im.active
<1> DEFINE last == s.key.lastKey
           q == Released(s, ic, key, handler, within)
           a == Accepted(s, last)
<1>1. Held(s) /\ s.key.released = 0
  BY DEF Begins
<1>2. CASE release
  <2>1. /\ Held(q) /\ SameWorld(s, q) /\ MayPend(s, q)
        /\ q.key.released = 0
        /\ Order(q.im.groups) = Order(s.im.groups)
        /\ ~Fires(s, ic, key, handler) => q.im = s.im
    BY <1>1, ReleasedFacts
  <2>2. Processed(s, ic, key, release, handler, within) = Accepted(q, last)
    BY <1>2 DEF Processed
  <2> HIDE DEF q, last
  <2> DEFINE r == Accepted(q, last)
  <2>3. TipFits(q)
    BY <1>1, <2>1, StillFits
  <2>4. /\ Held(r) /\ SameWorld(q, r) /\ r.im.active = q.im.active
        /\ r.key.released = q.key.released
        /\ r = q \/ r.key.pending = 0
        /\ Order(r.im.groups) = Order(q.im.groups) \/ Told(r)
    BY <2>1, <2>3, AcceptedFacts
  <2> HIDE DEF r
  <2>5. TipFits(r)
    BY <2>3, <2>4 DEF TipFits
  <2>6. SameWorld(s, r)
    BY <2>1, <2>4 DEF SameWorld
  <2>7. Processed(s, ic, key, release, handler, within) = r
    BY <2>2 DEF r
  <2> QED BY <2>1, <2>4, <2>5, <2>6, <2>7
<1>3. CASE ~release
  <2>1. /\ Held(a) /\ SameWorld(s, a) /\ a.key.released = 0
        /\ a = s \/ a.key.pending = 0
        /\ Order(a.im.groups) = Order(s.im.groups) \/ Told(a)
    BY <1>1, AcceptedFacts
  <2>2. Processed(s, ic, key, release, handler, within) = Pressed(a, ic, key)
    BY <1>3 DEF Processed
  <2> HIDE DEF a
  <2> DEFINE r == Pressed(a, ic, key)
  <2>3. /\ Held(r) /\ SameWorld(a, r) /\ MayPend(a, r)
        /\ Order(r.im.groups) = Order(a.im.groups)
        /\ r = a \/ r.key.lastKey = key
    BY <2>1, PressedFacts
  <2> HIDE DEF r
  <2>4. TipFits(a)
    BY <2>1 DEF TipFits
  <2>5. TipFits(r)
    BY <2>1, <2>3, <2>4, StillFits
  <2>6. Told(a) => (r.key.pending = 0 => Told(r))
    BY <2>3 DEF MayPend, Told
  <2>7. SameWorld(s, r)
    BY <2>1, <2>3 DEF SameWorld
  <2>8. Processed(s, ic, key, release, handler, within) = r
    BY <2>2 DEF r
  <2> QED BY <1>3, <2>1, <2>3, <2>5, <2>6, <2>7, <2>8
<1> QED BY <1>2, <1>3

\* What is known of the state of a context's keys and of its history.
KeysFit(ic) ==
  /\ keyState[ic] \in KeyRec
  /\ keyState[ic].released # 0 => pressed[ic] = keyState[ic].lastKey
  /\ tip[ic] # None /\ keyState[ic].pending # 0
       => /\ keyState[ic].pending + 1 \in 1..Len(groups)
          /\ tip[ic] = Order(groups)[keyState[ic].pending + 1]

\* Instance's handler of key events.
LEMMA HandleFacts ==
  ASSUME Typed(Now), alive \in SUBSET InputContext, NEW ic \in InputContext,
         KeysFit(ic), NEW key \in Key, NEW release \in BOOLEAN,
         NEW within \in BOOLEAN
  PROVE  LET r == HandleKey(ic, key, release, within)
         IN  /\ Held(r) /\ TipFits(r)
             /\ r.im.has = hasFocus /\ r.im.allow = allowPassword
             /\ r.im.capability = capability
             /\ \/ Order(r.im.groups) = Order(groups)
                \/ r.key.pending = 0 => Told(r)
             /\ r.key.released = 0 \/ (~release /\ r.key.lastKey = key)
             /\ release /\ ~IsReleaseOfModifier(key, pressed[ic])
                  => r.im.active = active
<1> DEFINE s == ForgetPress(NowFor(ic))
           handler == keyState[ic].released
           p == Processed(s, ic, key, release, handler, within)
           im == CheckedAs(p.alt, Now, {ic}, p.im)
           r == HandleKey(ic, key, release, within)
<1>1. Begins(s, ic)
  BY BeginFacts DEF KeysFit
<1>2. TipFits(s)
  <2>1. Now.groups = groups
    BY DEF Now
  <2> HIDE DEF s
  <2> QED BY <1>1, <2>1 DEF TipFits, Begins, KeysFit
<1>3. Fires(s, ic, key, handler) => IsReleaseOfModifier(key, pressed[ic])
  <2> HIDE DEF s
  <2> QED BY <1>1 DEF Fires, KeysFit, Begins
<1>4. r = [p EXCEPT !.im = IF p.ignored THEN p.im ELSE im]
  BY DEF HandleKey, CheckedKey
<1> HIDE DEF s, handler, r
<1>5. /\ Held(p) /\ SameWorld(s, p) /\ TipFits(p)
      /\ \/ Order(p.im.groups) = Order(s.im.groups)
         \/ p.key.pending = 0 => Told(p)
      /\ p.key.released = 0 \/ (~release /\ p.key.lastKey = key)
      /\ release /\ ~Fires(s, ic, key, handler) => p.im.active = s.im.active
  BY <1>1, <1>2, ProcessedFacts
<1> HIDE DEF p
<1>6. Typed(im) /\ SameChoice(p.im, im)
  <2>1. Typed(p.im) /\ p.alt \in BOOLEAN /\ {ic} \in SUBSET State
    BY <1>5 DEF Held, State
  <2> QED BY <2>1, CheckedFacts
<1> HIDE DEF im
<1>7. /\ Typed(r.im) /\ SameChoice(p.im, r.im) /\ r = Hand(r)
      /\ r.key = p.key /\ r.tip = p.tip /\ r.alt = p.alt /\ r.ignored = p.ignored
  <2>1. r = [Hand(p) EXCEPT !.im = IF p.ignored THEN p.im ELSE im]
    BY <1>4, <1>5 DEF Held
  <2>2. Typed(p.im) /\ SameChoice(p.im, p.im)
    BY <1>5 DEF Held, SameChoice
  <2> QED BY <1>6, <2>1, <2>2 DEF Hand
<1>8. Held(r)
  BY <1>5, <1>7 DEF Held
<1>9. /\ r.im.groups = p.im.groups /\ r.im.active = p.im.active
      /\ r.im.has = p.im.has /\ r.im.allow = p.im.allow
      /\ r.im.capability = p.im.capability
  BY <1>7 DEF SameChoice
<1>10. TipFits(r) /\ (Told(p) => Told(r))
  BY <1>5, <1>7, <1>9 DEF TipFits, Told
<1>11. /\ s.im.has = hasFocus /\ s.im.allow = allowPassword
       /\ s.im.groups = groups /\ s.im.active = active
       /\ s.im.capability = capability
  BY <1>1 DEF Begins, Now
<1> QED BY <1>3, <1>5, <1>7, <1>8, <1>9, <1>10, <1>11 DEF SameWorld, r

(***************************************************************************)
(* The invariant.                                                          *)
(***************************************************************************)

\* Neither does a choice by the selector change the order of the groups.
LEMMA SelectedKeepsOrder ==
  ASSUME NEW s, Typed(s), NEW ic \in State, NEW im \in InputMethod,
         ic # None, alive \in SUBSET InputContext
  PROVE  Order(SetCurrentInputMethod(s, ic, im, FALSE).groups) = Order(s.groups)
<1> DEFINE i == Position(List(s), im)
           c == SetLocalIM(s, ic, None, {ic})
           d == SetDefaultInputMethod(c, im)
           X == Focused(c) \ {ic}
           g == SetGlobalDefaultInputMethod(c, im, {ic})
           q == IF i = 1 THEN s ELSE g
           last == SetActive(q, ic, i # 1, {ic})
<1>1. {ic} \in SUBSET State /\ None \in InputMethod \cup {None}
  OBVIOUS
<1>2. Typed(c) /\ c.groups = s.groups
  <2>1. Careful(s, c, {ic} \cup {ic}) /\ c.groups = s.groups
    BY <1>1, SetLocalIMFacts
  <2> QED BY <2>1 DEF Careful
<1>3. SetCurrentInputMethod(s, ic, im, FALSE) \in {s, last}
  BY DEF SetCurrentInputMethod, Position
<1> HIDE DEF c, i
<1>4. Typed(g) /\ Order(g.groups) = Order(s.groups)
  <2>1. Order(d.groups) = Order(c.groups)
    BY <1>2, DefaultKeepsOrder
  <2>2. Typed(d)
    <3>1. Careful(c, d, Focused(c))
      BY <1>2, SetDefaultFacts
    <3> QED BY <3>1 DEF Careful
  <2> HIDE DEF d
  <2>3. X \in SUBSET State
    BY DEF Focused, State
  <2> HIDE DEF X
  <2>4. Typed(Checked(c, X, d)) /\ SameChoice(d, Checked(c, X, d))
    BY <2>2, <2>3, CheckedFacts DEF Checked
  <2>5. g = Checked(c, X, d)
    BY DEF SetGlobalDefaultInputMethod, X, d
  <2> QED BY <1>2, <2>1, <2>4, <2>5 DEF SameChoice
<1> HIDE DEF g
<1>5. Typed(q) /\ Order(q.groups) = Order(s.groups)
  BY <1>4
<1> HIDE DEF q
<1>6. last.groups = q.groups
  <2> DEFINE on == i # 1
  <2>1. on \in BOOLEAN
    OBVIOUS
  <2> HIDE DEF on
  <2>2. SetActive(q, ic, on, {ic}).groups = q.groups
    BY <1>1, <1>5, <2>1, SetActiveFacts
  <2> QED BY <2>2 DEF on
<1> QED BY <1>3, <1>5, <1>6

KeysInv ==
  /\ IInv
  /\ DOMAIN keyState = InputContext /\ DOMAIN pressed = InputContext
  /\ DOMAIN tour = InputContext /\ DOMAIN tip = InputContext
  /\ \A ic \in InputContext : KeysFit(ic)

\* What a step may do, of the two action properties.
ModifierStep ==
  \A ic \in InputContext, m \in Modifier :
    /\ hasFocus[ic] /\ active'[ic] # active[ic]
    /\ m \in down /\ down' = down \ {m}
    => \E other \in InputContext :
         /\ pressed[other] # None
         /\ IsReleaseOfModifier(KeyTyped(m), pressed[other])

TipStep ==
  \A ic \in InputContext :
    /\ ic \in alive \cap alive' /\ tip'[ic] # None
    /\ Order(groups') # Order(groups)
    /\ keyState[ic].pending # 0 /\ keyState'[ic].pending = 0
    => Order(groups')[1] = tip'[ic]

LEMMA ResetFacts ==
  ASSUME NEW state \in KeyRec
  PROVE  /\ ResetKeys(state) \in KeyRec
         /\ ResetKeys(state).released = 0 /\ ResetKeys(state).pending = 0
<1>1. Len(KeyHandlers) = 8
  BY DEF KeyHandlers
<1>2. 0 \in 0..Len(KeyHandlers)
  BY <1>1
<1> QED BY <1>2 DEF ResetKeys, KeyRec

\* A context whose keys are left alone or forgotten.
LEMMA LeftAlone ==
  ASSUME NEW ic \in InputContext, KeysFit(ic),
         groups \in Seq(KnownGroups), groups' \in Seq(KnownGroups),
         \/ keyState'[ic] = keyState[ic] /\ pressed'[ic] = pressed[ic]
         \/ keyState'[ic] \in {NewKeys, ResetKeys(keyState[ic])},
         tip'[ic] # None /\ keyState'[ic].pending # 0
           => tip'[ic] = tip[ic] /\ Order(groups') = Order(groups)
  PROVE  KeysFit(ic)'
<1>1. NewKeys \in KeyRec /\ NewKeys.released = 0 /\ NewKeys.pending = 0
  BY DEF NewKeys, KeyRec, KeyHandlers
<1>2. /\ ResetKeys(keyState[ic]) \in KeyRec
      /\ ResetKeys(keyState[ic]).released = 0
      /\ ResetKeys(keyState[ic]).pending = 0
  BY ResetFacts DEF KeysFit
<1>3. /\ keyState'[ic] \in KeyRec
      /\ keyState'[ic].released # 0 => pressed'[ic] = keyState'[ic].lastKey
      /\ keyState'[ic].pending # 0 => keyState'[ic].pending = keyState[ic].pending
  BY <1>1, <1>2 DEF KeysFit
<1>4. Order(groups') = Order(groups) => Len(groups') = Len(groups)
  BY SameOrder
<1> QED BY <1>3, <1>4 DEF KeysFit

\* A key that moves leaves a trace that tells which one it was.
LEMMA OneKeyMoves ==
  ASSUME NEW sym, NEW release \in BOOLEAN, KeyMoves(sym, release),
         NEW m \in down, down' = down \ {m}
  PROVE  release /\ sym = m
BY DEF KeyMoves

\* Switching, and what the keyboard does not do.
LEMMA SwitchedKeys ==
  ASSUME KeysInv, IInv', Switched
  PROVE  KeysInv' /\ ModifierStep /\ TipStep
<1>1. /\ groups \in Seq(KnownGroups) /\ groups' \in Seq(KnownGroups)
  BY DEF KeysInv, IInv, Typed, Now
<1>2. /\ \A ic \in InputContext :
           /\ \/ keyState'[ic] = keyState[ic] /\ pressed'[ic] = pressed[ic]
              \/ keyState'[ic] \in {NewKeys, ResetKeys(keyState[ic])}
           /\ tip'[ic] # None
                => /\ tip'[ic] = tip[ic] /\ Order(groups') = Order(groups)
                   /\ keyState'[ic].pending # 0
      /\ DOMAIN keyState' = InputContext /\ DOMAIN pressed' = InputContext
      /\ DOMAIN tour' = InputContext /\ DOMAIN tip' = InputContext
      /\ down' = down
  BY DEF Switched, TipsStill
<1>3. \A ic \in InputContext : KeysFit(ic)'
  BY <1>1, <1>2, LeftAlone DEF KeysInv
<1>4. ModifierStep
  BY <1>2 DEF ModifierStep
<1>5. TipStep
  BY <1>2 DEF TipStep
<1> QED BY <1>2, <1>3, <1>4, <1>5 DEF KeysInv

LEMMA ResetByClient ==
  ASSUME KeysInv, IInv', NEW ic \in InputContext, ClientReset(ic)
  PROVE  KeysInv' /\ ModifierStep /\ TipStep
<1>1. /\ groups \in Seq(KnownGroups) /\ groups' \in Seq(KnownGroups)
  BY DEF KeysInv, IInv, Typed, Now
<1>2. /\ groups' = groups /\ active' = active
  BY DEF ClientReset, stateVars
<1>3. /\ DOMAIN keyState' = InputContext /\ DOMAIN pressed' = InputContext
      /\ DOMAIN tour' = InputContext /\ DOMAIN tip' = InputContext
  BY DEF ClientReset, KeysInv
<1>4. \A c \in InputContext : KeysFit(c)'
  <2>1. /\ keyState'[ic] = ResetKeys(keyState[ic]) /\ tip'[ic] = None
        /\ \A c \in InputContext \ {ic} :
             /\ keyState'[c] = keyState[c] /\ pressed'[c] = pressed[c]
             /\ tip'[c] = tip[c]
    BY DEF ClientReset, KeysInv
  <2>2. ASSUME NEW c \in InputContext
        PROVE  /\ \/ keyState'[c] = keyState[c] /\ pressed'[c] = pressed[c]
                  \/ keyState'[c] \in {NewKeys, ResetKeys(keyState[c])}
               /\ tip'[c] # None => tip'[c] = tip[c]
    BY <2>1
  <2> QED BY <1>1, <1>2, <2>2, LeftAlone DEF KeysInv
<1> QED BY <1>2, <1>3, <1>4 DEF KeysInv, ModifierStep, TipStep

LEMMA KeyForNobody ==
  ASSUME KeysInv, IInv', NEW sym, NEW release \in BOOLEAN,
         KeyElsewhere(sym, release)
  PROVE  KeysInv' /\ ModifierStep /\ TipStep
<1>1. /\ groups \in Seq(KnownGroups) /\ groups' \in Seq(KnownGroups)
  BY DEF KeysInv, IInv, Typed, Now
<1>2. /\ groups' = groups /\ active' = active /\ keyState' = keyState
      /\ pressed' = pressed /\ tip' = tip /\ DOMAIN tour' = InputContext
  BY DEF KeyElsewhere, stateVars
<1>3. \A ic \in InputContext : KeysFit(ic)'
  BY <1>1, <1>2, LeftAlone DEF KeysInv
<1> QED BY <1>2, <1>3 DEF KeysInv, ModifierStep, TipStep

\* The keys of the selector are no modifiers.
LEMMA KeyForSelector ==
  ASSUME KeysInv, NEW ic \in InputContext, NEW sym, NEW release \in BOOLEAN,
         SelectorKeyEvent(ic, sym, release)
  PROVE  KeysInv' /\ ModifierStep /\ TipStep
<1> DEFINE chosen == Selects(ic, KeyTyped(sym))
           im == List(Now)[Min(chosen)]
           s == SetCurrentInputMethod(Now, ic, im, FALSE)
           w == Watching(ic, s)
<1>1. /\ Typed(Now) /\ alive \in SUBSET InputContext /\ FocusOK
      /\ ic \in State /\ ic # None /\ groups \in Seq(KnownGroups)
  BY FocusFacts, NullAssumption DEF KeysInv, IInv, State, Typed, Now
<1>2. /\ Commit(w) /\ Unfocused /\ UNCHANGED configVars
      /\ keyState' = keyState /\ pressed' = pressed /\ tip' = tip
      /\ DOMAIN tour' = InputContext /\ KeyMoves(sym, release) /\ chosen # {}
  BY DEF SelectorKeyEvent
<1>3. im \in InputMethod /\ sym \notin Modifier
  <2>1. /\ chosen \subseteq DOMAIN SelectorKeys
        /\ \A i \in chosen : i <= Len(List(Now)) /\ sym = SelectorKeys[i].sym
    BY DEF Selects, Matches, KeyTyped
  <2> HIDE DEF chosen
  <2>2. DOMAIN SelectorKeys = 1..Len(SelectorKeys)
        /\ \A i \in DOMAIN SelectorKeys : SelectorKeys[i].sym \in PlainKey
    <3> DEFINE Choice == [sym : PlainKey, states : SUBSET Modifier]
    <3>1. SelectorKeys \in Seq(Choice)
      BY KeysAssumption
    <3>2. \A k \in Choice : k.sym \in PlainKey
      OBVIOUS
    <3> HIDE DEF Choice
    <3>3. /\ DOMAIN SelectorKeys = 1..Len(SelectorKeys)
          /\ \A i \in DOMAIN SelectorKeys : SelectorKeys[i] \in Choice
      BY <3>1
    <3> QED BY <3>2, <3>3
  <2>3. chosen \subseteq Nat
    BY <2>1, <2>2
  <2>4. Min(chosen) \in chosen
    BY <1>2, <2>3, HasLeast DEF Min
  <2> DEFINE i == Min(chosen)
  <2>5. i \in 1..Len(List(Now)) /\ sym \in PlainKey
    BY <2>1, <2>2, <2>4, FirstGroup, <1>1
  <2> HIDE DEF i
  <2>6. List(Now)[i] \in InputMethod
    BY <1>1, <2>5, FirstGroup
  <2> QED BY <2>5, <2>6, KeysAssumption DEF i
<1> HIDE DEF im, chosen
<1>4. Careful(Now, s, {ic}) /\ Order(s.groups) = Order(groups)
  <2>1. Careful(Now, s, {ic})
    BY <1>1, <1>3, SetCurrentFacts
  <2>2. Order(s.groups) = Order(Now.groups)
    BY <1>1, <1>3, SelectedKeepsOrder
  <2> QED BY <2>1, <2>2 DEF Now
<1> HIDE DEF s
<1>5. Careful(Now, w, {}) /\ w.groups = s.groups
  BY <1>1, <1>4, WatchingFacts DEF SameChoice
<1> HIDE DEF w
<1>6. Preserves
  BY <1>2, <1>5, CarefulPreserves
<1>7. IInv'
  BY <1>1, <1>2, <1>6, UnfocusedStep DEF IInv, Preserves
<1>8. Order(groups') = Order(groups)
  BY <1>2, <1>4, <1>5 DEF Commit
<1>9. \A c \in InputContext : KeysFit(c)'
  <2>1. groups' \in Seq(KnownGroups)
    BY <1>7 DEF IInv, Typed, Now
  <2> QED BY <1>1, <1>2, <1>8, <2>1, LeftAlone DEF KeysInv
<1>10. ModifierStep
  BY <1>2, <1>3, OneKeyMoves DEF ModifierStep
<1>11. TipStep
  BY <1>8 DEF TipStep
<1> QED BY <1>2, <1>7, <1>9, <1>10, <1>11 DEF KeysInv

\* The state that the handler hands on becomes the state.
LEMMA KeyCommitted ==
  ASSUME NEW s, Held(s), Commit(s.im), Unfocused, UNCHANGED configVars,
         s.im.has = hasFocus, s.im.allow = allowPassword
  PROVE  Now' = s.im
<1> DEFINE r == s.im
<1>1. Typed(r) /\ r.has = hasFocus' /\ r.allow = allowPassword'
  BY DEF Held, Unfocused, configVars
<1>2. Commit(r)
  OBVIOUS
<1> HIDE DEF r
<1>3. Now' = r
  BY <1>1, <1>2, CommitIs
<1> QED BY <1>3 DEF r

\* A key for a context.
LEMMA KeyForContext ==
  ASSUME KeysInv, NEW ic \in InputContext, NEW sym \in Modifier \cup PlainKey,
         NEW release \in BOOLEAN, NEW within \in BOOLEAN,
         KeyEvent(ic, sym, release, within)
  PROVE  KeysInv' /\ ModifierStep /\ TipStep
<1> DEFINE key == KeyTyped(sym)
           s == HandleKey(ic, key, release, within)
<1>1. /\ Typed(Now) /\ alive \in SUBSET InputContext /\ FocusOK
      /\ groups \in Seq(KnownGroups)
      /\ key \in Key
  BY FocusFacts DEF KeysInv, IInv, Typed, Now, KeyTyped, Key
<1>2. /\ Commit(s.im) /\ keyState' = [keyState EXCEPT ![ic] = s.key]
      /\ tip' = [TipsStill EXCEPT ![ic] = s.tip]
      /\ Unfocused /\ UNCHANGED configVars
      /\ pressed' = [pressed EXCEPT ![ic] = IF release THEN None ELSE key]
      /\ DOMAIN tour' = InputContext /\ KeyMoves(sym, release)
  BY DEF KeyEvent
<1>3. /\ Held(s) /\ TipFits(s)
      /\ s.im.has = hasFocus /\ s.im.allow = allowPassword
      /\ \/ Order(s.im.groups) = Order(groups)
         \/ s.key.pending = 0 => Told(s)
      /\ s.key.released = 0 \/ (~release /\ s.key.lastKey = key)
      /\ release /\ ~IsReleaseOfModifier(key, pressed[ic])
           => s.im.active = active
  BY <1>1, HandleFacts DEF KeysInv
<1> HIDE DEF s
<1>4. Now' = s.im
  BY <1>1, <1>2, <1>3, KeyCommitted
<1>5. IInv'
  <2>1. Typed(Now)'
    BY <1>3, <1>4 DEF Held, Typed, Rec
  <2> QED BY <1>1, <1>2, <2>1, UnfocusedStep DEF IInv
<1>6. groups' = s.im.groups /\ active' = s.im.active
  BY <1>2 DEF Commit
<1>7. groups' \in Seq(KnownGroups)
  BY <1>5 DEF IInv, Typed, Now
<1>8. /\ DOMAIN keyState' = InputContext /\ DOMAIN pressed' = InputContext
      /\ DOMAIN tip' = InputContext
      /\ keyState'[ic] = s.key /\ tip'[ic] = s.tip
      /\ pressed'[ic] = IF release THEN None ELSE key
      /\ \A c \in InputContext \ {ic} :
           /\ keyState'[c] = keyState[c] /\ pressed'[c] = pressed[c]
           /\ tip'[c] # None => /\ tip'[c] = tip[c]
                                /\ Order(groups') = Order(groups)
  BY <1>2 DEF KeysInv, TipsStill
<1>9. KeysFit(ic)'
  BY <1>3, <1>6, <1>8 DEF KeysFit, Held, TipFits
<1>10. \A c \in InputContext \ {ic} : KeysFit(c)'
  BY <1>1, <1>7, <1>8, LeftAlone DEF KeysInv
<1>11. ModifierStep
  <2> SUFFICES ASSUME NEW c \in InputContext, NEW m \in Modifier,
                      active'[c] # active[c], m \in down, down' = down \ {m}
               PROVE  /\ pressed[ic] # None
                      /\ IsReleaseOfModifier(KeyTyped(m), pressed[ic])
    BY DEF ModifierStep
  <2>1. release /\ sym = m
    BY <1>2, OneKeyMoves
  <2>2. IsReleaseOfModifier(key, pressed[ic])
    BY <1>3, <1>6, <2>1
  <2> QED BY <2>1, <2>2 DEF IsReleaseOfModifier
<1>12. TipStep
  <2> SUFFICES ASSUME NEW c \in InputContext, tip'[c] # None,
                      Order(groups') # Order(groups),
                      keyState[c].pending # 0, keyState'[c].pending = 0
               PROVE  Order(groups')[1] = tip'[c]
    BY DEF TipStep
  <2>1. c = ic
    BY <1>8
  <2> QED BY <1>3, <1>6, <1>8, <2>1 DEF Told
<1> QED BY <1>2, <1>5, <1>8, <1>9, <1>10, <1>11, <1>12 DEF KeysInv

LEMMA KeysInit ==
  ASSUME InitWithKeys
  PROVE  KeysInv
<1>1. IInv
  BY InitHolds DEF InitWithKeys
<1>2. ASSUME NEW ic \in InputContext
      PROVE  KeysFit(ic)
  <2>1. keyState[ic] = NewKeys
    BY <1>2 DEF InitWithKeys
  <2>2. NewKeys \in KeyRec /\ NewKeys.released = 0 /\ NewKeys.pending = 0
    BY DEF NewKeys, KeyRec, KeyHandlers
  <2> QED BY <2>1, <2>2 DEF KeysFit
<1> QED BY <1>1, <1>2 DEF KeysInv, InitWithKeys

\* Every step of NextWithKeys.
LEMMA KeysStep ==
  ASSUME KeysInv, [NextWithKeys]_varsWithKeys
  PROVE  KeysInv' /\ ModifierStep /\ TipStep
<1>1. IInv
  BY DEF KeysInv
<1>2. CASE Switched
  <2>1. IInv'
    BY <1>1, <1>2, StepHolds DEF Switched
  <2> QED BY <1>2, <2>1, SwitchedKeys
<1>3. ASSUME NEW ic \in InputContext, ClientReset(ic)
      PROVE  KeysInv' /\ ModifierStep /\ TipStep
  <2>1. Now' = Now /\ Unfocused
    BY <1>3 DEF ClientReset, Unfocused, focusVars, stateVars, configVars, Now
  <2>2. IInv'
    BY <1>1, <2>1, UnfocusedStep DEF IInv, Typed, Rec
  <2> QED BY <1>3, <2>2, ResetByClient
<1>4. ASSUME NEW sym, NEW release \in BOOLEAN, KeyElsewhere(sym, release)
      PROVE  KeysInv' /\ ModifierStep /\ TipStep
  <2>1. Now' = Now /\ Unfocused
    BY <1>4 DEF KeyElsewhere, Unfocused, focusVars, stateVars, configVars, Now
  <2>2. IInv'
    BY <1>1, <2>1, UnfocusedStep DEF IInv, Typed, Rec
  <2> QED BY <1>4, <2>2, KeyForNobody
<1>5. CASE UNCHANGED varsWithKeys
  <2>1. UNCHANGED vars /\ hasFocus' = hasFocus
    BY <1>5 DEF varsWithKeys, vars, focusVars
  <2>2. IInv'
    BY <1>1, <2>1, StepHolds
  <2>3. /\ groups' = groups /\ active' = active /\ keyState' = keyState
        /\ pressed' = pressed /\ tip' = tip /\ tour' = tour
    BY <1>5 DEF varsWithKeys, vars, historyVars, stateVars
  <2>4. groups \in Seq(KnownGroups) /\ groups' \in Seq(KnownGroups)
    BY <1>1, <2>2 DEF IInv, Typed, Now
  <2>5. \A ic \in InputContext : KeysFit(ic)'
    BY <2>3, <2>4, LeftAlone DEF KeysInv
  <2> QED BY <2>2, <2>3, <2>5 DEF KeysInv, ModifierStep, TipStep
<1>6. CASE NextWithKeys
  BY <1>2, <1>3, <1>4, <1>6, KeyForSelector, KeyForContext DEF NextWithKeys
<1> QED BY <1>5, <1>6

LEMMA KeysInvHolds == SpecWithKeys => []KeysInv
<1>1. InitWithKeys => KeysInv
  BY KeysInit
<1>2. KeysInv /\ [NextWithKeys]_varsWithKeys => KeysInv'
  BY KeysStep
<1> QED BY <1>1, <1>2, PTL DEF SpecWithKeys

\* "Some other key pressed between shift, should not trigger": the release of a
\* modifier changes the input method only right after the press of a hot key
\* that it ends, whatever the keys, the configuration and the contexts are.
THEOREM ModifiersActAlone == SpecWithKeys => ModifierAloneActs
<1>1. KeysInv /\ [NextWithKeys]_varsWithKeys => [ModifierStep]_varsWithKeys
  BY KeysStep
<1>2. [][ModifierStep]_varsWithKeys <=> ModifierAloneActs
  BY DEF ModifierAloneActs, ModifierStep
<1> QED BY <1>1, <1>2, KeysInvHolds, PTL DEF SpecWithKeys

\* "Switch group to": the group that acceptGroupChange puts in front, or turns
\* the groups to, is the one that navigateGroup showed last, unless somebody
\* else changed the groups in between.
THEOREM TipsAreKept == SpecWithKeys => TipIsKept
<1>1. KeysInv /\ [NextWithKeys]_varsWithKeys => [TipStep]_varsWithKeys
  BY KeysStep
<1>2. [][TipStep]_varsWithKeys <=> TipIsKept
  BY DEF TipIsKept, TipStep
<1> QED BY <1>1, <1>2, KeysInvHolds, PTL DEF SpecWithKeys

(***************************************************************************)
(* The tour of a held trigger.                                             *)
(***************************************************************************)

\* What a context uses is one of its list, unless it is disabled.
LEMMA UsesFromList ==
  ASSUME NEW s, Typed(s), NEW c, ~InputMethodDisabled(s, c), List(s) # <<>>
  PROVE  \E i \in 1..Len(List(s)) : List(s)[i] = InputMethodOf(s, c)
<1> DEFINE L == List(s)
<1>1. /\ L \in Seq(InputMethod)
      /\ s.groups[1].default = Normalized(L, s.groups[1].default)
  BY FirstGroup
<1> HIDE DEF L
<1>2. s.groups[1].default \in ToSet(L)
  BY <1>1, NormalizedFacts DEF L
<1>3. Head(L) \in ToSet(L)
  <2>1. 1 \in DOMAIN L /\ Head(L) = L[1]
    BY <1>1 DEF L
  <2> QED BY <2>1 DEF ToSet
<1>4. InputMethodOf(s, c) \in ToSet(L)
  BY <1>2, <1>3 DEF InputMethodOf, L
<1> QED BY <1>1, <1>4 DEF ToSet, L

\* What is not pending, or has to wait for a key, is not accepted.
NothingDue(state) == state.totally = FALSE \/ state.pending = 0

\* The release of a key that is no modifier.
LEMMA PlainRelease ==
  ASSUME Typed(Now), alive \in SUBSET InputContext, NEW ic \in InputContext,
         KeysFit(ic), NothingDue(keyState[ic]),
         NEW key \in Key, ~IsModifier(key), NEW within \in BOOLEAN
  PROVE  LET r == HandleKey(ic, key, TRUE, within)
         IN  /\ r.im.active = active /\ r.im.localIM = localIM
             /\ r.im.groups = groups
             /\ r.key.totally = keyState[ic].totally
             /\ r.key.pending = keyState[ic].pending
             /\ r.key.first = keyState[ic].first
<1> DEFINE s == ForgetPress(NowFor(ic))
           handler == keyState[ic].released
           last == s.key.lastKey
           q == Released(s, ic, key, handler, within)
           p == Processed(s, ic, key, TRUE, handler, within)
           im == CheckedAs(p.alt, Now, {ic}, p.im)
           r == HandleKey(ic, key, TRUE, within)
<1>1. Begins(s, ic)
  BY BeginFacts DEF KeysFit
<1>2. r = [p EXCEPT !.im = IF p.ignored THEN p.im ELSE im]
  BY DEF HandleKey, CheckedKey
<1>3. p = Accepted(q, last)
  BY DEF Processed
<1> HIDE DEF s, handler, p, r
<1>4. ~Fires(s, ic, key, handler)
  <2>1. last \in Key \cup {None}
    BY <1>1 DEF Begins, Held, KeyRec
  <2> HIDE DEF last
  <2>2. ~IsReleaseOfModifier(key, last)
    <3> SUFFICES ASSUME last # None, IsModifier(last),
                        NEW m \in {last.sym} \cup last.states, key.sym = m
                 PROVE  FALSE
      BY DEF IsReleaseOfModifier, Matches
    <3>1. m \in Modifier
      BY <2>1 DEF Key, IsModifier
    <3> QED BY <3>1 DEF IsModifier
  <2> QED BY <2>2 DEF Fires, last
<1>5. ~IsSingleModifier(key)
  BY DEF IsSingleModifier
<1>6. /\ Held(q) /\ q.im = s.im /\ q.key.first = s.key.first
      /\ q.key.pending = s.key.pending
      /\ q.key.totally <=> s.key.totally
  <2>1. Held(s)
    BY <1>1 DEF Begins
  <2> QED BY <1>4, <1>5, <2>1, ReleasedFacts
<1> HIDE DEF q, last
<1>7. p = q
  <2>1. ~(q.key.pending # 0 /\ q.key.totally)
    BY <1>1, <1>6 DEF NothingDue, Begins
  <2> QED BY <1>3, <2>1 DEF Accepted
<1>8. Typed(im) /\ SameChoice(p.im, im)
  <2>1. Typed(p.im) /\ p.alt \in BOOLEAN /\ {ic} \in SUBSET State
    BY <1>6, <1>7 DEF Held, State
  <2> QED BY <2>1, CheckedFacts
<1> HIDE DEF im
<1>9. SameChoice(p.im, r.im) /\ r.key = p.key
  <2>1. r = [Hand(p) EXCEPT !.im = IF p.ignored THEN p.im ELSE im]
    BY <1>2, <1>6, <1>7 DEF Held
  <2>2. SameChoice(p.im, p.im)
    BY DEF SameChoice
  <2> QED BY <1>8, <2>1, <2>2 DEF Hand
<1>10. /\ p.im.active = active /\ p.im.localIM = localIM /\ p.im.groups = groups
       /\ p.key.first = keyState[ic].first
       /\ p.key.pending = keyState[ic].pending
  BY <1>1, <1>6, <1>7 DEF Begins, Now
<1>11. p.key.totally = keyState[ic].totally
  <2>1. p.key.totally \in BOOLEAN /\ s.key.totally \in BOOLEAN
    BY <1>1, <1>6, <1>7 DEF Begins, Held, KeyRec
  <2>2. p.key.totally <=> s.key.totally
    BY <1>6, <1>7
  <2> QED BY <1>1, <2>1, <2>2 DEF Begins
<1> QED BY <1>9, <1>10, <1>11 DEF SameChoice, r

\* A press of the trigger key while a modifier is held, as the handler takes it.
LEMMA PlainPress ==
  ASSUME NEW s, Held(s), NEW ic \in InputContext, NEW key \in Key,
         ~IsModifier(key), HasModifier(key), alive \in SUBSET InputContext,
         \E hot \in hotKey["triggerKeys"] : Matches(key, hot)
  PROVE  LET r == Pressed(s, ic, key)
         IN  /\ r = s \/ r.key.totally = FALSE
             /\ CanTrigger(s.im)
                  => /\ r.key.totally = FALSE /\ r.key.first = s.key.totally
                     /\ /\ s.key.totally = FALSE /\ s.key.first = FALSE
                        /\ EnumerateWithTriggerKeys /\ ~EnumerateSkipFirst
                        => r.im = Enumerate(s.im, ic, TRUE)
<1> DEFINE T == Takers(s, ic, key)
           i == Min(T)
           q == Noted(s, i, key)
           a == Act(q, ic, KeyHandlers[i])
           totally == a.key.totally /\ ~HasModifier(key)
           t == [a EXCEPT !.key.totally = totally]
           r == Pressed(s, ic, key)
<1>1. CASE T = {}
  <2>1. r = s
    BY <1>1 DEF Pressed
  <2>2. ~CanTrigger(s.im)
    <3>1. 1 \in DOMAIN KeyHandlers /\ KeyHandlers[1] = "triggerKeys"
      BY DEF KeyHandlers
    <3>2. Check(s.im, ic, "triggerKeys") => 1 \in T
      BY <3>1 DEF Takers
    <3> QED BY <1>1, <3>2 DEF Check
  <2> QED BY <2>1, <2>2
<1>2. CASE T # {}
  <2>1. i \in T /\ (\A j \in T : i <= j) /\ T \subseteq 1..Len(KeyHandlers)
        /\ i \in 1..Len(KeyHandlers)
    BY <1>2, FirstTaker
  <2>2. r = t
    BY <1>2 DEF Pressed, TakePress, Noted
  <2>3. CanTrigger(s.im) => i = 1
    <3>1. 1 \in DOMAIN KeyHandlers /\ KeyHandlers[1] = "triggerKeys"
          /\ Len(KeyHandlers) = 8
      BY DEF KeyHandlers
    <3>2. Check(s.im, ic, "triggerKeys") => 1 \in T
      BY <3>1 DEF Takers
    <3> HIDE DEF i, T
    <3> QED BY <2>1, <3>1, <3>2 DEF Check
  <2> HIDE DEF i, T
  <2>4. /\ Held(q) /\ q.im = s.im /\ q.key.first = s.key.first
        /\ q.key.totally = s.key.totally
    BY <2>1, HandNoted
  <2> HIDE DEF q
  <2>5. Acts(q, a)
    BY <2>4, ActFacts
  <2>6. i = 1 => a = Trigger(q, ic)
    <3>1. KeyHandlers[1] = "triggerKeys"
      BY DEF KeyHandlers
    <3> QED BY <3>1 DEF Act
  <2>7. totally \in BOOLEAN /\ totally = FALSE
    OBVIOUS
  <2> HIDE DEF a, totally
  <2>8. /\ t.im = a.im /\ t.key.first = a.key.first
        /\ t.key.totally = FALSE
    <3>1. Held(a)
      BY <2>5 DEF Acts
    <3> DEFINE k == [a.key EXCEPT !.totally = FALSE]
    <3>3. t = [Hand(a) EXCEPT !.key = k]
      BY <2>7, <3>1 DEF Held, Hand
    <3>4. k.totally = FALSE /\ k.first = a.key.first
      BY <3>1 DEF Held, KeyRec
    <3> HIDE DEF k, t
    <3> QED BY <3>3, <3>4 DEF Hand
  <2> HIDE DEF t, r
  <2>9. /\ Trigger(q, ic).key.first = q.key.totally
        /\ Trigger(q, ic).im = IF TriggerToggles(q, ic) THEN Toggle(q.im, ic)
                               ELSE Enumerate(q.im, ic, TRUE)
    <3> DEFINE im == IF TriggerToggles(q, ic) THEN Toggle(q.im, ic)
                     ELSE Enumerate(q.im, ic, TRUE)
               k == [q.key EXCEPT !.first = q.key.totally]
    <3>1. Triggered(q, ic) = [Hand(q) EXCEPT !.im = im]
      BY <2>4 DEF Triggered, Held
    <3> HIDE DEF im
    <3>2. Trigger(q, ic) = [Hand(q) EXCEPT !.im = im, !.key = k]
      BY <3>1 DEF Trigger, Hand
    <3>3. k.first = q.key.totally
      BY <2>4 DEF Held, KeyRec
    <3> HIDE DEF k
    <3> QED BY <3>2, <3>3 DEF Hand, im
  <2>10. /\ s.key.totally = FALSE /\ s.key.first = FALSE
         /\ EnumerateWithTriggerKeys /\ ~EnumerateSkipFirst
         => ~TriggerToggles(q, ic)
    BY <2>4 DEF TriggerToggles
  <2> QED BY <2>2, <2>3, <2>4, <2>6, <2>8, <2>9, <2>10 DEF r
<1> QED BY <1>1, <1>2

LEMMA HeldPress ==
  ASSUME Typed(Now), alive \in SUBSET InputContext, NEW ic \in InputContext,
         KeysFit(ic), NEW key \in Key, ~IsModifier(key), HasModifier(key),
         \E hot \in hotKey["triggerKeys"] : Matches(key, hot),
         NEW within \in BOOLEAN
  PROVE  LET r == HandleKey(ic, key, FALSE, within)
         IN  /\ NothingDue(r.key)
             /\ Len(List(r.im)) > 1 => r.key.totally = FALSE
             /\ NothingDue(keyState[ic])
                  => /\ Order(r.im.groups) = Order(groups)
                     /\ CanTrigger(Now) /\ keyState[ic].totally = FALSE
                          => /\ r.key.first = FALSE
                             /\ /\ keyState[ic].first = FALSE
                                /\ EnumerateWithTriggerKeys
                                /\ ~EnumerateSkipFirst
                                => InputMethodOf(r.im, ic)
                                     = InputMethodOf(Enumerate(Now, ic, TRUE), ic)
<1> DEFINE s == ForgetPress(NowFor(ic))
           handler == keyState[ic].released
           last == s.key.lastKey
           a == Accepted(s, last)
           p == Pressed(a, ic, key)
           im == CheckedAs(p.alt, Now, {ic}, p.im)
           r == HandleKey(ic, key, FALSE, within)
<1>1. Begins(s, ic) /\ Held(s)
  BY BeginFacts DEF KeysFit, Begins
<1>2. r = [p EXCEPT !.im = IF p.ignored THEN p.im ELSE im]
  BY DEF HandleKey, CheckedKey, Processed
<1>3. TipFits(s)
  <2>1. Now.groups = groups
    BY DEF Now
  <2> HIDE DEF s
  <2> QED BY <1>1, <2>1 DEF TipFits, Begins, KeysFit
<1> HIDE DEF s, r, last
<1>4. /\ Held(a) /\ NothingDue(a.key)
      /\ NothingDue(s.key) => a = s
  <2>1. /\ Held(a)
        /\ a = s \/ a.key.pending = 0
    BY <1>1, <1>3, AcceptedFacts
  <2>2. NothingDue(s.key) => a = s
    BY DEF NothingDue, Accepted
  <2>3. ~NothingDue(s.key) => a.key.pending = 0
    <3> SUFFICES ASSUME ~NothingDue(s.key) PROVE a.key.pending = 0
      OBVIOUS
    <3>1. s.key.pending # 0 /\ s.key.totally
      BY <1>1 DEF NothingDue, Held, KeyRec
    <3>2. a = AcceptGroupChange(s, last)
      BY <3>1 DEF Accepted
    <3> DEFINE i == s.key.pending + 1
               done == IF i <= Len(s.im.groups)
                       THEN GroupsChange(s.im, Reordered(s.im.groups, last, i))
                       ELSE s.im
               k == [s.key EXCEPT !.pending = 0, !.lastKey = None]
    <3>3. a = [Hand(s) EXCEPT !.im = done, !.key = k, !.ignored = TRUE]
      BY <1>1, <3>2 DEF Held, Hand, AcceptGroupChange, AcceptAt
    <3>4. k.pending = 0
      BY <1>1 DEF Held, KeyRec
    <3> HIDE DEF a, k, done
    <3> QED BY <3>3, <3>4 DEF Hand
  <2> QED BY <2>1, <2>2, <2>3 DEF NothingDue
<1> HIDE DEF a
<1>5. Held(p) /\ Order(p.im.groups) = Order(a.im.groups)
  BY <1>4, PressedFacts
<1>6. /\ p = a \/ p.key.totally = FALSE
      /\ CanTrigger(a.im)
           => /\ p.key.totally = FALSE /\ p.key.first = a.key.totally
              /\ /\ a.key.totally = FALSE /\ a.key.first = FALSE
                 /\ EnumerateWithTriggerKeys /\ ~EnumerateSkipFirst
                 => p.im = Enumerate(a.im, ic, TRUE)
  BY <1>4, PlainPress
<1> HIDE DEF p
<1>7. Typed(im) /\ SameChoice(p.im, im)
  <2>1. Typed(p.im) /\ p.alt \in BOOLEAN /\ {ic} \in SUBSET State
    BY <1>5 DEF Held, State
  <2> QED BY <2>1, CheckedFacts
<1> HIDE DEF im
<1>8. SameChoice(p.im, r.im) /\ r.key = p.key
  <2>1. r = [Hand(p) EXCEPT !.im = IF p.ignored THEN p.im ELSE im]
    BY <1>2, <1>5 DEF Held
  <2>2. SameChoice(p.im, p.im)
    BY DEF SameChoice
  <2> QED BY <1>7, <2>1, <2>2 DEF Hand
<1>9. /\ r.im.groups = p.im.groups
      /\ InputMethodOf(r.im, ic) = InputMethodOf(p.im, ic)
  BY <1>8, SameInputMethod DEF SameChoice
<1>10. List(r.im) = List(a.im)
  <2>1. /\ p.im.groups \in Seq(KnownGroups) /\ a.im.groups \in Seq(KnownGroups)
        /\ Len(a.im.groups) # 0
    BY <1>4, <1>5 DEF Held, Typed
  <2>2. 1 \in 1..Len(p.im.groups) /\ Len(p.im.groups) = Len(a.im.groups)
    BY <1>5, <2>1, SameOrder
  <2> QED BY <1>5, <1>9, <2>1, <2>2, SameOrder DEF List
<1>11. NothingDue(r.key)
  BY <1>4, <1>6, <1>8 DEF NothingDue
<1>12. Len(List(r.im)) > 1 => r.key.totally = FALSE
  BY <1>6, <1>8, <1>10 DEF CanTrigger
<1>13. ASSUME NothingDue(keyState[ic])
       PROVE  /\ a = s /\ s.im = Now /\ Now.groups = groups
              /\ s.key.totally = keyState[ic].totally
              /\ s.key.first = keyState[ic].first
  BY <1>1, <1>4, <1>13 DEF Begins, NothingDue, Now
<1>14. NothingDue(keyState[ic]) => Order(r.im.groups) = Order(groups)
  BY <1>5, <1>9, <1>13
<1>15. ASSUME NothingDue(keyState[ic]), CanTrigger(Now),
              keyState[ic].totally = FALSE
       PROVE  /\ r.key.first = FALSE
              /\ /\ keyState[ic].first = FALSE
                 /\ EnumerateWithTriggerKeys /\ ~EnumerateSkipFirst
                 => InputMethodOf(r.im, ic)
                      = InputMethodOf(Enumerate(Now, ic, TRUE), ic)
  BY <1>6, <1>8, <1>9, <1>13, <1>15
<1> QED BY <1>11, <1>12, <1>14, <1>15 DEF r

Distinct(list) == \A i, j \in DOMAIN list : list[i] = list[j] => i = j

\* After the press numbered j of a tour: where the list is, if it was at place p
\* after the second one.
Turn(p, j, n) == IF p + j - 2 <= n THEN p + j - 2 ELSE p + j - 2 - n

Turns(list, seq, p) ==
  \A j \in 2..Len(seq) : j <= Len(list) + 1 => seq[j] = list[Turn(p, j, Len(list))]

LEMMA TurnFacts ==
  ASSUME NEW n \in Nat, NEW p \in 1..n, NEW k \in 2..n
  PROVE  /\ Turn(p, k, n) \in 1..n
         /\ Turn(p, k + 1, n) = IF Turn(p, k, n) = n THEN 1
                                ELSE Turn(p, k, n) + 1
BY DEF Turn

\* One more press.
LEMMA TurnsGoOn ==
  ASSUME NEW list \in Seq(InputMethod), NEW seq \in Seq(InputMethod \cup {None}),
         NEW used \in InputMethod \cup {None}, Len(seq) >= 1,
         \E i \in 1..Len(list) : list[i] = used,
         Len(seq) >= 2 => \E p \in 1..Len(list) : Turns(list, seq, p),
         \A i \in 1..Len(list) :
           Len(seq) >= 2 /\ Len(list) > 1 /\ seq[Len(seq)] = list[i]
             => used = list[After(list, i)]
  PROVE  \E p \in 1..Len(list) : Turns(list, Append(seq, used), p)
<1> DEFINE n == Len(list)
           k == Len(seq)
           more == Append(seq, used)
<1>1. /\ n \in Nat /\ k \in Nat \ {0} /\ Len(more) = k + 1
      /\ more[k + 1] = used /\ \A j \in 1..k : more[j] = seq[j]
  OBVIOUS
<1> HIDE DEF n, k, more
<1>2. CASE k = 1
  <2>1. PICK i \in 1..n : list[i] = used
    BY DEF n
  <2>2. Turn(i, 2, n) = i
    BY <1>1 DEF Turn
  <2>3. Turns(list, more, i)
    BY <1>1, <1>2, <2>1, <2>2 DEF Turns, n
  <2> QED BY <2>3 DEF n, more
<1>3. CASE k # 1
  <2>1. k >= 2
    BY <1>1, <1>3
  <2>2. PICK p \in 1..n : Turns(list, seq, p)
    BY <2>1 DEF n, k
  <2>3. ASSUME NEW j \in 2..(k + 1), j <= n + 1
        PROVE  more[j] = list[Turn(p, j, n)]
    <3>1. CASE j <= k
      BY <1>1, <2>2, <2>3, <3>1 DEF Turns, n, k
    <3>2. CASE j = k + 1
      <4>1. k \in 2..n
        BY <1>1, <2>1, <2>3, <3>2
      <4>2. seq[k] = list[Turn(p, k, n)]
        BY <1>1, <2>2, <4>1 DEF Turns, n, k
      <4>3. /\ Turn(p, k, n) \in 1..n
            /\ Turn(p, k + 1, n) = After(list, Turn(p, k, n))
        BY <1>1, <4>1, TurnFacts DEF After, n
      <4>4. n > 1
        BY <1>1, <4>1
      <4>5. used = list[After(list, Turn(p, k, n))]
        BY <2>1, <4>2, <4>3, <4>4 DEF n, k
      <4> QED BY <1>1, <3>2, <4>3, <4>5
    <3> QED BY <1>1, <3>1, <3>2
  <2>4. Turns(list, more, p)
    BY <1>1, <2>3 DEF Turns, n
  <2> QED BY <2>4 DEF n, more
<1> QED BY <1>2, <1>3

\* Once the list has been gone through.
LEMMA TurnsReachAll ==
  ASSUME NEW list \in Seq(InputMethod), NEW seq \in Seq(InputMethod \cup {None}),
         NEW p \in 1..Len(list), Turns(list, seq, p), Len(seq) > Len(list)
  PROVE  ToSet(list) \subseteq ToSet(seq)
<1> DEFINE n == Len(list)
           k == Len(seq)
<1>1. n \in Nat /\ k \in Nat /\ DOMAIN list = 1..n /\ DOMAIN seq = 1..k
  OBVIOUS
<1>2. ASSUME NEW i \in 1..n
      PROVE  \E j \in 1..k : seq[j] = list[i]
  <2> DEFINE j == IF i >= p THEN i - p + 2 ELSE i - p + 2 + n
  <2> HIDE DEF n, k
  <2>1. j \in 2..(n + 1) /\ Turn(p, j, n) = i
    BY <1>1, <1>2 DEF Turn, n
  <2>2. j \in 2..k
    BY <1>1, <2>1 DEF n, k
  <2> HIDE DEF j
  <2>3. seq[j] = list[i]
    BY <1>1, <2>1, <2>2 DEF Turns, n, k
  <2>4. j \in 1..k
    BY <1>1, <2>2
  <2> QED BY <2>3, <2>4
<1> QED BY <1>1, <1>2 DEF ToSet

\* What is known of a context whose trigger key is pressed again and again.
TourFits(ic) ==
  LET list == groups[1].list
      k == Len(tour[ic])
  IN  /\ tour[ic] \in Seq(InputMethod \cup {None})
      /\ k >= 1
         => /\ ~InputMethodDisabled(Now, ic)
            /\ NothingDue(keyState[ic])
            /\ Len(list) > 1 => keyState[ic].totally = FALSE
            /\ Len(list) > 1 /\ k >= 2 => keyState[ic].first = FALSE
            /\ k < TourBound => tour[ic][k] = InputMethodOf(Now, ic)
            /\ /\ k >= 2 /\ Len(list) >= 1 /\ Distinct(list)
               /\ EnumerateWithTriggerKeys /\ ~EnumerateSkipFirst
               => \E p \in 1..Len(list) : Turns(list, tour[ic], p)

\* No tour, or one that goes on as it was.
LEMMA TourStays ==
  ASSUME NEW ic \in InputContext, TourFits(ic),
         \/ tour'[ic] = <<>>
         \/ /\ tour'[ic] = tour[ic]
            /\ tour[ic] # <<>> =>
                 /\ active' = active /\ localIM' = localIM /\ groups' = groups
                 /\ capability' = capability /\ allowPassword' = allowPassword
                 /\ keyState'[ic].totally = keyState[ic].totally
                 /\ keyState'[ic].pending = keyState[ic].pending
                 /\ keyState'[ic].first = keyState[ic].first
  PROVE  TourFits(ic)'
<1>1. CASE tour'[ic] = <<>>
  BY <1>1 DEF TourFits
<1>2. CASE tour'[ic] # <<>>
  <2>1. /\ tour'[ic] = tour[ic] /\ groups' = groups
        /\ active' = active /\ localIM' = localIM
        /\ capability' = capability /\ allowPassword' = allowPassword
        /\ keyState'[ic].totally = keyState[ic].totally
        /\ keyState'[ic].pending = keyState[ic].pending
        /\ keyState'[ic].first = keyState[ic].first
    BY <1>2
  <2>2. NothingDue(keyState[ic])' <=> NothingDue(keyState[ic])
    BY <2>1 DEF NothingDue
  <2>3. /\ InputMethodOf(Now, ic)' = InputMethodOf(Now, ic)
        /\ InputMethodDisabled(Now, ic)' = InputMethodDisabled(Now, ic)
    BY <2>1 DEF Now, InputMethodOf, InputMethodDisabled, List
  <2> QED BY <2>1, <2>2, <2>3 DEF TourFits
<1> QED BY <1>1, <1>2

\* A press that is followed.
LEMMA TourGoesOn ==
  ASSUME KeysInv, NEW ic \in InputContext, TourFits(ic),
         NEW sym \in Modifier \cup PlainKey, NEW within \in BOOLEAN,
         KeyEvent(ic, sym, FALSE, within),
         ~IsModifier(KeyTyped(sym)), HasModifier(KeyTyped(sym)),
         ~InputMethodDisabled(Now, ic),
         \E hot \in hotKey["triggerKeys"] : Matches(KeyTyped(sym), hot)
  PROVE  TourFits(ic)'
<1> DEFINE key == KeyTyped(sym)
           s == HandleKey(ic, key, FALSE, within)
           k == Len(tour[ic])
           used == InputMethodOf(Now', ic)
           list == groups'[1].list
<1>1. /\ Typed(Now) /\ alive \in SUBSET InputContext /\ ic \in State
      /\ key \in Key /\ KeysFit(ic)
      /\ groups \in Seq(KnownGroups) /\ Len(groups) # 0
  BY FocusFacts DEF KeysInv, IInv, Typed, Now, KeyTyped, Key, State
<1>2. /\ Commit(s.im) /\ keyState' = [keyState EXCEPT ![ic] = s.key]
      /\ Unfocused /\ UNCHANGED configVars
      /\ tour' = [other \in InputContext |->
                    IF other = ic THEN Follow(ic, key, FALSE) ELSE <<>>]
  BY DEF KeyEvent
<1>3. tour'[ic] = IF k < TourBound THEN Append(tour[ic], used) ELSE tour[ic]
  BY <1>2 DEF Follow
<1>4. /\ Held(s) /\ s.im.has = hasFocus /\ s.im.allow = allowPassword
      /\ s.im.capability = capability
  BY <1>1, HandleFacts
<1>5. /\ NothingDue(s.key)
      /\ Len(List(s.im)) > 1 => s.key.totally = FALSE
      /\ NothingDue(keyState[ic])
           => /\ Order(s.im.groups) = Order(groups)
              /\ CanTrigger(Now) /\ keyState[ic].totally = FALSE
                   => /\ s.key.first = FALSE
                      /\ /\ keyState[ic].first = FALSE
                         /\ EnumerateWithTriggerKeys /\ ~EnumerateSkipFirst
                         => InputMethodOf(s.im, ic)
                              = InputMethodOf(Enumerate(Now, ic, TRUE), ic)
  BY <1>1, HeldPress
<1> HIDE DEF s
<1>6. Now' = s.im
  BY <1>2, <1>4, KeyCommitted
<1>7. /\ groups' = s.im.groups /\ List(s.im) = list /\ keyState'[ic] = s.key
      /\ list \in Seq(InputMethod) /\ Len(list) \in Nat
      /\ used \in InputMethod \cup {None}
  <2>1. Typed(s.im)
    BY <1>4 DEF Held
  <2> QED BY <1>1, <1>2, <1>6, <2>1, FirstGroup, InputMethodTyped
          DEF Commit, List, KeysInv
<1>8. ~InputMethodDisabled(Now', ic)
  BY <1>4, <1>6 DEF InputMethodDisabled, Now
<1>9. /\ k \in Nat /\ tour[ic] \in Seq(InputMethod \cup {None})
      /\ TourBound \in Nat
  BY KeysAssumption DEF TourFits
<1>10. ASSUME k >= 1
       PROVE  /\ NothingDue(keyState[ic]) /\ groups[1].list = list
              /\ Len(list) > 1 => /\ CanTrigger(Now) /\ s.key.first = FALSE
                                  /\ keyState[ic].totally = FALSE
  <2>1. NothingDue(keyState[ic])
    BY <1>10 DEF TourFits
  <2>2. groups[1].list = list
    <3>1. Order(groups') = Order(groups) /\ groups' \in Seq(KnownGroups)
      BY <1>4, <1>5, <1>7, <2>1 DEF Held, Typed
    <3>2. 1 \in 1..Len(groups') /\ Len(groups') = Len(groups)
      BY <1>1, <3>1, SameOrder
    <3> QED BY <1>1, <3>1, <3>2, SameOrder
  <2>3. Len(list) > 1 => CanTrigger(Now) /\ keyState[ic].totally = FALSE
    BY <1>10, <2>2 DEF TourFits, CanTrigger, List, Now
  <2> QED BY <1>5, <2>1, <2>2, <2>3
<1> DEFINE n == Len(tour'[ic])
<1>11. /\ tour'[ic] \in Seq(InputMethod \cup {None}) /\ n \in Nat
       /\ n >= 2 => k >= 1
       /\ n < TourBound => tour'[ic][n] = used
  BY <1>3, <1>7, <1>9
<1>12. ASSUME n >= 2, Len(list) >= 1, Distinct(list),
              EnumerateWithTriggerKeys, ~EnumerateSkipFirst
       PROVE  \E p \in 1..Len(list) : Turns(list, tour'[ic], p)
  <2>1. k >= 1 /\ groups[1].list = list
    BY <1>10, <1>11, <1>12
  <2>2. k >= 2 => \E p \in 1..Len(list) : Turns(list, tour[ic], p)
    BY <1>12, <2>1 DEF TourFits
  <2>3. CASE k >= TourBound
    BY <1>3, <1>9, <1>12, <2>2, <2>3
  <2>4. CASE k < TourBound
    <3>1. \E i \in 1..Len(list) : list[i] = used
      <4>1. Typed(s.im) /\ List(s.im) # <<>>
        BY <1>4, <1>7, <1>12 DEF Held
      <4> QED BY <1>6, <1>7, <1>8, <4>1, UsesFromList
    <3>2. ASSUME NEW i \in 1..Len(list), k >= 2, Len(list) > 1,
                 tour[ic][k] = list[i]
          PROVE  used = list[After(list, i)]
      <4>1. /\ CanTrigger(Now) /\ keyState[ic].totally = FALSE
            /\ NothingDue(keyState[ic]) /\ keyState[ic].first = FALSE
            /\ tour[ic][k] = InputMethodOf(Now, ic)
        BY <1>10, <2>1, <2>4, <3>2 DEF TourFits
      <4>2. used = InputMethodOf(Enumerate(Now, ic, TRUE), ic)
        BY <1>5, <1>6, <1>12, <4>1
      <4>3. List(Now) = list
        BY <2>1 DEF List, Now
      <4>4. \A a, b \in 1..Len(list) : list[a] = list[b] => a = b
        BY <1>7, <1>12 DEF Distinct
      <4> HIDE DEF list, used
      <4>5. /\ \A a, b \in 1..Len(List(Now)) : List(Now)[a] = List(Now)[b] => a = b
            /\ i \in 1..Len(List(Now)) /\ List(Now)[i] = InputMethodOf(Now, ic)
        BY <3>2, <4>1, <4>3, <4>4
      <4>6. InputMethodOf(Enumerate(Now, ic, TRUE), ic)
              = List(Now)[After(List(Now), i)]
        BY <1>1, <1>12, <4>1, <4>5, EnumerateGoesOn
      <4> QED BY <4>2, <4>3, <4>6
    <3>3. tour'[ic] = Append(tour[ic], used)
      BY <1>3, <2>4
    <3> HIDE DEF list, used
    <3> QED BY <1>7, <1>9, <2>1, <2>2, <3>1, <3>2, <3>3, TurnsGoOn
  <2> QED BY <1>9, <2>3, <2>4
<1>13. n >= 2 /\ Len(list) > 1 => s.key.first = FALSE
  BY <1>10, <1>11
<1> QED BY <1>5, <1>7, <1>8, <1>11, <1>12, <1>13 DEF TourFits, NothingDue

TourInv == KeysInv /\ \A ic \in InputContext : TourFits(ic)

\* Only the keys of the context itself go on with its tour.
LEMMA ToursStep ==
  ASSUME TourInv, [NextWithKeys]_varsWithKeys
  PROVE  TourInv'
<1>1. KeysInv /\ KeysInv' /\ \A ic \in InputContext : TourFits(ic)
  BY KeysStep DEF TourInv
<1> SUFFICES ASSUME NEW ic \in InputContext
             PROVE  TourFits(ic)'
  BY <1>1 DEF TourInv
<1>2. TourFits(ic)
  BY <1>1
<1>3. ASSUME tour'[ic] = <<>> PROVE TourFits(ic)'
  BY <1>2, <1>3, TourStays
<1>4. CASE Switched
  BY <1>3, <1>4 DEF Switched
<1>5. ASSUME NEW c \in InputContext, ClientReset(c)
      PROVE  TourFits(ic)'
  <2>1. CASE c = ic
    BY <1>1, <1>3, <1>5, <2>1 DEF ClientReset, KeysInv
  <2>2. CASE c # ic
    <3>1. tour'[ic] = tour[ic] /\ keyState'[ic] = keyState[ic]
      BY <1>1, <1>5, <2>2 DEF ClientReset, KeysInv
    <3>2. /\ active' = active /\ localIM' = localIM /\ groups' = groups
          /\ capability' = capability /\ allowPassword' = allowPassword
      BY <1>5 DEF ClientReset, stateVars, configVars
    <3> QED BY <1>2, <3>1, <3>2, TourStays
  <2> QED BY <2>1, <2>2
<1>6. ASSUME NEW sym, NEW release \in BOOLEAN, KeyElsewhere(sym, release)
      PROVE  TourFits(ic)'
  BY <1>3, <1>6 DEF KeyElsewhere
<1>7. ASSUME NEW c \in InputContext, NEW sym, NEW release \in BOOLEAN,
             SelectorKeyEvent(c, sym, release)
      PROVE  TourFits(ic)'
  BY <1>3, <1>7 DEF SelectorKeyEvent
<1>8. ASSUME NEW c \in InputContext, NEW sym \in Modifier \cup PlainKey,
             NEW release \in BOOLEAN, NEW within \in BOOLEAN,
             KeyEvent(c, sym, release, within)
      PROVE  TourFits(ic)'
  <2> DEFINE key == KeyTyped(sym)
  <2>1. tour'[ic] = IF ic = c THEN Follow(c, key, release) ELSE <<>>
    BY <1>8 DEF KeyEvent
  <2>2. CASE ic # c \/ IsModifier(key)
    BY <1>3, <2>1, <2>2 DEF Follow
  <2>3. CASE ic = c /\ ~IsModifier(key) /\ release
    <3> DEFINE s == HandleKey(ic, key, TRUE, within)
    <3>1. tour'[ic] = tour[ic]
      BY <2>1, <2>3 DEF Follow
    <3>2. /\ Typed(Now) /\ alive \in SUBSET InputContext /\ key \in Key
          /\ KeysFit(ic)
      BY <1>1, FocusFacts DEF KeysInv, IInv, KeyTyped, Key
    <3>3. CASE tour[ic] = <<>>
      BY <1>3, <3>1, <3>3
    <3>4. CASE tour[ic] # <<>>
      <4>1. NothingDue(keyState[ic])
        <5>1. tour[ic] \in Seq(InputMethod \cup {None})
          BY <1>2 DEF TourFits
        <5>2. Len(tour[ic]) >= 1
          BY <3>4, <5>1
        <5> QED BY <1>2, <5>2 DEF TourFits
      <4>2. /\ s.im.active = active /\ s.im.localIM = localIM
            /\ s.im.groups = groups
            /\ s.key.totally = keyState[ic].totally
            /\ s.key.pending = keyState[ic].pending
            /\ s.key.first = keyState[ic].first
        BY <2>3, <3>2, <4>1, PlainRelease
      <4>3. s.im.capability = capability
        BY <3>2, HandleFacts
      <4>4. /\ Commit(s.im) /\ keyState' = [keyState EXCEPT ![ic] = s.key]
            /\ UNCHANGED configVars
        BY <1>8, <2>3 DEF KeyEvent
      <4> HIDE DEF s
      <4>5. /\ active' = active /\ localIM' = localIM /\ groups' = groups
            /\ capability' = capability /\ allowPassword' = allowPassword
            /\ keyState'[ic] = s.key
        BY <1>1, <4>2, <4>3, <4>4 DEF Commit, configVars, KeysInv
      <4> QED BY <1>2, <3>1, <4>2, <4>5, TourStays
    <3> QED BY <3>3, <3>4
  <2>4. CASE ic = c /\ ~IsModifier(key) /\ ~release
    <3> DEFINE follows ==
               /\ HasModifier(key) /\ ~InputMethodDisabled(Now, ic)
               /\ \E hot \in hotKey["triggerKeys"] : Matches(key, hot)
    <3>1. CASE follows
      <4>1. KeyEvent(ic, sym, FALSE, within)
        BY <1>8, <2>4
      <4> QED BY <1>1, <1>2, <2>4, <3>1, <4>1, TourGoesOn
    <3>2. CASE ~follows
      <4>1. tour'[ic] = <<>>
        BY <2>1, <2>4, <3>2 DEF Follow
      <4> QED BY <1>3, <4>1
    <3> QED BY <3>1, <3>2
  <2> QED BY <2>2, <2>3, <2>4
<1>9. CASE UNCHANGED varsWithKeys
  <2>1. /\ tour' = tour /\ keyState' = keyState
        /\ active' = active /\ localIM' = localIM /\ groups' = groups
        /\ capability' = capability /\ allowPassword' = allowPassword
    BY <1>9 DEF varsWithKeys, vars, historyVars, stateVars, configVars
  <2> QED BY <1>2, <2>1, TourStays
<1>10. CASE NextWithKeys
  BY <1>4, <1>5, <1>6, <1>7, <1>8, <1>10 DEF NextWithKeys
<1> QED BY <1>9, <1>10

LEMMA ToursReachAll ==
  ASSUME TourInv
  PROVE  HeldTriggerVisitsAll
<1> DEFINE list == groups[1].list
<1> SUFFICES ASSUME NEW ic \in alive,
                    EnumerateWithTriggerKeys, ~EnumerateSkipFirst,
                    \A i, j \in DOMAIN list : list[i] = list[j] => i = j,
                    Len(tour[ic]) > Len(list)
             PROVE  ToSet(list) \subseteq ToSet(tour[ic])
  BY DEF HeldTriggerVisitsAll
<1>1. ic \in InputContext /\ TourFits(ic) /\ Typed(Now)
  BY FocusFacts DEF TourInv, KeysInv, IInv
<1>2. list \in Seq(InputMethod) /\ tour[ic] \in Seq(InputMethod \cup {None})
      /\ List(Now) = list
  BY <1>1, FirstGroup DEF TourFits, List, Now
<1>3. CASE list = <<>>
  <2>1. ToSet(list) = {}
    BY <1>3 DEF ToSet
  <2> QED BY <2>1
<1>4. CASE list # <<>>
  <2>1. Len(list) \in Nat \ {0} /\ Len(tour[ic]) >= 2
    BY <1>2, <1>4
  <2>2. PICK p \in 1..Len(list) : Turns(list, tour[ic], p)
    BY <1>1, <2>1 DEF TourFits, Distinct
  <2> HIDE DEF list
  <2> QED BY <1>2, <2>2, TurnsReachAll
<1> QED BY <1>3, <1>4

\* "If Control is held, following key press of Space will enumerate the input
\* method": whatever the context used, its group holds and the keys are, one
\* press more than the list is long has been everywhere in it.
THEOREM TriggerVisitsAll == SpecWithKeys => []HeldTriggerVisitsAll
<1>1. InitWithKeys => TourInv
  <2>1. InitWithKeys => \A ic \in InputContext : TourFits(ic)
    BY DEF InitWithKeys, TourFits
  <2> QED BY <2>1, KeysInit DEF TourInv
<1>2. TourInv /\ [NextWithKeys]_varsWithKeys => TourInv'
  BY ToursStep
<1>3. TourInv => HeldTriggerVisitsAll
  BY ToursReachAll
<1> QED BY <1>1, <1>2, <1>3, PTL DEF SpecWithKeys
=============================================================================
