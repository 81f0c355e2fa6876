----------------------- MODULE InputMethodSwitchProofs -----------------------
(***************************************************************************)
(* What InputMethodSwitch promises, for all contexts, groups, input        *)
(* methods and options.                                                    *)
(*                                                                         *)
(* The inductive invariant has three parts: FocusGroups' own, since the    *)
(* focus decides who has an engine; Typed(Now), which also says that the   *)
(* default of every group is one that its list accepts; and, as long as    *)
(* the option for passwords stays what it is, Settled(Now, {}), each       *)
(* context runs the engine of the input method it uses if it has focus,    *)
(* and none otherwise.  Settled is broken in the middle of an operation:   *)
(* the contexts that a caller watches are left to it.  Careful(s, r, W)    *)
(* says so of a call from s to r: it opens and closes no engine of the     *)
(* contexts of W, and settles every other one if it was settled before.    *)
(* Calls that are careful compose, and the check at the end of each        *)
(* operation settles those it watched.                                     *)
(***************************************************************************)
EXTENDS InputMethodSwitch, SequenceTheorems, WellFoundedInduction, TLAPS

(***************************************************************************)
(* Groups and their lists.                                                 *)
(***************************************************************************)

\* A set of numbers has a least one.
LEMMA HasLeast ==
  ASSUME NEW T, T \subseteq Nat, T # {}
  PROVE  \E x \in T : \A y \in T : x <= y
<1> DEFINE R == OpToRel(<, Nat)
<1>1. IsWellFoundedOn(R, Nat)
  BY NatLessThanWellFounded
<1>2. \A x, y \in Nat : <<y, x>> \in R <=> y < x
  BY DEF OpToRel
<1> HIDE DEF R
<1>3. PICK x \in T : \A y \in T : ~ (<<y, x>> \in R)
  BY <1>1, WFMin
<1>4. \A y \in T : x \in Nat /\ y \in Nat /\ ~(y < x)
  BY <1>2, <1>3
<1> QED BY <1>4

\* Where an input method is in a list: at its first occurrence, or nowhere (0).
FoundAt(list, im, i) ==
  /\ i = 0 => \A j \in 1..Len(list) : list[j] # im
  /\ i # 0 => /\ i \in 1..Len(list) /\ list[i] = im
              /\ \A j \in 1..Len(list) : list[j] = im => i <= j

Position(list, im) == SelectInSeq(list, LAMBDA item : item = im)

\* SelectInSeq finds the first occurrence.
LEMMA PositionFacts ==
  ASSUME NEW list \in Seq(InputMethod), NEW im
  PROVE  FoundAt(list, im, Position(list, im))
<1> DEFINE I == {j \in 1..Len(list) : list[j] = im}
           i == Position(list, im)
<1>1. i = IF I # {} THEN Min(I) ELSE 0
  BY DEF Position, SelectInSeq
<1>2. I \subseteq Nat /\ 0 \notin I
  OBVIOUS
<1>3. I # {} => Min(I) \in I /\ \A j \in I : Min(I) <= j
  BY <1>2, HasLeast DEF Min
<1> HIDE DEF i
<1>4. FoundAt(list, im, i)
  BY <1>1, <1>2, <1>3 DEF FoundAt
<1> QED BY <1>4 DEF i

\* A normalized default is in the list, and not its first item if it can be
\* helped; to normalize it again changes nothing.
LEMMA NormalizedFacts ==
  ASSUME NEW list \in Seq(InputMethod), NEW im
  PROVE  LET default == Normalized(list, im)
         IN  /\ default \in InputMethod \cup {None}
             /\ default = Normalized(list, default)
             /\ list # <<>> => default \in ToSet(list)
             /\ Len(list) > 1 /\ (\A i \in 2..Len(list) : list[i] # list[1])
                  => default # list[1]
             /\ im \in ToSet(list) /\ (Len(list) > 1 => im # list[1])
                  => default = im
<1>1. /\ DOMAIN list = 1..Len(list) /\ Len(list) \in Nat
      /\ list = <<>> <=> Len(list) = 0
      /\ \A i \in 1..Len(list) : list[i] \in InputMethod
  OBVIOUS
<1> DEFINE default == Normalized(list, im)
           Accepted(x) == /\ \E i \in 1..Len(list) : list[i] = x
                          /\ Len(list) > 1 => list[1] # x
<1>2. \A x : Normalized(list, x) = IF Accepted(x) THEN x
                                 ELSE IF Len(list) > 1 THEN list[2]
                                 ELSE IF list = <<>> THEN None ELSE list[1]
  BY <1>1 DEF Normalized
<1> HIDE DEF default
<1>3. default = IF Accepted(im) THEN im
                ELSE IF Len(list) > 1 THEN list[2]
                ELSE IF list = <<>> THEN None ELSE list[1]
  BY <1>2 DEF default
<1>4. default \in InputMethod \cup {None}
  BY <1>1, <1>3
<1>5. default = Normalized(list, default)
  BY <1>1, <1>2, <1>3
<1>6. list # <<>> => default \in ToSet(list)
  BY <1>1, <1>3 DEF ToSet
<1>7. Len(list) > 1 /\ (\A i \in 2..Len(list) : list[i] # list[1])
        => default # list[1]
  BY <1>1, <1>3
<1>8. im \in ToSet(list) /\ (Len(list) > 1 => im # list[1]) => default = im
  BY <1>1, <1>3 DEF ToSet
<1> QED BY <1>4, <1>5, <1>6, <1>7, <1>8 DEF default

\* A list holds input methods, never a null.
LEMMA NoNullItem ==
  ASSUME NEW list \in Seq(InputMethod)
  PROVE  None \notin ToSet(list)
<1>1. \A i \in DOMAIN list : list[i] \in InputMethod
  OBVIOUS
<1> QED BY <1>1, KeyboardAssumption DEF ToSet

\* The groups after the first do not matter to the contexts.
LEMMA RemoveAtFacts ==
  ASSUME NEW order \in Seq(KnownGroups), NEW i \in 1..Len(order)
  PROVE  /\ RemoveAt(order, i) \in Seq(KnownGroups)
         /\ Len(RemoveAt(order, i)) = Len(order) - 1
         /\ i # 1 => RemoveAt(order, i)[1] = order[1]
<1> DEFINE front == SubSeq(order, 1, i - 1)
           back == SubSeq(order, i + 1, Len(order))
<1>1. /\ front \in Seq(KnownGroups) /\ Len(front) = i - 1
      /\ \A j \in 1..(i - 1) : front[j] = order[j]
  OBVIOUS
<1>2. back \in Seq(KnownGroups) /\ Len(back) = Len(order) - i
  OBVIOUS
<1>3. RemoveAt(order, i) = front \o back
  BY DEF RemoveAt
<1> HIDE DEF front, back
<1>4. /\ front \o back \in Seq(KnownGroups)
      /\ Len(front \o back) = Len(front) + Len(back)
  BY <1>1, <1>2, ConcatProperties
<1>5. i # 1 => (front \o back)[1] = front[1]
  BY <1>1, <1>2
<1> QED BY <1>1, <1>2, <1>3, <1>4, <1>5

(***************************************************************************)
(* The state that the nested calls hand on.                                *)
(***************************************************************************)

Rec(s) == [active |-> s.active, localIM |-> s.localIM, lastIM |-> s.lastIM,
           opened |-> s.opened, byAlt |-> s.byAlt, groups |-> s.groups,
           capability |-> s.capability, has |-> s.has, allow |-> s.allow]

Typed(s) ==
  /\ s = Rec(s)
  /\ s.active \in [State -> BOOLEAN]
  /\ s.localIM \in [State -> InputMethod \cup {None}]
  /\ s.lastIM \in [State -> InputMethod \cup {None}]
  /\ s.opened \in [State -> SUBSET InputMethod]
  /\ s.byAlt \in [State -> BOOLEAN]
  /\ s.groups \in Seq(KnownGroups) \ {<<>>}
  /\ s.capability \in [State -> {"Normal", "Password", "Disable"}]
  /\ s.has \in [InputContext -> BOOLEAN]
  /\ s.allow \in BOOLEAN

\* What decides on the input method of each context is the same.
SameChoice(s, r) ==
  /\ r.active = s.active /\ r.localIM = s.localIM /\ r.groups = s.groups
  /\ r.capability = s.capability /\ r.has = s.has /\ r.allow = s.allow

Uses(s, c) == IF c \in Focused(s) THEN InputMethodOf(s, c) ELSE None

\* The only engine open for c is that of im, and none if im is None.
Runs(s, c, im) == s.lastIM[c] = im /\ s.opened[c] = {im} \ {None}

\* Every context but those of W runs the engine of what it uses.
Settled(s, W) == \A c \in State \ W : Runs(s, c, Uses(s, c))

\* No engine is opened or closed for the contexts of W.
Kept(s, r, W) ==
  \A c \in State : c \in W => r.lastIM[c] = s.lastIM[c] /\ r.opened[c] = s.opened[c]

\* The current group is a known one.
LEMMA FirstGroup ==
  ASSUME NEW s, Typed(s)
  PROVE  /\ s.groups[1] \in KnownGroups
         /\ List(s) \in Seq(InputMethod)
         /\ s.groups[1].default = Normalized(List(s), s.groups[1].default)
<1>1. s.groups[1] \in KnownGroups
  BY DEF Typed
<1> QED BY <1>1 DEF KnownGroups, List

\* What Instance::inputMethod depends on.
LEMMA SameInputMethod ==
  ASSUME NEW s, NEW r, NEW c,
         r.active[c] = s.active[c], r.localIM[c] = s.localIM[c],
         r.groups[1] = s.groups[1], r.capability[c] = s.capability[c],
         r.allow = s.allow
  PROVE  /\ InputMethodOf(r, c) = InputMethodOf(s, c)
         /\ InputMethodDisabled(r, c) = InputMethodDisabled(s, c)
BY DEF InputMethodOf, InputMethodDisabled, List

\* In a disabled context Instance::inputMethod answers a keyboard.
LEMMA InputMethodTyped ==
  ASSUME NEW s, Typed(s), NEW c \in State
  PROVE  /\ InputMethodOf(s, c) \in InputMethod \cup {None}
         /\ InputMethodDisabled(s, c)
              => InputMethodOf(s, c) \in {s.groups[1].layout, KeyboardUs} \ {None}
<1> USE KeyboardAssumption, FirstGroup
<1>1. CASE InputMethodDisabled(s, c)
  BY <1>1 DEF InputMethodOf
<1>2. CASE ~InputMethodDisabled(s, c)
  <2>1. List(s) # <<>> => Head(List(s)) \in InputMethod
    OBVIOUS
  <2>2. s.groups[1].default \in InputMethod \cup {None}
    BY DEF KnownGroups
  <2>3. s.localIM[c] \in InputMethod \cup {None}
    BY DEF Typed
  <2> QED BY <1>2, <2>1, <2>2, <2>3 DEF InputMethodOf
<1> QED BY <1>1, <1>2

(***************************************************************************)
(* Engines are switched for the contexts of who, which ran what they used  *)
(* before.                                                                 *)
(***************************************************************************)
LEMMA DeactivateFacts ==
  ASSUME NEW s, Typed(s), NEW who \in SUBSET State, NEW before
  PROVE  LET r == DeactivateInputMethod(s, who, before)
         IN  /\ Typed(r) /\ SameChoice(s, r) /\ Kept(s, r, State \ who)
             /\ \A c \in who : Runs(s, c, InputMethodOf(before, c))
                                 => Runs(r, c, None)
<1> DEFINE r == DeactivateInputMethod(s, who, before)
           L == [c \in State |-> IF c \in who THEN None ELSE s.lastIM[c]]
           O == [c \in State |-> IF c \in who
                  THEN s.opened[c] \ {InputMethodOf(before, c)}
                  ELSE s.opened[c]]
<1>1. r = [Rec(s) EXCEPT !.lastIM = L, !.opened = O]
  BY DEF Typed, DeactivateInputMethod
<1>2. L \in [State -> InputMethod \cup {None}]
  BY DEF Typed
<1>3. O \in [State -> SUBSET InputMethod]
  BY DEF Typed
<1>4. \A c \in State : /\ c \notin who => L[c] = s.lastIM[c] /\ O[c] = s.opened[c]
                       /\ c \in who => /\ L[c] = None
                                       /\ O[c] = s.opened[c] \ {InputMethodOf(before, c)}
  OBVIOUS
<1> HIDE DEF r, L, O
<1>5. r = Rec(r) /\ r.lastIM = L /\ r.opened = O /\ SameChoice(s, r)
      /\ r.byAlt = s.byAlt
  BY <1>1 DEF Rec, SameChoice
<1>6. Typed(r)
  BY <1>2, <1>3, <1>5 DEF Typed, SameChoice
<1>7. Kept(s, r, State \ who)
  BY <1>4, <1>5 DEF Kept
<1>8. \A c \in who : Runs(s, c, InputMethodOf(before, c)) => Runs(r, c, None)
  BY <1>4, <1>5 DEF Runs
<1> QED BY <1>5, <1>6, <1>7, <1>8 DEF r

\* A context that ran nothing runs what it uses.
LEMMA ActivateFacts ==
  ASSUME NEW s, Typed(s), NEW who \in SUBSET State
  PROVE  LET r == ActivateInputMethod(s, who)
         IN  /\ Typed(r) /\ SameChoice(s, r) /\ Kept(s, r, State \ who)
             /\ \A c \in who : Runs(s, c, None)
                                 => Runs(r, c, InputMethodOf(s, c))
<1> DEFINE r == ActivateInputMethod(s, who)
           im(c) == InputMethodOf(s, c)
           L == [c \in State |-> IF c \in who /\ im(c) # None THEN im(c)
                                 ELSE s.lastIM[c]]
           O == [c \in State |-> IF c \in who /\ im(c) # None
                                 THEN s.opened[c] \cup {im(c)}
                                 ELSE s.opened[c]]
<1>1. r = [Rec(s) EXCEPT !.lastIM = L, !.opened = O]
  <2> DEFINE some == {c \in who : im(c) # None}
  <2>1. \A c : c \in some <=> c \in who /\ im(c) # None
    OBVIOUS
  <2>2. r = [s EXCEPT
               !.lastIM = [c \in State |-> IF c \in some THEN im(c) ELSE @[c]],
               !.opened = [c \in State |-> IF c \in some THEN @[c] \cup {im(c)}
                                           ELSE @[c]]]
    BY DEF ActivateInputMethod
  <2> HIDE DEF some, im
  <2>3. L = [c \in State |-> IF c \in some THEN im(c) ELSE s.lastIM[c]]
    BY <2>1
  <2>4. O = [c \in State |-> IF c \in some THEN s.opened[c] \cup {im(c)}
                             ELSE s.opened[c]]
    BY <2>1
  <2> HIDE DEF r, L, O
  <2> QED BY <2>2, <2>3, <2>4 DEF Typed
<1>2. \A c \in State : im(c) \in InputMethod \cup {None}
  BY InputMethodTyped
<1> HIDE DEF im
<1>3. L \in [State -> InputMethod \cup {None}]
  BY <1>2 DEF Typed
<1>4. O \in [State -> SUBSET InputMethod]
  BY <1>2 DEF Typed
<1>5. \A c \in State : /\ c \notin who \/ im(c) = None
                            => L[c] = s.lastIM[c] /\ O[c] = s.opened[c]
                       /\ c \in who /\ im(c) # None
                            => L[c] = im(c) /\ O[c] = s.opened[c] \cup {im(c)}
  OBVIOUS
<1> HIDE DEF r, L, O
<1>6. r = Rec(r) /\ r.lastIM = L /\ r.opened = O /\ SameChoice(s, r)
      /\ r.byAlt = s.byAlt
  BY <1>1 DEF Rec, SameChoice
<1>7. Typed(r)
  BY <1>3, <1>4, <1>6 DEF Typed, SameChoice
<1>8. Kept(s, r, State \ who)
  BY <1>5, <1>6 DEF Kept
<1>9. \A c \in who : Runs(s, c, None) => Runs(r, c, im(c))
  BY <1>5, <1>6 DEF Runs
<1> QED BY <1>6, <1>7, <1>8, <1>9 DEF r, im

\* A context that ran what it used before runs what it uses now.
LEMMA SwitchFacts ==
  ASSUME NEW s, Typed(s), NEW who \in SUBSET State, NEW before
  PROVE  LET r == SwitchInputMethod(s, who, before)
         IN  /\ Typed(r) /\ SameChoice(s, r) /\ Kept(s, r, State \ who)
             /\ \A c \in who : Runs(s, c, InputMethodOf(before, c))
                                 => Runs(r, c, InputMethodOf(s, c))
<1> DEFINE d == DeactivateInputMethod(s, who, before)
           r == ActivateInputMethod(d, who)
<1>1. /\ Typed(d) /\ SameChoice(s, d) /\ Kept(s, d, State \ who)
      /\ \A c \in who : Runs(s, c, InputMethodOf(before, c))
                          => Runs(d, c, None)
  BY DeactivateFacts
<1> HIDE DEF d
<1>2. /\ Typed(r) /\ SameChoice(d, r) /\ Kept(d, r, State \ who)
      /\ \A c \in who : Runs(d, c, None) => Runs(r, c, InputMethodOf(d, c))
  BY <1>1, ActivateFacts
<1> HIDE DEF r
<1>3. \A c : InputMethodOf(d, c) = InputMethodOf(s, c)
  BY <1>1, SameInputMethod DEF SameChoice
<1>4. SameChoice(s, r)
  BY <1>1, <1>2 DEF SameChoice
<1>5. Kept(s, r, State \ who)
  BY <1>1, <1>2 DEF Kept
<1>6. \A c \in who : Runs(s, c, InputMethodOf(before, c))
                       => Runs(r, c, InputMethodOf(s, c))
  BY <1>1, <1>2, <1>3
<1> QED BY <1>2, <1>4, <1>5, <1>6 DEF SwitchInputMethod, r, d

\* A check closes what a watched context used before and opens what it uses now.
LEMMA CheckedFacts ==
  ASSUME NEW s, Typed(s), NEW watched \in SUBSET State, NEW before,
         NEW alt \in BOOLEAN
  PROVE  LET r == CheckedAs(alt, before, watched, s)
         IN  /\ Typed(r) /\ SameChoice(s, r)
             /\ Kept(s, r, State \ (watched \cap Focused(s)))
             /\ \A c \in watched \cap Focused(s) :
                  Runs(s, c, InputMethodOf(before, c))
                    => Runs(r, c, InputMethodOf(s, c))
<1> DEFINE r == CheckedAs(alt, before, watched, s)
           changed == {c \in watched \cap Focused(s) :
                         InputMethodOf(s, c) # InputMethodOf(before, c)}
           q == SwitchInputMethod(s, changed, before)
           B == [c \in State |-> IF c \in changed THEN alt ELSE q.byAlt[c]]
<1>1. changed \in SUBSET State
  OBVIOUS
<1>2. /\ Typed(q) /\ SameChoice(s, q) /\ Kept(s, q, State \ changed)
      /\ \A c \in changed : Runs(s, c, InputMethodOf(before, c))
                              => Runs(q, c, InputMethodOf(s, c))
  BY <1>1, SwitchFacts
<1>3. r = [q EXCEPT !.byAlt = B]
  BY DEF CheckedAs
<1>4. \A c \in watched \cap Focused(s) :
        c \notin changed => InputMethodOf(s, c) = InputMethodOf(before, c)
  OBVIOUS
<1>5. changed \subseteq watched \cap Focused(s)
  OBVIOUS
<1> HIDE DEF q, changed
<1>6. B \in [State -> BOOLEAN]
  BY <1>2 DEF Typed
<1> HIDE DEF B, r
<1>7. r = Rec(r) /\ r.byAlt = B /\ r.lastIM = q.lastIM /\ r.opened = q.opened
      /\ SameChoice(q, r)
  <2>1. r = [Rec(q) EXCEPT !.byAlt = B]
    BY <1>2, <1>3 DEF Typed
  <2> QED BY <2>1 DEF Rec, SameChoice
<1>8. Typed(r)
  BY <1>2, <1>6, <1>7 DEF Typed, SameChoice
<1>9. SameChoice(s, r)
  BY <1>2, <1>7 DEF SameChoice
<1>10. Kept(s, r, State \ (watched \cap Focused(s)))
  BY <1>2, <1>5, <1>7 DEF Kept
<1>11. ASSUME NEW c \in watched \cap Focused(s),
              Runs(s, c, InputMethodOf(before, c))
       PROVE  Runs(r, c, InputMethodOf(s, c))
  <2>1. CASE c \in changed
    BY <1>2, <1>7, <1>11, <2>1 DEF Runs
  <2>2. CASE c \notin changed
    BY <1>2, <1>4, <1>7, <1>11, <2>2 DEF Runs, Kept
  <2> QED BY <2>1, <2>2
<1> QED BY <1>8, <1>9, <1>10, <1>11 DEF r

(***************************************************************************)
(* Calls that leave the engines of the contexts of W to their caller.      *)
(***************************************************************************)

\* SharersAgree, in a state that the calls hand on.
Agree(s) ==
  \A a \in alive, c \in State :
    c \in Sharing(a) => s.active[c] = s.active[a] /\ s.localIM[c] = s.localIM[a]

Careful(s, r, W) ==
  /\ Typed(r)
  /\ r.capability = s.capability /\ r.has = s.has /\ r.allow = s.allow
  /\ r.groups[1].list = s.groups[1].list
  /\ r.groups[1].layout = s.groups[1].layout
  /\ Kept(s, r, W)
  /\ Settled(s, W) => Settled(r, W)
  /\ Agree(s) => Agree(r)

\* Calls that do nothing are careful, and careful calls compose.
LEMMA CarefulSelf ==
  ASSUME NEW s, Typed(s), NEW W
  PROVE  Careful(s, s, W)
BY DEF Careful, Kept

LEMMA CarefulTrans ==
  ASSUME NEW s, NEW q, NEW r, NEW W, Careful(s, q, W), Careful(q, r, W)
  PROVE  Careful(s, r, W)
<1>1. Kept(s, r, W)
  BY DEF Careful, Kept
<1> QED BY <1>1 DEF Careful

\* Agreement is about active_ and localIM_ only.
LEMMA SameAgree ==
  ASSUME NEW s, NEW r, r.active = s.active, r.localIM = s.localIM, Agree(s)
  PROVE  Agree(r)
BY DEF Agree

\* The contexts of X have been watched since s and are checked now.
LEMMA CheckedCloses ==
  ASSUME NEW s, Typed(s), NEW X \in SUBSET State, NEW W \in SUBSET State,
         X \cap W = {}, NEW q, Careful(s, q, X \cup W)
  PROVE  /\ Careful(s, Checked(s, X, q), W)
         /\ SameChoice(q, Checked(s, X, q))
<1> DEFINE r == Checked(s, X, q)
<1>1. Typed(q) /\ FALSE \in BOOLEAN
  BY DEF Careful
<1>2. /\ Typed(r) /\ SameChoice(q, r)
      /\ Kept(q, r, State \ (X \cap Focused(q)))
      /\ \A c \in X \cap Focused(q) :
           Runs(q, c, InputMethodOf(s, c)) => Runs(r, c, InputMethodOf(q, c))
  BY <1>1, CheckedFacts DEF Checked
<1> HIDE DEF r
<1>3. Focused(q) = Focused(s) /\ Focused(r) = Focused(s)
  BY <1>2 DEF Careful, SameChoice, Focused
<1>4. \A c : InputMethodOf(r, c) = InputMethodOf(q, c)
  BY <1>2, SameInputMethod DEF SameChoice
<1>5. Kept(s, r, W)
  BY <1>2 DEF Careful, Kept
<1>6. ASSUME Settled(s, W), NEW c \in State \ W
      PROVE  Runs(r, c, Uses(r, c))
  <2>1. Settled(s, X \cup W)
    BY <1>6 DEF Settled
  <2>2. Settled(q, X \cup W)
    BY <2>1 DEF Careful
  <2>3. Runs(s, c, Uses(s, c))
    BY <1>6 DEF Settled
  <2>4. CASE c \in X /\ c \in Focused(s)
    <3>1. Runs(q, c, InputMethodOf(s, c))
      BY <2>3, <2>4 DEF Careful, Kept, Runs, Uses
    <3> QED BY <1>2, <1>3, <1>4, <2>4, <3>1 DEF Uses
  <2>5. CASE c \in X /\ c \notin Focused(s)
    <3>1. Runs(q, c, None)
      BY <2>3, <2>5 DEF Careful, Kept, Runs, Uses
    <3> QED BY <1>2, <1>3, <2>5, <3>1 DEF Uses, Runs, Kept
  <2>6. CASE c \notin X
    <3>1. Runs(q, c, Uses(q, c))
      BY <1>6, <2>2, <2>6 DEF Settled
    <3>2. Runs(r, c, Uses(q, c))
      BY <1>2, <2>6, <3>1 DEF Runs, Kept
    <3> QED BY <1>3, <1>4, <3>2 DEF Uses
  <2> QED BY <2>4, <2>5, <2>6
<1>7. Agree(s) => Agree(r)
  BY <1>2, SameAgree DEF Careful, SameChoice
<1>8. Settled(s, W) => Settled(r, W)
  BY <1>6 DEF Settled
<1>9. Careful(s, r, W)
  BY <1>2, <1>5, <1>7, <1>8 DEF Careful, SameChoice
<1> QED BY <1>2, <1>9 DEF r

\* In r, all that share the state of ic have these values, and others their own.
Copies(s, r, ic, on, im) ==
  \A c \in State :
    /\ r.active[c] = IF c \in Sharing(ic) \cup {ic} THEN on ELSE s.active[c]
    /\ r.localIM[c] = IF c \in Sharing(ic) \cup {ic} THEN im ELSE s.localIM[c]

\* Contexts that agreed still do when each of them gets a copy.
LEMMA CopiesAgree ==
  ASSUME NEW s, NEW r, NEW ic \in State, NEW on, NEW im,
         alive \in SUBSET InputContext, Agree(s), Copies(s, r, ic, on, im)
  PROVE  Agree(r)
<1> SUFFICES ASSUME NEW a \in alive, NEW c \in State, c \in Sharing(a)
             PROVE  r.active[c] = r.active[a] /\ r.localIM[c] = r.localIM[a]
  BY DEF Agree
<1>1. a \in State
  BY DEF State
<1>2. s.active[c] = s.active[a] /\ s.localIM[c] = s.localIM[a]
  BY DEF Agree
<1>3. c \in Sharing(ic) \cup {ic} <=> a \in Sharing(ic) \cup {ic}
  BY DEF Sharing
<1> QED BY <1>1, <1>2, <1>3 DEF Copies

\* updateProperty checks whom it reaches, but for ic and those being watched.
LEMMA PropagateFacts ==
  ASSUME NEW s, Typed(s), NEW ic \in State, NEW watched \in SUBSET State,
         alive \in SUBSET InputContext
  PROVE  LET r == Propagate(s, ic, watched)
             W == watched \cup {ic}
         IN  /\ Typed(r) /\ r.groups = s.groups /\ r.capability = s.capability
             /\ r.has = s.has /\ r.allow = s.allow
             /\ Copies(s, r, ic, s.active[ic], s.localIM[ic])
             /\ Kept(s, r, W)
             /\ Settled(s, W) => Settled(r, W)
<1> DEFINE W == watched \cup {ic}
           others == {c \in Sharing(ic) : <<s.active[c], s.localIM[c]>>
                                          # <<s.active[ic], s.localIM[ic]>>}
           A == [c \in State |-> IF c \in others THEN s.active[ic]
                                 ELSE s.active[c]]
           I == [c \in State |-> IF c \in others THEN s.localIM[ic]
                                 ELSE s.localIM[c]]
           copied == [s EXCEPT
             !.active = [c \in State |-> IF c \in others THEN s.active[ic]
                                         ELSE @[c]],
             !.localIM = [c \in State |-> IF c \in others THEN s.localIM[ic]
                                          ELSE @[c]]]
           X == (others \cap Focused(s)) \ watched
           r == Checked(s, X, copied)
<1>1. Sharing(ic) \subseteq State
  BY DEF Sharing, State
<1>2. /\ others \subseteq State /\ ic \notin others
      /\ \A c \in Sharing(ic) \ others : s.active[c] = s.active[ic]
                                         /\ s.localIM[c] = s.localIM[ic]
      /\ others \subseteq Sharing(ic)
  BY <1>1
<1>3. copied = [Rec(s) EXCEPT !.active = A, !.localIM = I]
  <2> HIDE DEF others
  <2> QED BY DEF Typed
<1>4. X \subseteq others /\ X \subseteq Focused(s) /\ X \cap W = {}
      /\ (others \cap Focused(s)) \subseteq X \cup watched
  BY <1>2
<1> HIDE DEF others, copied, X
<1>5. A \in [State -> BOOLEAN] /\ I \in [State -> InputMethod \cup {None}]
  BY DEF Typed
<1>6. \A c \in State : /\ A[c] = IF c \in others THEN s.active[ic] ELSE s.active[c]
                       /\ I[c] = IF c \in others THEN s.localIM[ic] ELSE s.localIM[c]
  OBVIOUS
<1> HIDE DEF A, I
<1>7. /\ copied = Rec(copied) /\ copied.active = A /\ copied.localIM = I
      /\ copied.lastIM = s.lastIM /\ copied.opened = s.opened
      /\ copied.byAlt = s.byAlt /\ copied.groups = s.groups
      /\ copied.capability = s.capability /\ copied.has = s.has
      /\ copied.allow = s.allow
  BY <1>3 DEF Rec
<1>8. Typed(copied)
  BY <1>5, <1>7 DEF Typed
<1>9. Focused(copied) = Focused(s)
  BY <1>7 DEF Focused
<1>10. /\ Typed(r) /\ SameChoice(copied, r) /\ Kept(copied, r, State \ X)
       /\ \A c \in X : Runs(copied, c, InputMethodOf(s, c))
                         => Runs(r, c, InputMethodOf(copied, c))
  <2>1. X \in SUBSET State /\ X \cap Focused(copied) = X
    BY <1>2, <1>4, <1>9
  <2>2. FALSE \in BOOLEAN
    OBVIOUS
  <2> HIDE DEF r
  <2>3. r = CheckedAs(FALSE, s, X, copied)
    BY DEF r, Checked
  <2> QED BY <1>8, <2>1, <2>2, <2>3, CheckedFacts
<1>11. r = Propagate(s, ic, watched)
  BY DEF Propagate, copied, X, others
<1> HIDE DEF r
<1>12. Copies(s, r, ic, s.active[ic], s.localIM[ic])
  <2>1. r.active = A /\ r.localIM = I
    BY <1>7, <1>10 DEF SameChoice
  <2> QED BY <1>2, <1>6, <2>1 DEF Copies
<1>13. Kept(s, r, W)
  BY <1>4, <1>7, <1>10 DEF Kept
<1>14. \A c : InputMethodOf(r, c) = InputMethodOf(copied, c)
  BY <1>10, SameInputMethod DEF SameChoice
<1>15. Focused(r) = Focused(s)
  BY <1>9, <1>10 DEF SameChoice, Focused
<1>16. ASSUME Settled(s, W), NEW c \in State \ W
       PROVE  Runs(r, c, Uses(r, c))
  <2>1. Runs(s, c, Uses(s, c))
    BY <1>16 DEF Settled
  <2>2. CASE c \in X
    <3>1. Runs(copied, c, InputMethodOf(s, c))
      BY <1>4, <1>7, <2>1, <2>2 DEF Runs, Uses
    <3> QED BY <1>4, <1>10, <1>14, <1>15, <2>2, <3>1 DEF Uses
  <2>3. CASE c \notin X
    <3>1. Runs(r, c, Uses(s, c))
      BY <1>7, <1>10, <2>1, <2>3 DEF Runs, Kept
    <3>2. CASE c \notin Focused(s)
      BY <1>15, <3>1, <3>2 DEF Uses
    <3>3. CASE c \in Focused(s)
      <4>1. c \notin others
        BY <1>4, <1>16, <2>3, <3>3
      <4>2. InputMethodOf(copied, c) = InputMethodOf(s, c)
        BY <1>6, <1>7, <4>1, SameInputMethod
      <4> QED BY <1>14, <1>15, <3>1, <3>3, <4>2 DEF Uses
    <3> QED BY <3>2, <3>3
  <2> QED BY <2>2, <2>3
<1>17. Settled(s, W) => Settled(r, W)
  BY <1>16 DEF Settled
<1>18. /\ r.groups = s.groups /\ r.capability = s.capability /\ r.has = s.has
       /\ r.allow = s.allow
  BY <1>7, <1>10 DEF SameChoice
<1> QED BY <1>10, <1>11, <1>12, <1>13, <1>17, <1>18

HasState(s, ic, on, im) == s.active[ic] = on /\ s.localIM[ic] = im

\* A change of the state of ic, before it is handed on to those that share it.
LEMMA HandedOn ==
  ASSUME NEW s, Typed(s), NEW q, Typed(q), NEW ic \in State,
         NEW watched \in SUBSET State, alive \in SUBSET InputContext,
         q.groups = s.groups, q.capability = s.capability, q.has = s.has,
         q.allow = s.allow, q.lastIM = s.lastIM, q.opened = s.opened,
         \A c \in State \ {ic} : q.active[c] = s.active[c]
                                 /\ q.localIM[c] = s.localIM[c]
  PROVE  LET r == Propagate(q, ic, watched)
         IN  /\ Careful(s, r, watched \cup {ic})
             /\ r.groups = s.groups
             /\ HasState(r, ic, q.active[ic], q.localIM[ic])
<1> DEFINE r == Propagate(q, ic, watched)
           W == watched \cup {ic}
<1>1. /\ Typed(r) /\ r.groups = q.groups /\ r.capability = q.capability
      /\ r.has = q.has /\ r.allow = q.allow
      /\ Copies(q, r, ic, q.active[ic], q.localIM[ic])
      /\ Kept(q, r, W)
      /\ Settled(q, W) => Settled(r, W)
  BY PropagateFacts
<1> HIDE DEF r
<1>2. Copies(s, r, ic, q.active[ic], q.localIM[ic])
  BY <1>1 DEF Copies
<1>3. Agree(s) => Agree(r)
  BY <1>2, CopiesAgree
<1>4. \A c \in State \ {ic} : Uses(q, c) = Uses(s, c)
  BY SameInputMethod DEF Uses, Focused
<1>5. Settled(s, W) => Settled(q, W)
  BY <1>4 DEF Settled, Runs
<1>6. Kept(s, r, W)
  BY <1>1 DEF Kept
<1>7. Careful(s, r, W)
  BY <1>1, <1>3, <1>5, <1>6 DEF Careful
<1>8. HasState(r, ic, q.active[ic], q.localIM[ic])
  BY <1>1 DEF Copies, HasState
<1> QED BY <1>1, <1>7, <1>8 DEF r

\* InputState::setActive.
LEMMA SetActiveFacts ==
  ASSUME NEW s, Typed(s), NEW ic \in State, NEW watched \in SUBSET State,
         NEW on \in BOOLEAN, alive \in SUBSET InputContext
  PROVE  LET r == SetActive(s, ic, on, watched)
         IN  /\ Careful(s, r, watched \cup {ic})
             /\ r.groups = s.groups
             /\ HasState(r, ic, on, s.localIM[ic])
<1>1. CASE s.active[ic] = on
  BY <1>1, CarefulSelf DEF SetActive, HasState
<1>2. CASE s.active[ic] # on
  <2> DEFINE A == [s.active EXCEPT ![ic] = on]
             q == [s EXCEPT !.active[ic] = on]
  <2>1. q = [Rec(s) EXCEPT !.active = A]
    BY DEF Typed
  <2>2. /\ A \in [State -> BOOLEAN] /\ A[ic] = on
        /\ \A c \in State \ {ic} : A[c] = s.active[c]
    BY DEF Typed
  <2> HIDE DEF A, q
  <2>3. /\ q = Rec(q) /\ q.active = A /\ q.localIM = s.localIM
        /\ q.lastIM = s.lastIM /\ q.opened = s.opened /\ q.byAlt = s.byAlt
        /\ q.groups = s.groups /\ q.capability = s.capability
        /\ q.has = s.has /\ q.allow = s.allow
    BY <2>1 DEF Rec
  <2>4. Typed(q)
    BY <2>2, <2>3 DEF Typed
  <2> DEFINE r == Propagate(q, ic, watched)
  <2>5. /\ Careful(s, r, watched \cup {ic}) /\ r.groups = s.groups
        /\ HasState(r, ic, q.active[ic], q.localIM[ic])
    <3>1. \A c \in State \ {ic} : q.active[c] = s.active[c]
                                  /\ q.localIM[c] = s.localIM[c]
      BY <2>2, <2>3
    <3> QED BY <2>3, <2>4, <3>1, HandedOn
  <2>6. SetActive(s, ic, on, watched) = r
    BY <1>2 DEF SetActive, q
  <2> HIDE DEF r
  <2> QED BY <2>2, <2>3, <2>5, <2>6
<1> QED BY <1>1, <1>2

\* InputState::setLocalIM.
LEMMA SetLocalIMFacts ==
  ASSUME NEW s, Typed(s), NEW ic \in State, NEW watched \in SUBSET State,
         NEW im \in InputMethod \cup {None}, alive \in SUBSET InputContext
  PROVE  LET r == SetLocalIM(s, ic, im, watched)
         IN  /\ Careful(s, r, watched \cup {ic})
             /\ r.groups = s.groups
             /\ HasState(r, ic, s.active[ic], im)
<1>1. CASE s.localIM[ic] = im
  BY <1>1, CarefulSelf DEF SetLocalIM, HasState
<1>2. CASE s.localIM[ic] # im
  <2> DEFINE I == [s.localIM EXCEPT ![ic] = im]
             q == [s EXCEPT !.localIM[ic] = im]
  <2>1. q = [Rec(s) EXCEPT !.localIM = I]
    BY DEF Typed
  <2>2. /\ I \in [State -> InputMethod \cup {None}] /\ I[ic] = im
        /\ \A c \in State \ {ic} : I[c] = s.localIM[c]
    BY DEF Typed
  <2> HIDE DEF I, q
  <2>3. /\ q = Rec(q) /\ q.active = s.active /\ q.localIM = I
        /\ q.lastIM = s.lastIM /\ q.opened = s.opened /\ q.byAlt = s.byAlt
        /\ q.groups = s.groups /\ q.capability = s.capability
        /\ q.has = s.has /\ q.allow = s.allow
    BY <2>1 DEF Rec
  <2>4. Typed(q)
    BY <2>2, <2>3 DEF Typed
  <2> DEFINE r == Propagate(q, ic, watched)
  <2>5. /\ Careful(s, r, watched \cup {ic}) /\ r.groups = s.groups
        /\ HasState(r, ic, q.active[ic], q.localIM[ic])
    <3>1. \A c \in State \ {ic} : q.active[c] = s.active[c]
                                  /\ q.localIM[c] = s.localIM[c]
      BY <2>2, <2>3
    <3> QED BY <2>3, <2>4, <3>1, HandedOn
  <2>6. SetLocalIM(s, ic, im, watched) = r
    BY <1>2 DEF SetLocalIM, q
  <2> HIDE DEF r
  <2> QED BY <2>2, <2>3, <2>5, <2>6
<1> QED BY <1>1, <1>2

\* A new default reaches focused contexts only.
LEMMA SetDefaultFacts ==
  ASSUME NEW s, Typed(s), NEW im, NEW W, Focused(s) \subseteq W
  PROVE  LET r == SetDefaultInputMethod(s, im)
         IN  /\ Careful(s, r, W)
             /\ r.active = s.active /\ r.localIM = s.localIM
             /\ r.groups[1].default = Normalized(List(s), im)
<1> DEFINE first == [s.groups[1] EXCEPT !.default = Normalized(List(s), im)]
           G == [s.groups EXCEPT ![1] = first]
           r == SetDefaultInputMethod(s, im)
<1>1. /\ s.groups \in Seq(KnownGroups) /\ 1 \in DOMAIN s.groups
      /\ s.groups[1] \in KnownGroups /\ List(s) \in Seq(InputMethod)
      /\ List(s) = s.groups[1].list
  BY FirstGroup DEF Typed, List
<1>2. /\ first \in KnownGroups
      /\ first.list = s.groups[1].list /\ first.layout = s.groups[1].layout
      /\ first.default = Normalized(List(s), im)
  <2>1. /\ Normalized(List(s), im) \in InputMethod \cup {None}
        /\ Normalized(List(s), im)
             = Normalized(List(s), Normalized(List(s), im))
    BY <1>1, NormalizedFacts
  <2> QED BY <1>1, <2>1 DEF KnownGroups
<1>3. r = [Rec(s) EXCEPT !.groups = G]
  BY DEF Typed, SetDefaultInputMethod
<1> HIDE DEF first
<1>4. G \in Seq(KnownGroups) \ {<<>>} /\ G[1] = first
  <2>1. G \in Seq(KnownGroups) /\ Len(G) = Len(s.groups) /\ G[1] = first
    BY <1>1, <1>2
  <2>2. Len(s.groups) # 0
    BY <1>1
  <2> QED BY <2>1, <2>2
<1> HIDE DEF G, r
<1>5. /\ r = Rec(r) /\ r.active = s.active /\ r.localIM = s.localIM
      /\ r.lastIM = s.lastIM /\ r.opened = s.opened /\ r.byAlt = s.byAlt
      /\ r.groups = G /\ r.capability = s.capability
      /\ r.has = s.has /\ r.allow = s.allow
  BY <1>3 DEF Rec
<1>6. Typed(r)
  BY <1>4, <1>5 DEF Typed
<1>7. Kept(s, r, W)
  BY <1>5 DEF Kept
<1>8. Focused(r) = Focused(s)
  BY <1>5 DEF Focused
<1>9. Settled(s, W) => Settled(r, W)
  <2>1. \A c \in State \ W : Uses(s, c) = None /\ Uses(r, c) = None
    BY <1>8 DEF Uses
  <2> QED BY <1>5, <2>1 DEF Settled, Runs
<1>10. Agree(s) => Agree(r)
  BY <1>5, SameAgree
<1>11. Careful(s, r, W)
  BY <1>2, <1>4, <1>5, <1>6, <1>7, <1>9, <1>10 DEF Careful
<1> QED BY <1>2, <1>4, <1>5, <1>11 DEF r

\* The default changes, and the contexts it reaches are checked.
LEMMA SetGlobalDefaultFacts ==
  ASSUME NEW s, Typed(s), NEW im, NEW W \in SUBSET State
  PROVE  LET r == SetGlobalDefaultInputMethod(s, im, W)
         IN  /\ Careful(s, r, W)
             /\ r.active = s.active /\ r.localIM = s.localIM
             /\ r.groups[1].default = Normalized(List(s), im)
<1> DEFINE q == SetDefaultInputMethod(s, im)
           X == Focused(s) \ W
<1>1. X \in SUBSET State /\ X \cap W = {} /\ Focused(s) \subseteq X \cup W
  BY DEF Focused, State
<1>2. /\ Careful(s, q, X \cup W)
      /\ q.active = s.active /\ q.localIM = s.localIM
      /\ q.groups[1].default = Normalized(List(s), im)
  <2> HIDE DEF X
  <2> QED BY <1>1, SetDefaultFacts
<1> HIDE DEF q, X
<1>3. Careful(s, Checked(s, X, q), W) /\ SameChoice(q, Checked(s, X, q))
  BY <1>1, <1>2, CheckedCloses
<1>4. SetGlobalDefaultInputMethod(s, im, W) = Checked(s, X, q)
  BY DEF SetGlobalDefaultInputMethod, X, q
<1> QED BY <1>2, <1>3, <1>4 DEF SameChoice

(***************************************************************************)
(* The operations of Instance, which leave the engine of ic to a watcher.  *)
(***************************************************************************)

\* Instance::toggle.
LEMMA ToggleFacts ==
  ASSUME NEW s, Typed(s), NEW ic \in State, alive \in SUBSET InputContext
  PROVE  LET r == Toggle(s, ic)
         IN  /\ Careful(s, r, {ic})
             /\ r.groups = s.groups /\ r.localIM[ic] = s.localIM[ic]
             /\ CanTrigger(s) => r.active[ic] = ~s.active[ic]
<1>1. s.active[ic] \in BOOLEAN
  BY DEF Typed
<1>2. {ic} \in SUBSET State /\ {ic} \cup {ic} = {ic} /\ (~s.active[ic]) \in BOOLEAN
  OBVIOUS
<1>3. /\ Careful(s, SetActive(s, ic, ~s.active[ic], {ic}), {ic} \cup {ic})
      /\ SetActive(s, ic, ~s.active[ic], {ic}).groups = s.groups
      /\ HasState(SetActive(s, ic, ~s.active[ic], {ic}), ic, ~s.active[ic],
                  s.localIM[ic])
  <2> DEFINE on == ~s.active[ic]
  <2>1. on \in BOOLEAN
    OBVIOUS
  <2> HIDE DEF on
  <2>2. /\ Careful(s, SetActive(s, ic, on, {ic}), {ic} \cup {ic})
        /\ SetActive(s, ic, on, {ic}).groups = s.groups
        /\ HasState(SetActive(s, ic, on, {ic}), ic, on, s.localIM[ic])
    BY <1>2, <2>1, SetActiveFacts
  <2> QED BY <2>2 DEF on
<1>4. CASE CanTrigger(s)
  BY <1>2, <1>3, <1>4 DEF Toggle, HasState
<1>5. CASE ~CanTrigger(s)
  BY <1>5, CarefulSelf DEF Toggle
<1> QED BY <1>4, <1>5

\* Instance::activate and deactivate.
LEMMA SetEnabledFacts ==
  ASSUME NEW s, Typed(s), NEW ic \in State, NEW watched \in SUBSET State,
         NEW on \in BOOLEAN, alive \in SUBSET InputContext
  PROVE  Careful(s, SetEnabled(s, ic, on, watched), watched \cup {ic})
<1>1. Careful(s, SetActive(s, ic, on, watched), watched \cup {ic})
  BY SetActiveFacts
<1> QED BY <1>1, CarefulSelf DEF SetEnabled

\* Instance::enumerate.
LEMMA EnumerateFacts ==
  ASSUME NEW s, Typed(s), NEW ic \in State, NEW forward \in BOOLEAN,
         alive \in SUBSET InputContext
  PROVE  Careful(s, Enumerate(s, ic, forward), {ic})
<1> DEFINE watched == Focused(s) \cup {ic}
           X == Focused(s) \ {ic}
<1>1. /\ watched \in SUBSET State /\ {ic} \in SUBSET State /\ X \in SUBSET State
      /\ watched \cup {ic} = watched /\ X \cup {ic} = watched
      /\ X \cap {ic} = {} /\ {ic} \cup {ic} = {ic} /\ Focused(s) \subseteq watched
  BY DEF Focused, State
<1>2. Careful(s, SetActive(s, ic, FALSE, {ic}), {ic})
  <2>1. Careful(s, SetActive(s, ic, FALSE, {ic}), {ic} \cup {ic})
    BY <1>1, SetActiveFacts
  <2> QED BY <1>1, <2>1
<1>3. ASSUME NEW im
      PROVE  LET q == SetActive(SetDefaultInputMethod(s, im), ic, TRUE, watched)
             IN  Careful(s, Checked(s, X, SetLocalIM(q, ic, None, watched)),
                         {ic})
  <2> DEFINE d == SetDefaultInputMethod(s, im)
             q == SetActive(d, ic, TRUE, watched)
             l == SetLocalIM(q, ic, None, watched)
  <2> HIDE DEF watched, X
  <2>1. Careful(s, d, watched)
    BY <1>1, SetDefaultFacts
  <2> HIDE DEF d
  <2>2. Typed(d)
    BY <2>1 DEF Careful
  <2>3. Careful(d, q, watched \cup {ic})
    BY <1>1, <2>2, SetActiveFacts
  <2> HIDE DEF q
  <2>4. Typed(q) /\ Careful(d, q, watched)
    BY <1>1, <2>3 DEF Careful
  <2>5. Careful(q, l, watched \cup {ic})
    BY <1>1, <2>4, SetLocalIMFacts
  <2> HIDE DEF l
  <2>6. Careful(q, l, watched)
    BY <1>1, <2>5
  <2>7. Careful(s, q, watched)
    BY <2>1, <2>4, CarefulTrans
  <2>8. Careful(s, l, watched)
    BY <2>6, <2>7, CarefulTrans
  <2>9. Careful(s, Checked(s, X, l), {ic})
    <3>1. Careful(s, l, X \cup {ic})
      BY <1>1, <2>8
    <3> QED BY <1>1, <3>1, CheckedCloses
  <2> QED BY <2>9 DEF l, q, d
<1>4. Careful(s, s, {ic})
  BY CarefulSelf
<1> QED BY <1>2, <1>3, <1>4 DEF Enumerate

\* After setCurrentInputMethod the context uses what was chosen, provided that
\* the choice is one it can make; nobody else's engine is left behind.
LEMMA SetCurrentFacts ==
  ASSUME NEW s, Typed(s), NEW ic \in State, NEW im \in InputMethod,
         NEW local \in BOOLEAN, ic # None, alive \in SUBSET InputContext
  PROVE  LET r == SetCurrentInputMethod(s, ic, im, local)
         IN  /\ Careful(s, r, {ic})
             /\ CanTrigger(s) /\ im \in ToSet(List(s))
                /\ ~InputMethodDisabled(s, ic)
                  => InputMethodOf(r, ic) = im
<1> USE KeyboardAssumption
<1> DEFINE i == Position(List(s), im)
           c1 == SetLocalIM(s, ic, im, {ic})
           c0 == SetLocalIM(s, ic, None, {ic})
           g == SetGlobalDefaultInputMethod(c0, im, {ic})
           chosen == IF local THEN c1 ELSE g
           r == SetCurrentInputMethod(s, ic, im, local)
           last == SetActive(IF i = 1 THEN s ELSE chosen, ic, i # 1, {ic})
<1>1. {ic} \in SUBSET State /\ {ic} \cup {ic} = {ic} /\ None \in InputMethod \cup {None}
      /\ im \in InputMethod \cup {None}
  OBVIOUS
<1>2. FoundAt(List(s), im, i) /\ List(s) \in Seq(InputMethod)
  BY PositionFacts, FirstGroup
<1>3. r = IF ~CanTrigger(s) \/ i = 0 \/ InputMethodOf(s, ic) = im THEN s
          ELSE last
  BY DEF SetCurrentInputMethod, Position
<1> HIDE DEF i, r
<1>4. /\ Careful(s, c1, {ic}) /\ c1.groups = s.groups
      /\ HasState(c1, ic, s.active[ic], im)
  <2>1. /\ Careful(s, c1, {ic} \cup {ic}) /\ c1.groups = s.groups
        /\ HasState(c1, ic, s.active[ic], im)
    BY <1>1, SetLocalIMFacts
  <2> QED BY <1>1, <2>1
<1>5. /\ Careful(s, c0, {ic}) /\ c0.groups = s.groups
      /\ HasState(c0, ic, s.active[ic], None)
  <2>1. /\ Careful(s, c0, {ic} \cup {ic}) /\ c0.groups = s.groups
        /\ HasState(c0, ic, s.active[ic], None)
    BY <1>1, SetLocalIMFacts
  <2> QED BY <1>1, <2>1
<1> HIDE DEF c1, c0
<1>6. /\ Careful(c0, g, {ic}) /\ g.localIM = c0.localIM
      /\ g.groups[1].default = Normalized(List(c0), im)
  <2>1. Typed(c0)
    BY <1>5 DEF Careful
  <2> QED BY <1>1, <2>1, SetGlobalDefaultFacts
<1> HIDE DEF g
<1>7. /\ Careful(s, g, {ic}) /\ g.localIM[ic] = None
      /\ g.groups[1].default = Normalized(List(s), im)
  <2>1. Careful(s, g, {ic})
    BY <1>5, <1>6, CarefulTrans
  <2> QED BY <1>5, <1>6, <2>1 DEF List, HasState
<1> DEFINE q == IF i = 1 THEN s ELSE chosen
<1>8. Careful(s, q, {ic})
  BY <1>4, <1>7, CarefulSelf
<1>9. i # 1 => /\ local => q.localIM[ic] = im
               /\ ~local => /\ q.localIM[ic] = None
                            /\ q.groups[1].default = Normalized(List(s), im)
  BY <1>4, <1>7 DEF HasState
<1>10. last = SetActive(q, ic, i # 1, {ic})
  OBVIOUS
<1> HIDE DEF q, last, chosen
<1>11. /\ Careful(s, last, {ic}) /\ last.groups = q.groups
       /\ last.active[ic] <=> i # 1
       /\ last.localIM[ic] = q.localIM[ic]
  <2> DEFINE on == i # 1
  <2>1. on \in BOOLEAN /\ Typed(q)
    BY <1>8 DEF Careful
  <2> HIDE DEF on
  <2>2. /\ Careful(q, SetActive(q, ic, on, {ic}), {ic} \cup {ic})
        /\ SetActive(q, ic, on, {ic}).groups = q.groups
        /\ HasState(SetActive(q, ic, on, {ic}), ic, on, q.localIM[ic])
    BY <1>1, <2>1, SetActiveFacts
  <2>3. /\ Careful(q, last, {ic}) /\ last.groups = q.groups
        /\ HasState(last, ic, on, q.localIM[ic])
    BY <1>1, <1>10, <2>2 DEF on
  <2>4. Careful(s, last, {ic})
    BY <1>8, <2>3, CarefulTrans
  <2> QED BY <2>3, <2>4 DEF on, HasState
<1>12. Careful(s, r, {ic})
  BY <1>3, <1>11, CarefulSelf
<1>13. ASSUME CanTrigger(s), im \in ToSet(List(s)), ~InputMethodDisabled(s, ic)
       PROVE  InputMethodOf(r, ic) = im
  <2>1. i \in 1..Len(List(s)) /\ List(s)[i] = im /\ Len(List(s)) > 1
        /\ \A j \in 1..Len(List(s)) : List(s)[j] = im => i <= j
    BY <1>2, <1>13 DEF FoundAt, ToSet, CanTrigger
  <2>2. CASE InputMethodOf(s, ic) = im
    BY <1>3, <2>2
  <2>3. CASE InputMethodOf(s, ic) # im
    <3>1. r = last
      BY <1>2, <1>3, <1>13, <2>1, <2>3
    <3>2. ~InputMethodDisabled(last, ic) /\ List(last) = List(s)
          /\ List(s) # <<>> /\ Head(List(s)) = List(s)[1]
      BY <1>2, <1>11, <1>13, <2>1 DEF Careful, InputMethodDisabled, List
    <3>3. CASE i = 1
      BY <1>11, <2>1, <3>1, <3>2, <3>3 DEF InputMethodOf
    <3>4. CASE i # 1 /\ local
      BY <1>9, <1>11, <1>13, <3>1, <3>2, <3>4 DEF InputMethodOf
    <3>5. CASE i # 1 /\ ~local
      <4>1. None \notin ToSet(List(s))
        BY <1>2, NoNullItem
      <4>2. List(s)[1] # im
        BY <1>2, <2>1, <3>5
      <4>3. Normalized(List(s), im) = im
        BY <1>2, <1>13, <4>2, NormalizedFacts
      <4> QED BY <1>9, <1>11, <3>1, <3>2, <3>5, <4>1, <4>3 DEF InputMethodOf
    <3> QED BY <3>3, <3>4, <3>5
  <2> QED BY <2>2, <2>3
<1> QED BY <1>12, <1>13 DEF r

-----------------------------------------------------------------------------
(* What the handlers do when the focus moves. *)

\* What FocusIn activates, for a context that ran nothing.
LEMMA HandleFocusInFacts ==
  ASSUME NEW s, Typed(s), NEW ic \in InputContext, ic \in Focused(s), NEW last,
         alive \in SUBSET InputContext
  PROVE  LET r == HandleFocusIn(s, ic, last)
         IN  /\ Typed(r) /\ r.has = s.has /\ r.allow = s.allow
             /\ Settled(s, {ic}) /\ Runs(s, ic, None) => Settled(r, {})
             /\ Agree(s) => Agree(r)
<1> DEFINE resets == \/ ResetStateWhenFocusIn = "All"
                     \/ ResetStateWhenFocusIn = "Program" /\ ~SameProgram(ic, last)
           q == IF resets THEN SetEnabled(s, ic, ActiveByDefault, {}) ELSE s
           r == ActivateInputMethod(q, {ic})
<1>1. ic \in State /\ {ic} \in SUBSET State /\ {} \cup {ic} = {ic}
      /\ {} \in SUBSET State
  BY DEF State
<1>2. Careful(s, q, {ic})
  <2>1. Careful(s, SetEnabled(s, ic, ActiveByDefault, {}), {} \cup {ic})
    BY <1>1, OptionsAssumption, SetEnabledFacts
  <2>2. Careful(s, s, {ic})
    BY CarefulSelf
  <2> HIDE DEF resets
  <2> QED BY <1>1, <2>1, <2>2
<1>3. r = HandleFocusIn(s, ic, last)
  BY DEF HandleFocusIn
<1> HIDE DEF q
<1>4. /\ Typed(r) /\ SameChoice(q, r) /\ Kept(q, r, State \ {ic})
      /\ \A c \in {ic} : Runs(q, c, None) => Runs(r, c, InputMethodOf(q, c))
  <2>1. Typed(q)
    BY <1>2 DEF Careful
  <2> QED BY <1>1, <2>1, ActivateFacts
<1> HIDE DEF r
<1>5. ASSUME Settled(s, {ic}), Runs(s, ic, None), NEW c \in State
      PROVE  Runs(r, c, Uses(r, c))
  <2>1. Settled(q, {ic}) /\ Runs(q, ic, None)
    BY <1>1, <1>2, <1>5 DEF Careful, Kept, Runs
  <2>2. Uses(r, c) = Uses(q, c)
    BY <1>4, SameInputMethod DEF Uses, Focused, SameChoice
  <2>3. CASE c = ic
    <3>1. ic \in Focused(q)
      BY <1>2 DEF Careful, Focused
    <3> QED BY <1>4, <2>1, <2>2, <2>3, <3>1 DEF Uses
  <2>4. CASE c # ic
    BY <1>4, <2>1, <2>2, <2>4 DEF Settled, Kept, Runs
  <2> QED BY <2>3, <2>4
<1>6. Settled(s, {ic}) /\ Runs(s, ic, None) => Settled(r, {})
  BY <1>5 DEF Settled
<1>7. Agree(s) => Agree(r)
  BY <1>2, <1>4, SameAgree DEF Careful, SameChoice
<1> QED BY <1>2, <1>3, <1>4, <1>6, <1>7 DEF Careful, SameChoice

\* The focus as has says it after it moved from old to new; the contexts of gone
\* have lost it, whatever they had.
MovedTo(s, has, old, new, gone) ==
  /\ has \in [InputContext -> BOOLEAN]
  /\ old \in InputContext \cup {None} /\ new \in alive \cup {None}
  /\ old # None => s.has[old]
  /\ new # None => ~s.has[new] /\ has[new]
  /\ \A c \in InputContext \ gone : has[c] <=> c = new \/ (c # old /\ s.has[c])
  /\ \A c \in gone \cap InputContext : ~has[c]

FocusLeft(s, has, old) ==
  LET q == [s EXCEPT !.has = has]
  IN  DeactivateInputMethod(q, {old} \ {None}, q)

\* In r, made of s, the engine of the context that lost focus is closed.
HasLeft(s, r, has, new, gone) ==
  /\ Typed(r)
  /\ r.active = s.active /\ r.localIM = s.localIM
  /\ r.allow = s.allow /\ r.has = has
  /\ Settled(s, {}) => /\ Settled(r, gone \cup ({new} \ {None}))
                       /\ new # None => Runs(r, new, None)
  /\ Agree(s) => Agree(r)

\* The context that lost focus has no engine, and no other is touched.
LEMMA LeftFacts ==
  ASSUME NEW s, Typed(s), NEW has, NEW old, NEW new, NEW gone,
         MovedTo(s, has, old, new, gone), alive \in SUBSET InputContext
  PROVE  HasLeft(s, FocusLeft(s, has, old), has, new, gone)
<1> USE NullAssumption, DummyAssumption
<1> DEFINE q == [s EXCEPT !.has = has]
           who == {old} \ {None}
           r == DeactivateInputMethod(q, who, q)
           W == gone \cup ({new} \ {None})
<1>1. q = [Rec(s) EXCEPT !.has = has]
  BY DEF Typed
<1> HIDE DEF q
<1>2. /\ q = Rec(q) /\ q.active = s.active /\ q.localIM = s.localIM
      /\ q.lastIM = s.lastIM /\ q.opened = s.opened /\ q.byAlt = s.byAlt
      /\ q.groups = s.groups /\ q.capability = s.capability
      /\ q.has = has /\ q.allow = s.allow
  BY <1>1 DEF Rec
<1>3. Typed(q)
  BY <1>2 DEF Typed, MovedTo
<1>4. who \in SUBSET State
  BY DEF MovedTo, State
<1>5. /\ Typed(r) /\ SameChoice(q, r) /\ Kept(q, r, State \ who)
      /\ \A c \in who : Runs(q, c, InputMethodOf(q, c)) => Runs(r, c, None)
  <2> HIDE DEF who
  <2> QED BY <1>3, <1>4, DeactivateFacts
<1>6. \A c : c \in who <=> c = old /\ c # None
  OBVIOUS
<1> HIDE DEF r, who
<1>7. \A c : InputMethodOf(q, c) = InputMethodOf(s, c)
             /\ InputMethodOf(r, c) = InputMethodOf(s, c)
  BY <1>2, <1>5, SameInputMethod DEF SameChoice
<1>8. r.has = has
  BY <1>2, <1>5 DEF SameChoice
<1>9. ASSUME Settled(s, {}), NEW c \in State \ W
      PROVE  Runs(r, c, Uses(r, c))
  <2>1. Runs(s, c, Uses(s, c))
    BY <1>9 DEF Settled
  <2>2. CASE c \in InputContext /\ c = old
    <3>1. c \in who /\ c \in Focused(s) /\ c \notin Focused(r)
      BY <1>6, <1>8, <1>9, <2>2 DEF MovedTo, Focused
    <3>2. Runs(q, c, InputMethodOf(q, c))
      BY <1>2, <1>7, <2>1, <3>1 DEF Uses, Runs
    <3> QED BY <1>5, <3>1, <3>2 DEF Uses
  <2>3. CASE c \in InputContext /\ c # old
    <3>1. c \notin who /\ (c \in Focused(r) <=> c \in Focused(s))
      BY <1>6, <1>8, <1>9, <2>3 DEF MovedTo, Focused
    <3>2. Uses(r, c) = Uses(s, c)
      BY <1>7, <3>1 DEF Uses
    <3> QED BY <1>2, <1>5, <2>1, <3>1, <3>2 DEF Runs, Kept
  <2>4. CASE c \notin InputContext
    <3>1. c \notin who /\ c \notin Focused(r) /\ c \notin Focused(s)
      BY <1>6, <2>4 DEF MovedTo, Focused
    <3> QED BY <1>2, <1>5, <2>1, <3>1 DEF Runs, Kept, Uses
  <2> QED BY <2>2, <2>3, <2>4
<1>10. Settled(s, {}) => Settled(r, W)
  BY <1>9 DEF Settled
<1>11. ASSUME Settled(s, {}), new # None
       PROVE  Runs(r, new, None)
  <2>1. new \in State /\ new \notin Focused(s) /\ new \notin who
    BY <1>6, <1>11 DEF MovedTo, State, Focused
  <2>2. Runs(s, new, None)
    BY <1>11, <2>1 DEF Settled, Uses
  <2> QED BY <1>2, <1>5, <2>1, <2>2 DEF Runs, Kept
<1>12. Agree(s) => Agree(r)
  BY <1>2, <1>5, SameAgree DEF SameChoice
<1>13. /\ r.active = s.active /\ r.localIM = s.localIM /\ r.allow = s.allow
  BY <1>2, <1>5 DEF SameChoice
<1> QED BY <1>5, <1>8, <1>10, <1>11, <1>12, <1>13 DEF r, q, who, FocusLeft, HasLeft

\* The events of one call, as the handlers pick them apart.
Tells(events, old, new) ==
  Lost(events) = {old} \ {None} /\ Gained(events) = {new} \ {None}

\* The handlers of a call's events, whoever loses and gains the focus.
LEMMA HandledFacts ==
  ASSUME NEW s, Typed(s), NEW has, NEW old, NEW new, NEW events,
         MovedTo(s, has, old, new, {}), Tells(events, old, new),
         alive \in SUBSET InputContext
  PROVE  LET r == Handled([s EXCEPT !.has = has], events)
         IN  /\ Typed(r) /\ r.allow = s.allow /\ r.has = has
             /\ Settled(s, {}) => Settled(r, {})
             /\ Agree(s) => Agree(r)
<1> DEFINE q == [s EXCEPT !.has = has]
           left == FocusLeft(s, has, old)
           r == Handled(q, events)
<1>1. /\ Typed(left) /\ left.allow = s.allow /\ left.has = has
      /\ Settled(s, {}) => /\ Settled(left, {} \cup ({new} \ {None}))
                           /\ new # None => Runs(left, new, None)
      /\ Agree(s) => Agree(left)
  <2>1. HasLeft(s, left, has, new, {})
    BY LeftFacts
  <2> QED BY <2>1 DEF HasLeft
<1>2. left = DeactivateInputMethod(q, Lost(events), q)
  BY DEF Tells, FocusLeft
<1> HIDE DEF left, q
<1>3. r = IF Gained(events) = {} THEN left
          ELSE HandleFocusIn(left, CHOOSE ic \in Gained(events) : TRUE,
                             LastUnFocused(events))
  BY <1>2 DEF Handled
<1>4. CASE new = None
  <2>1. r = left /\ {} \cup ({new} \ {None}) = {}
    BY <1>3, <1>4 DEF Tells
  <2> HIDE DEF r
  <2> QED BY <1>1, <2>1 DEF r, q
<1>5. CASE new # None
  <2> DEFINE last == LastUnFocused(events)
             on == HandleFocusIn(left, new, last)
  <2>1. {} \cup ({new} \ {None}) = {new}
    BY <1>5
  <2>2. Gained(events) = {new}
    BY <1>5 DEF Tells
  <2>3. (CHOOSE ic \in Gained(events) : TRUE) = new
    BY <2>2
  <2>4. r = on
    BY <1>3, <2>2, <2>3
  <2>5. new \in InputContext /\ new \in Focused(left)
    BY <1>1, <1>5 DEF MovedTo, Focused
  <2> HIDE DEF last
  <2>6. /\ Typed(on) /\ on.has = left.has /\ on.allow = left.allow
        /\ Settled(left, {new}) /\ Runs(left, new, None) => Settled(on, {})
        /\ Agree(left) => Agree(on)
    BY <1>1, <2>5, HandleFocusInFacts
  <2> HIDE DEF r, on
  <2> QED BY <1>1, <1>5, <2>1, <2>4, <2>6 DEF r, q
<1> QED BY <1>4, <1>5

-----------------------------------------------------------------------------
(* One lemma for each action. *)

\* What every step of the instance keeps up, as far as it can.
Preserves ==
  /\ Typed(Now)'
  /\ allowPassword' = allowPassword /\ Settled(Now, {}) => Settled(Now, {})'
  /\ share' = share /\ Agree(Now) => Agree(Now)'

\* The state that is committed is the next one.
LEMMA CommitIs ==
  ASSUME NEW r, Typed(r), Commit(r), r.has = hasFocus', r.allow = allowPassword'
  PROVE  Now' = r
BY DEF Typed, Rec, Commit, Now

\* It is enough to look at the state that is committed.
LEMMA CommitPreserves ==
  ASSUME NEW r, Typed(r), Commit(r), r.has = hasFocus', r.allow = allowPassword',
         Settled(Now, {}) => Settled(r, {}), Agree(Now) => Agree(r),
         alive' = alive
  PROVE  Preserves
<1>1. Now' = r
  BY CommitIs
<1>2. Typed(Now)'
  BY <1>1 DEF Typed, Rec
<1>3. Settled(r, {}) => Settled(Now, {})'
  BY <1>1 DEF Settled, Runs, Uses, InputMethodOf, InputMethodDisabled, List,
              Focused
<1>4. share' = share /\ Agree(r) => Agree(Now)'
  BY <1>1 DEF Agree, Sharing
<1> QED BY <1>2, <1>3, <1>4 DEF Preserves

\* A careful call that moves no focus.
LEMMA CarefulPreserves ==
  ASSUME NEW r, Careful(Now, r, {}), Commit(r), Unfocused, UNCHANGED configVars
  PROVE  Preserves
<1>1. /\ Now.has = hasFocus /\ Now.allow = allowPassword
      /\ hasFocus' = hasFocus /\ alive' = alive /\ allowPassword' = allowPassword
  BY DEF Now, Unfocused, configVars
<1>2. /\ Typed(r) /\ r.has = hasFocus' /\ r.allow = allowPassword'
      /\ Settled(Now, {}) => Settled(r, {})
      /\ Agree(Now) => Agree(r)
  BY <1>1 DEF Careful
<1> QED BY <1>1, <1>2, CommitPreserves

\* The check at the end of an operation settles what it watched.
LEMMA WatchingFacts ==
  ASSUME Typed(Now), NEW ic \in State, NEW s, Careful(Now, s, {ic})
  PROVE  /\ Careful(Now, Watching(ic, s), {})
         /\ SameChoice(s, Watching(ic, s))
<1>1. /\ {ic} \in SUBSET State /\ {} \in SUBSET State /\ {ic} \cap {} = {}
      /\ {ic} \cup {} = {ic}
  OBVIOUS
<1>2. Careful(Now, s, {ic} \cup {})
  BY <1>1
<1> QED BY <1>1, <1>2, CheckedCloses DEF Watching

\* The operations on the most recent context.
LEMMA OnRecentStep ==
  ASSUME Typed(Now), Recent \in State, NEW done, Careful(Now, done, {Recent}),
         OnRecent(done)
  PROVE  Preserves
BY WatchingFacts, CarefulPreserves DEF OnRecent

LEMMA ToggleStep ==
  ASSUME Typed(Now), alive \in SUBSET InputContext, Recent \in State \cup {None},
         ToggleRecent
  PROVE  Preserves
<1>1. Recent \in State
  BY DEF ToggleRecent, OnRecent
<1>2. Careful(Now, Toggle(Now, Recent), {Recent})
  BY <1>1, ToggleFacts
<1> QED BY <1>1, <1>2, OnRecentStep DEF ToggleRecent

LEMMA SetRecentEnabledStep ==
  ASSUME Typed(Now), alive \in SUBSET InputContext, Recent \in State \cup {None},
         NEW on \in BOOLEAN, SetRecentEnabled(on)
  PROVE  Preserves
<1>1. Recent \in State
  BY DEF SetRecentEnabled, OnRecent
<1>2. {Recent} \in SUBSET State /\ {Recent} \cup {Recent} = {Recent}
  BY <1>1
<1>3. Careful(Now, SetEnabled(Now, Recent, on, {Recent}), {Recent} \cup {Recent})
  BY <1>1, <1>2, SetEnabledFacts
<1> QED BY <1>1, <1>2, <1>3, OnRecentStep DEF SetRecentEnabled

LEMMA EnumerateStep ==
  ASSUME Typed(Now), alive \in SUBSET InputContext, Recent \in State \cup {None},
         NEW forward \in BOOLEAN, EnumerateRecent(forward)
  PROVE  Preserves
<1>1. Recent \in State
  BY DEF EnumerateRecent, OnRecent
<1>2. Careful(Now, Enumerate(Now, Recent, forward), {Recent})
  BY <1>1, EnumerateFacts
<1> QED BY <1>1, <1>2, OnRecentStep DEF EnumerateRecent

\* The choice of an input method, for the most recent context or for one.
LEMMA ChooseStep ==
  ASSUME Typed(Now), alive \in SUBSET InputContext, Recent \in State \cup {None},
         NEW im \in InputMethod, ChooseInputMethod(im)
  PROVE  Preserves
<1> DEFINE s == SetCurrentInputMethod(Now, Recent, im, FALSE)
           r == IF Recent = None THEN s ELSE Watching(Recent, s)
<1>1. Commit(r) /\ Unfocused /\ UNCHANGED configVars
  BY DEF ChooseInputMethod
<1>2. CASE Recent = None
  <2> DEFINE g == SetGlobalDefaultInputMethod(Now, im, {})
  <2>1. s \in {Now, g}
    BY <1>2 DEF SetCurrentInputMethod
  <2>2. Careful(Now, Now, {})
    BY CarefulSelf
  <2>3. {} \in SUBSET State
    OBVIOUS
  <2>4. Careful(Now, g, {})
    BY <2>3, SetGlobalDefaultFacts
  <2> HIDE DEF s, g
  <2>5. Careful(Now, r, {})
    BY <1>2, <2>1, <2>2, <2>4
  <2> HIDE DEF r
  <2> QED BY <1>1, <2>5, CarefulPreserves
<1>3. CASE Recent # None
  <2>1. Recent \in State
    BY <1>3
  <2>2. FALSE \in BOOLEAN
    OBVIOUS
  <2>3. Careful(Now, s, {Recent})
    BY <1>3, <2>1, <2>2, SetCurrentFacts
  <2> HIDE DEF s
  <2>4. Careful(Now, Watching(Recent, s), {})
    BY <2>1, <2>3, WatchingFacts
  <2>5. Careful(Now, r, {})
    BY <1>3, <2>4
  <2> HIDE DEF r
  <2> QED BY <1>1, <2>5, CarefulPreserves
<1> QED BY <1>2, <1>3

LEMMA SelectStep ==
  ASSUME Typed(Now), alive \in SUBSET InputContext, NEW ic \in InputContext,
         NEW im \in InputMethod, NEW local \in BOOLEAN,
         SelectInputMethod(ic, im, local)
  PROVE  Preserves
<1> DEFINE s == SetCurrentInputMethod(Now, ic, im, local)
<1>1. Commit(Watching(ic, s)) /\ Unfocused /\ UNCHANGED configVars
  BY DEF SelectInputMethod
<1>2. ic \in State /\ ic # None
  BY NullAssumption DEF State
<1>3. Careful(Now, s, {ic})
  BY <1>2, SetCurrentFacts
<1> HIDE DEF s
<1>4. Careful(Now, Watching(ic, s), {})
  BY <1>2, <1>3, WatchingFacts
<1> QED BY <1>1, <1>4, CarefulPreserves

\* A new configuration leaves the state of the contexts alone.
LEMMA ReloadStep ==
  ASSUME Typed(Now), ReloadConfig
  PROVE  Preserves
<1>1. Now' = [Now EXCEPT !.allow = allowPassword']
  BY DEF ReloadConfig, Unfocused, stateVars, Now
<1>2. allowPassword' \in BOOLEAN /\ alive' = alive
  BY OptionsAssumption DEF ReloadConfig, Unfocused
<1>3. Typed(Now)'
  BY <1>1, <1>2 DEF Typed, Rec, ReloadConfig, Unfocused, stateVars, Now
<1>4. allowPassword' = allowPassword => Now' = Now
  BY <1>1 DEF Now
<1>5. allowPassword' = allowPassword /\ Settled(Now, {}) => Settled(Now, {})'
  BY <1>4 DEF Settled, Runs, Uses, InputMethodOf, InputMethodDisabled, List,
              Focused
<1>6. share' = share /\ Agree(Now) => Agree(Now)'
  BY <1>2 DEF Agree, Sharing, ReloadConfig, stateVars, Now
<1> QED BY <1>3, <1>5, <1>6 DEF Preserves

\* A step that changes the groups, and the engines with the first of them.
LEMMA GroupsStep ==
  ASSUME Typed(Now), NEW order \in Seq(KnownGroups) \ {<<>>},
         NEW i, i # 1 => order[1] = groups[1],
         Commit(IF i = 1 THEN GroupsChange(Now, order)
                ELSE [Now EXCEPT !.groups = order]),
         Unfocused, UNCHANGED configVars
  PROVE  Preserves
<1> DEFINE q == [Now EXCEPT !.groups = order]
           r == SwitchInputMethod(q, Focused(Now), Now)
           all == IF i = 1 THEN r ELSE q
<1>1. Commit(all)
  BY DEF GroupsChange
<1>2. q = Rec(q) /\ q.groups = order /\ q.active = active /\ q.localIM = localIM
      /\ q.lastIM = lastIM /\ q.opened = opened /\ q.byAlt = byAlt
      /\ q.capability = capability /\ q.has = hasFocus /\ q.allow = allowPassword
  BY DEF Now, Rec
<1>3. Now.active = active /\ Now.localIM = localIM /\ Now.lastIM = lastIM
      /\ Now.opened = opened /\ Now.byAlt = byAlt /\ Now.groups = groups
      /\ Now.capability = capability /\ Now.has = hasFocus
      /\ Now.allow = allowPassword
  BY DEF Now
<1> HIDE DEF q
<1>4. Typed(q)
  BY <1>2, <1>3 DEF Typed
<1>5. Agree(Now) => Agree(q)
  BY <1>2, <1>3, SameAgree
<1>6. Focused(q) = Focused(Now) /\ Focused(Now) \in SUBSET State
  BY <1>2, <1>3 DEF Focused, State
<1>7. Typed(all) /\ all.has = hasFocus /\ all.allow = allowPassword
      /\ (Agree(Now) => Agree(all)) /\ (Settled(Now, {}) => Settled(all, {}))
  <2>1. CASE i # 1
    <3>1. \A c \in State : Uses(q, c) = Uses(Now, c)
      BY <1>2, <1>3, <1>6, <2>1, SameInputMethod DEF Uses
    <3>2. Settled(Now, {}) => Settled(q, {})
      BY <1>2, <1>3, <3>1 DEF Settled, Runs
    <3> QED BY <1>2, <1>4, <1>5, <2>1, <3>2
  <2>2. CASE i = 1
    <3>1. /\ Typed(r) /\ SameChoice(q, r) /\ Kept(q, r, State \ Focused(Now))
          /\ \A c \in Focused(Now) : Runs(q, c, InputMethodOf(Now, c))
                                       => Runs(r, c, InputMethodOf(q, c))
      BY <1>4, <1>6, SwitchFacts
    <3> HIDE DEF r
    <3>2. ASSUME Settled(Now, {}), NEW c \in State
          PROVE  Runs(r, c, Uses(r, c))
      <4>1. Runs(q, c, Uses(Now, c))
        BY <1>2, <1>3, <3>2 DEF Settled, Runs
      <4>2. Uses(r, c) = Uses(q, c)
        BY <3>1, SameInputMethod DEF Uses, Focused, SameChoice
      <4>3. CASE c \in Focused(Now)
        BY <1>6, <3>1, <4>1, <4>2, <4>3 DEF Uses
      <4>4. CASE c \notin Focused(Now)
        BY <1>6, <3>1, <4>1, <4>2, <4>4 DEF Uses, Runs, Kept
      <4> QED BY <4>3, <4>4
    <3>3. Settled(Now, {}) => Settled(r, {})
      BY <3>2 DEF Settled
    <3>4. Agree(Now) => Agree(r)
      BY <1>5, <3>1, SameAgree DEF SameChoice
    <3> QED BY <1>2, <2>2, <3>1, <3>3, <3>4 DEF SameChoice
  <2> QED BY <2>1, <2>2
<1> HIDE DEF all
<1>8. hasFocus' = hasFocus /\ allowPassword' = allowPassword /\ alive' = alive
  BY DEF Unfocused, configVars
<1> QED BY <1>1, <1>7, <1>8, CommitPreserves

\* The changes of the groups that the manager announces.
LEMMA SetCurrentGroupStep ==
  ASSUME Typed(Now), NEW i, SetCurrentGroup(i)
  PROVE  Preserves
<1> DEFINE order == MoveToFront(groups, i)
<1>1. groups \in Seq(KnownGroups) /\ i \in 1..Len(groups)
  BY DEF SetCurrentGroup, Typed, Now
<1>2. order \in Seq(KnownGroups) \ {<<>>}
  <2> DEFINE rest == RemoveAt(groups, i)
  <2>1. rest \in Seq(KnownGroups)
    BY <1>1, RemoveAtFacts
  <2>2. groups[i] \in KnownGroups
    BY <1>1
  <2> HIDE DEF rest
  <2>3. <<groups[i]>> \o rest \in Seq(KnownGroups)
        /\ Len(<<groups[i]>> \o rest) = 1 + Len(rest)
    BY <2>1, <2>2
  <2>4. <<groups[i]>> \o rest # <<>>
    BY <2>1, <2>3
  <2> QED BY <2>3, <2>4 DEF MoveToFront, rest
<1>3. Commit(IF 1 = 1 THEN GroupsChange(Now, order)
             ELSE [Now EXCEPT !.groups = order])
      /\ Unfocused /\ UNCHANGED configVars
  BY DEF SetCurrentGroup
<1> HIDE DEF order
<1> QED BY <1>2, <1>3, GroupsStep

LEMMA SetGroupStep ==
  ASSUME Typed(Now), NEW i, NEW list \in Lists, SetGroup(i, list)
  PROVE  Preserves
<1> DEFINE default == Normalized(list, groups[i].default)
           order == [groups EXCEPT ![i].list = list, ![i].default = default]
<1>1. /\ groups \in Seq(KnownGroups) /\ i \in 1..Len(groups)
      /\ groups[i] \in KnownGroups /\ list \in Seq(InputMethod)
  BY ListsAssumption DEF SetGroup, Typed, Now
<1>2. default \in InputMethod \cup {None} /\ default = Normalized(list, default)
  BY <1>1, NormalizedFacts
<1>3. Commit(IF i = 1 THEN GroupsChange(Now, order)
             ELSE [Now EXCEPT !.groups = order])
      /\ Unfocused /\ UNCHANGED configVars
  BY DEF SetGroup
<1> HIDE DEF default
<1>4. [groups[i] EXCEPT !.list = list, !.default = default] \in KnownGroups
  BY <1>1, <1>2 DEF KnownGroups
<1>5. order = [groups EXCEPT ![i] =
                 [groups[i] EXCEPT !.list = list, !.default = default]]
  BY <1>1
<1> DEFINE new == [groups[i] EXCEPT !.list = list, !.default = default]
<1> HIDE DEF order
<1>6. order = [groups EXCEPT ![i] = new] /\ new \in KnownGroups
  BY <1>4, <1>5
<1> HIDE DEF new
<1>7. order \in Seq(KnownGroups) /\ Len(order) = Len(groups) /\ Len(groups) # 0
      /\ (i # 1 => order[1] = groups[1])
  BY <1>1, <1>6
<1>8. order \in Seq(KnownGroups) \ {<<>>}
  BY <1>7
<1> QED BY <1>3, <1>7, <1>8, GroupsStep

LEMMA RemoveGroupStep ==
  ASSUME Typed(Now), NEW i, RemoveGroup(i)
  PROVE  Preserves
<1> DEFINE order == IF i = 1 THEN Tail(groups) ELSE RemoveAt(groups, i)
<1>1. groups \in Seq(KnownGroups) /\ i \in 1..Len(groups) /\ Len(groups) > 1
  BY DEF RemoveGroup, Typed, Now
<1>2. order \in Seq(KnownGroups) /\ Len(order) = Len(groups) - 1
      /\ (i # 1 => order[1] = groups[1])
  <2>1. CASE i = 1
    BY <1>1, <2>1
  <2>2. CASE i # 1
    BY <1>1, <2>2, RemoveAtFacts
  <2> QED BY <2>1, <2>2
<1>3. Commit(IF i = 1 THEN GroupsChange(Now, order)
             ELSE [Now EXCEPT !.groups = order])
      /\ Unfocused /\ UNCHANGED configVars
  BY DEF RemoveGroup
<1> HIDE DEF order
<1>4. order \in Seq(KnownGroups) \ {<<>>}
  BY <1>1, <1>2
<1> QED BY <1>2, <1>3, <1>4, GroupsStep

\* shouldSwitchIM is enough: nothing else that is used changes with the flags.
LEMMA CapabilityStep ==
  ASSUME Typed(Now), NEW ic \in InputContext,
         NEW flags \in {"Normal", "Password", "Disable"},
         SetCapabilityFlags(ic, flags)
  PROVE  Preserves
<1> DEFINE C == [capability EXCEPT ![ic] = flags]
           q == [Now EXCEPT !.capability[ic] = flags]
           who == {ic} \cap Focused(Now)
           r == SwitchInputMethod(q, who, Now)
           all == IF InputMethodDisabled(Now, ic) = InputMethodDisabled(q, ic)
                  THEN q ELSE r
<1>1. Commit(all) /\ Unfocused /\ UNCHANGED configVars
  BY DEF SetCapabilityFlags
<1>2. Now.active = active /\ Now.localIM = localIM /\ Now.lastIM = lastIM
      /\ Now.opened = opened /\ Now.byAlt = byAlt /\ Now.groups = groups
      /\ Now.capability = capability /\ Now.has = hasFocus
      /\ Now.allow = allowPassword
  BY DEF Now
<1>3. q = [Now EXCEPT !.capability = C]
  BY DEF Now
<1>4. ic \in State
  BY DEF State
<1>5. C \in [State -> {"Normal", "Password", "Disable"}]
      /\ \A c \in State \ {ic} : C[c] = capability[c]
  BY <1>2, <1>4 DEF Typed
<1> HIDE DEF C, q
<1>6. q = Rec(q) /\ q.groups = groups /\ q.active = active /\ q.localIM = localIM
      /\ q.lastIM = lastIM /\ q.opened = opened /\ q.byAlt = byAlt
      /\ q.capability = C /\ q.has = hasFocus /\ q.allow = allowPassword
  BY <1>3 DEF Now, Rec
<1>7. Typed(q)
  BY <1>2, <1>5, <1>6 DEF Typed
<1>8. Agree(Now) => Agree(q)
  BY <1>2, <1>6, SameAgree
<1>9. Focused(q) = Focused(Now) /\ who \in SUBSET State
  BY <1>2, <1>4, <1>6 DEF Focused
<1>10. \A c \in State \ {ic} : Uses(q, c) = Uses(Now, c)
  BY <1>2, <1>5, <1>6, <1>9, SameInputMethod DEF Uses
<1>11. Typed(all) /\ all.has = hasFocus /\ all.allow = allowPassword
       /\ (Agree(Now) => Agree(all)) /\ (Settled(Now, {}) => Settled(all, {}))
  <2>1. CASE InputMethodDisabled(Now, ic) = InputMethodDisabled(q, ic)
    <3>1. InputMethodOf(q, ic) = InputMethodOf(Now, ic)
      BY <1>2, <1>6, <2>1 DEF InputMethodOf, List
    <3>2. \A c \in State : Uses(q, c) = Uses(Now, c)
      BY <1>9, <1>10, <3>1 DEF Uses
    <3>3. Settled(Now, {}) => Settled(q, {})
      BY <1>2, <1>6, <3>2 DEF Settled, Runs
    <3> QED BY <1>6, <1>7, <1>8, <2>1, <3>3
  <2>2. CASE InputMethodDisabled(Now, ic) # InputMethodDisabled(q, ic)
    <3> HIDE DEF who
    <3>1. /\ Typed(r) /\ SameChoice(q, r) /\ Kept(q, r, State \ who)
          /\ \A c \in who : Runs(q, c, InputMethodOf(Now, c))
                              => Runs(r, c, InputMethodOf(q, c))
      BY <1>7, <1>9, SwitchFacts
    <3> HIDE DEF r
    <3>2. ASSUME Settled(Now, {}), NEW c \in State
          PROVE  Runs(r, c, Uses(r, c))
      <4>1. Runs(q, c, Uses(Now, c))
        BY <1>2, <1>6, <3>2 DEF Settled, Runs
      <4>2. Uses(r, c) = Uses(q, c)
        BY <3>1, SameInputMethod DEF Uses, Focused, SameChoice
      <4>3. CASE c \in who
        BY <1>9, <3>1, <4>1, <4>2, <4>3 DEF Uses, who
      <4>4. CASE c \notin who
        <5>1. Uses(q, c) = Uses(Now, c)
          BY <1>9, <1>10, <4>4 DEF Uses, who
        <5> QED BY <3>1, <4>1, <4>2, <4>4, <5>1 DEF Runs, Kept
      <4> QED BY <4>3, <4>4
    <3>3. Settled(Now, {}) => Settled(r, {})
      BY <3>2 DEF Settled
    <3>4. Agree(Now) => Agree(r)
      BY <1>8, <3>1, SameAgree DEF SameChoice
    <3> QED BY <1>6, <2>2, <3>1, <3>3, <3>4 DEF SameChoice
  <2> QED BY <2>1, <2>2
<1> HIDE DEF all
<1>12. hasFocus' = hasFocus /\ allowPassword' = allowPassword /\ alive' = alive
  BY <1>1 DEF Unfocused, configVars
<1> QED BY <1>1, <1>11, <1>12, CommitPreserves

-----------------------------------------------------------------------------
(* The steps that move the focus, of which FocusGroupsProofs tells what they *)
(* post.                                                                     *)

FocusProofs ==
  INSTANCE FocusGroupsProofs WITH ExitWhenMainDisplayDisconnected <- FALSE

\* The two instances of FocusGroups speak of the same calls.
LEMMA SameUnlink ==
  \A list, ic : Focus!Unlink(list, ic) = FocusProofs!Unlink(list, ic)
<1>1. \A list, i : Focus!RemoveAt(list, i) = FocusProofs!RemoveAt(list, i)
  BY DEF Focus!RemoveAt, FocusProofs!RemoveAt
<1> QED BY <1>1 DEF Focus!Unlink, FocusProofs!Unlink

\* What they are built from is the same.
LEMMA SamePost ==
  \A f, event : Focus!Post(f, event) = FocusProofs!Post(f, event)
BY DEF Focus!Post, FocusProofs!Post

LEMMA SameSetHasFocus ==
  \A f, ic, has : Focus!SetHasFocus(f, ic, has) = FocusProofs!SetHasFocus(f, ic, has)
<1>1. \A f, ic, has : Focus!NotifyFocus(f, ic, has)
                        = FocusProofs!NotifyFocus(f, ic, has)
  BY SameUnlink DEF Focus!NotifyFocus, FocusProofs!NotifyFocus
<1> QED BY <1>1, SamePost DEF Focus!SetHasFocus, FocusProofs!SetHasFocus

\* setFocusedInputContext of both.
LEMMA SameSetFocused ==
  ASSUME NEW f, NEW g, NEW ic
  PROVE  Focus!SetFocusedInputContext(f, g, ic)
           = FocusProofs!SetFocusedInputContext(f, g, ic)
<1> DEFINE old == f.focus[g]
           event == <<"FocusGroupFocusChanged", g>>
           left1 == IF old # None THEN Focus!SetHasFocus(f, old, FALSE) ELSE f
           left2 == IF old # None THEN FocusProofs!SetHasFocus(f, old, FALSE)
                    ELSE f
           moved1 == [left1 EXCEPT !.focus[g] = ic]
           moved2 == [left2 EXCEPT !.focus[g] = ic]
           taken1 == IF ic # None THEN Focus!SetHasFocus(moved1, ic, TRUE)
                     ELSE moved1
           taken2 == IF ic # None THEN FocusProofs!SetHasFocus(moved2, ic, TRUE)
                     ELSE moved2
<1>1. /\ Focus!SetFocusedInputContext(f, g, ic)
           = IF old = ic THEN f ELSE Focus!Post(taken1, event)
      /\ FocusProofs!SetFocusedInputContext(f, g, ic)
           = IF old = ic THEN f ELSE FocusProofs!Post(taken2, event)
  BY DEF Focus!SetFocusedInputContext, FocusProofs!SetFocusedInputContext
<1>2. left1 = left2
  BY SameSetHasFocus
<1> HIDE DEF left1, left2
<1>3. moved1 = moved2
  BY <1>2
<1> HIDE DEF moved1, moved2
<1>4. taken1 = taken2
  BY <1>3, SameSetHasFocus
<1> HIDE DEF taken1, taken2, event
<1> QED BY <1>1, <1>4, SamePost

LEMMA SameTakeFocus ==
  ASSUME NEW f, NEW ic
  PROVE  Focus!TakeFocus(f, ic) = FocusProofs!TakeFocus(f, ic)
<1>1. Focus!SetFocusedInputContext(f, group[ic], ic)
        = FocusProofs!SetFocusedInputContext(f, group[ic], ic)
  BY SameSetFocused
<1> QED BY <1>1, SameSetHasFocus DEF Focus!TakeFocus, FocusProofs!TakeFocus

LEMMA SameDropFocus ==
  ASSUME NEW f, NEW ic
  PROVE  Focus!DropFocus(f, ic) = FocusProofs!DropFocus(f, ic)
<1>1. Focus!SetFocusedInputContext(f, group[ic], None)
        = FocusProofs!SetFocusedInputContext(f, group[ic], None)
  BY SameSetFocused
<1> QED BY <1>1, SameSetHasFocus DEF Focus!DropFocus, FocusProofs!DropFocus

\* So is every call of a context or a group.
LEMMA SameFocusCalls ==
  ASSUME NEW ic, NEW g
  PROVE  /\ Focus!Create(ic) => FocusProofs!Create(ic)
         /\ Focus!FocusIn(ic) => FocusProofs!FocusIn(ic)
         /\ Focus!FocusOut(ic) => FocusProofs!FocusOut(ic)
         /\ Focus!SetFocusGroup(ic, g) => FocusProofs!SetFocusGroup(ic, g)
         /\ Focus!CreateFocusGroup(g) => FocusProofs!CreateFocusGroup(g)
         /\ Focus!DestroyFocusGroup(g) => FocusProofs!DestroyFocusGroup(g)
         /\ Focus!Init => FocusProofs!Init
<1>1. Focus!Now = FocusProofs!Now
  BY DEF Focus!Now, FocusProofs!Now
<1>2. \A f : Focus!Commit(f) <=> FocusProofs!Commit(f)
  BY DEF Focus!Commit, FocusProofs!Commit
<1>3. Focus!Create(ic) => FocusProofs!Create(ic)
  BY DEF Focus!Create, FocusProofs!Create
<1>4. Focus!FocusIn(ic) => FocusProofs!FocusIn(ic)
  BY <1>1, <1>2, SameTakeFocus DEF Focus!FocusIn, FocusProofs!FocusIn
<1>5. Focus!FocusOut(ic) => FocusProofs!FocusOut(ic)
  BY <1>1, <1>2, SameDropFocus DEF Focus!FocusOut, FocusProofs!FocusOut
<1>6. Focus!SetFocusGroup(ic, g) => FocusProofs!SetFocusGroup(ic, g)
  BY <1>1, <1>2, SameDropFocus DEF Focus!SetFocusGroup, FocusProofs!SetFocusGroup
<1>7. Focus!CreateFocusGroup(g) => FocusProofs!CreateFocusGroup(g)
  BY DEF Focus!CreateFocusGroup, FocusProofs!CreateFocusGroup
<1>8. Focus!DestroyFocusGroup(g) => FocusProofs!DestroyFocusGroup(g)
  BY <1>1, <1>2, SameSetFocused
     DEF Focus!DestroyFocusGroup, FocusProofs!DestroyFocusGroup
<1>9. Focus!Init => FocusProofs!Init
  BY DEF Focus!Init, FocusProofs!Init
<1> QED BY <1>3, <1>4, <1>5, <1>6, <1>7, <1>8, <1>9

\* And the destruction of a context.
LEMMA SameDestroy ==
  ASSUME NEW ic, Focus!Destroy(ic)
  PROVE  FocusProofs!Destroy(ic)
<1> DEFINE left1 == IF group[ic] # None /\ focus[group[ic]] = ic
                    THEN Focus!SetFocusedInputContext(Focus!Now, group[ic], None)
                    ELSE Focus!Now
           left2 == IF group[ic] # None /\ focus[group[ic]] = ic
                    THEN FocusProofs!SetFocusedInputContext(FocusProofs!Now,
                                                            group[ic], None)
                    ELSE FocusProofs!Now
           event == <<"InputContextDestroyed", ic>>
           told1 == Focus!Post(left1, event)
           told2 == FocusProofs!Post(left2, event)
           gone1 == [told1 EXCEPT !.has[ic] = FALSE,
                                  !.list = Focus!Unlink(@, ic),
                                  !.recent = IF @ = ic THEN None ELSE @]
           gone2 == [told2 EXCEPT !.has[ic] = FALSE,
                                  !.list = FocusProofs!Unlink(@, ic),
                                  !.recent = IF @ = ic THEN None ELSE @]
           rest == /\ ics' = [g \in FocusGroup |-> ics[g] \ {ic}]
                   /\ group' = [group EXCEPT ![ic] = None]
                   /\ alive' = alive \ {ic}
                   /\ UNCHANGED <<displays, exiting>>
<1>1. ic \in alive /\ Focus!Commit(gone1) /\ rest
  BY DEF Focus!Destroy
<1>2. ic \in alive /\ FocusProofs!Commit(gone2) /\ rest => FocusProofs!Destroy(ic)
  BY DEF FocusProofs!Destroy
<1>3. Focus!Now = FocusProofs!Now
  BY DEF Focus!Now, FocusProofs!Now
<1>4. left1 = left2
  BY <1>3, SameSetFocused
<1> HIDE DEF left1, left2
<1>5. told1 = told2
  BY <1>4, SamePost
<1> HIDE DEF told1, told2
<1>6. Focus!Unlink(told1.list, ic) = FocusProofs!Unlink(told2.list, ic)
  BY <1>5, SameUnlink
<1>7. gone1 = gone2
  BY <1>5, <1>6
<1> HIDE DEF gone1, gone2, rest
<1>8. FocusProofs!Commit(gone2)
  BY <1>1, <1>7 DEF Focus!Commit, FocusProofs!Commit
<1> QED BY <1>1, <1>2, <1>8

\* The focus, as the steps of the instance find it.
FocusOK == FocusProofs!IInv /\ exiting = FALSE

\* What the steps below need to know of the focus.
LEMMA FocusFacts ==
  ASSUME FocusOK
  PROVE  /\ alive \in SUBSET InputContext
         /\ hasFocus \in [InputContext -> BOOLEAN]
         /\ \A c \in InputContext : hasFocus[c] => c \in alive
         /\ Recent \in State \cup {None}
<1>1. /\ alive \in SUBSET InputContext
      /\ hasFocus \in [InputContext -> BOOLEAN]
      /\ focused \in Seq(InputContext)
      /\ recent \in InputContext \cup {None}
      /\ \A c \in InputContext : hasFocus[c] => c \in alive
  BY DEF FocusOK, FocusProofs!IInv, FocusProofs!TypeOK,
         FocusProofs!FocusedListExact
<1>2. Focus!MostRecentInputContext \in InputContext \cup {None}
  <2>1. focused # <<>> => Head(focused) \in InputContext
    BY <1>1
  <2> QED BY <1>1, <2>1 DEF Focus!MostRecentInputContext
<1>3. Recent \in State \cup {None}
  BY <1>2 DEF Recent, State
<1> QED BY <1>1, <1>3

\* It holds at the start, and after whatever the instance does.
LEMMA FocusInit ==
  ASSUME Focus!Init
  PROVE  FocusOK
<1> FALSE \in BOOLEAN
  OBVIOUS
<1>1. FocusProofs!Init
  BY SameFocusCalls
<1>2. FocusProofs!IInv
  BY <1>1, NullAssumption, FocusProofs!InitInvariant
<1>3. exiting = FALSE
  BY DEF Focus!Init
<1> QED BY <1>2, <1>3 DEF FocusOK

LEMMA FocusNext ==
  ASSUME FocusOK, FocusProofs!Next
  PROVE  FocusOK'
<1> FALSE \in BOOLEAN
  OBVIOUS
<1>1. FocusProofs!IInv'
  BY NullAssumption, FocusProofs!NextInvariant DEF FocusOK
<1>2. exiting' = FALSE
  BY NullAssumption, FocusProofs!KeepsRunning DEF FocusOK
<1> QED BY <1>1, <1>2 DEF FocusOK

LEMMA FocusOthers ==
  ASSUME FocusOK,
         UNCHANGED <<alive, displays, group, ics, focus, hasFocus, focused,
                     recent, exiting>>
  PROVE  FocusOK'
<1> FALSE \in BOOLEAN
  OBVIOUS
<1>1. FocusProofs!IInv'
  BY NullAssumption, FocusProofs!OthersInvariant DEF FocusOK
<1> QED BY <1>1 DEF FocusOK

\* The events of a call name whom it takes the focus from and gives it to.
LEMMA TellsFacts ==
  ASSUME NEW old, NEW new, NEW events, FocusProofs!Announces(events, old, new),
         old \in InputContext \cup {None}, new \in InputContext \cup {None}
  PROVE  Tells(events, old, new)
<1>1. \A c \in InputContext :
        /\ c = old <=> \E i \in DOMAIN events : events[i] = <<"FocusOut", c>>
        /\ c = new <=> \E i \in DOMAIN events : events[i] = <<"FocusIn", c>>
  BY DEF FocusProofs!Announces, FocusProofs!Out, FocusProofs!Into
<1>2. \A c \in InputContext :
        /\ <<"FocusOut", c>> \in ToSet(events)
             <=> \E i \in DOMAIN events : events[i] = <<"FocusOut", c>>
        /\ <<"FocusIn", c>> \in ToSet(events)
             <=> \E i \in DOMAIN events : events[i] = <<"FocusIn", c>>
  BY DEF ToSet
<1>3. Lost(events) = {old} \ {None}
  BY <1>1, <1>2, NullAssumption DEF Lost
<1>4. Gained(events) = {new} \ {None}
  BY <1>1, <1>2, NullAssumption DEF Gained
<1> QED BY <1>3, <1>4 DEF Tells

\* A step that moves the focus is a step of FocusGroups.
LEMMA FocusMovesNext ==
  ASSUME FocusMoves
  PROVE  /\ FocusProofs!Next
         /\ alive' = alive /\ UNCHANGED configVars
         /\ Commit(Handled([Now EXCEPT !.has = hasFocus'], posted'))
<1>1. FocusProofs!Next /\ alive' = alive
  <2>1. ASSUME NEW ic \in InputContext, Focus!FocusIn(ic)
        PROVE  FocusProofs!Next /\ alive' = alive
    <3>1. FocusProofs!FocusIn(ic)
      BY <2>1, SameFocusCalls
    <3> QED BY <3>1 DEF FocusProofs!Next, FocusProofs!FocusIn
  <2>2. ASSUME NEW ic \in InputContext, Focus!FocusOut(ic)
        PROVE  FocusProofs!Next /\ alive' = alive
    <3>1. FocusProofs!FocusOut(ic)
      BY <2>2, SameFocusCalls
    <3> QED BY <3>1 DEF FocusProofs!Next, FocusProofs!FocusOut
  <2>3. ASSUME NEW ic \in InputContext, NEW g \in FocusGroup \cup {None},
               Focus!SetFocusGroup(ic, g)
        PROVE  FocusProofs!Next /\ alive' = alive
    <3>1. FocusProofs!SetFocusGroup(ic, g)
      BY <2>3, SameFocusCalls
    <3> QED BY <3>1 DEF FocusProofs!Next, FocusProofs!SetFocusGroup
  <2>4. ASSUME NEW g \in FocusGroup, Focus!CreateFocusGroup(g)
        PROVE  FocusProofs!Next /\ alive' = alive
    <3>1. FocusProofs!CreateFocusGroup(g)
      BY <2>4, SameFocusCalls
    <3> QED BY <3>1 DEF FocusProofs!Next, FocusProofs!CreateFocusGroup
  <2>5. ASSUME NEW g \in FocusGroup, Focus!DestroyFocusGroup(g)
        PROVE  FocusProofs!Next /\ alive' = alive
    <3>1. FocusProofs!DestroyFocusGroup(g)
      BY <2>5, SameFocusCalls
    <3> QED BY <3>1 DEF FocusProofs!Next, FocusProofs!DestroyFocusGroup
  <2> QED BY <2>1, <2>2, <2>3, <2>4, <2>5 DEF FocusMoves
<1> QED BY <1>1 DEF FocusMoves

\* The engine of who loses the focus is closed, that of who gains it opened.
LEMMA FocusMovesStep ==
  ASSUME FocusOK, Typed(Now), FocusMoves
  PROVE  FocusOK' /\ Preserves
<1>1. /\ FocusProofs!Next
      /\ alive' = alive /\ UNCHANGED configVars
      /\ Commit(Handled([Now EXCEPT !.has = hasFocus'], posted'))
  BY FocusMovesNext
<1>2. FocusOK'
  BY <1>1, FocusNext
<1>3. alive \in SUBSET InputContext
      /\ \A c \in InputContext : hasFocus[c] => c \in alive
  BY FocusFacts
<1>4. hasFocus' \in [InputContext -> BOOLEAN]
      /\ \A c \in InputContext : hasFocus'[c] => c \in alive'
  BY <1>2 DEF FocusOK, FocusProofs!IInv, FocusProofs!TypeOK,
              FocusProofs!FocusedListExact
<1>5. PICK old \in InputContext \cup {None}, new \in alive \cup {None} :
        FocusProofs!Moves(old, new)
  <2>1. FocusProofs!IInv /\ ~exiting
    BY DEF FocusOK
  <2> FALSE \in BOOLEAN
    OBVIOUS
  <2> QED BY <1>1, <2>1, NullAssumption, FocusProofs!NextMoves
<1>6. /\ FocusProofs!Announces(posted', old, new)
      /\ old # None => hasFocus[old]
      /\ new # None => ~hasFocus[new]
      /\ \A c \in InputContext :
           \/ hasFocus'[c] <=> c = new \/ (c # old /\ hasFocus[c])
           \/ c \notin alive' /\ ~hasFocus'[c]
  BY <1>5 DEF FocusProofs!Moves
<1>7. Tells(posted', old, new)
  BY <1>3, <1>5, <1>6, TellsFacts
<1>8. Now.has = hasFocus /\ Now.allow = allowPassword
  BY DEF Now
<1>9. MovedTo(Now, hasFocus', old, new, {})
  <2>1. \A c \in InputContext :
          hasFocus'[c] <=> c = new \/ (c # old /\ hasFocus[c])
    BY <1>1, <1>3, <1>5, <1>6, NullAssumption
  <2>2. new # None => hasFocus'[new]
    BY <1>3, <1>5, <2>1
  <2> QED BY <1>4, <1>5, <1>6, <1>8, <2>1, <2>2 DEF MovedTo
<1> DEFINE r == Handled([Now EXCEPT !.has = hasFocus'], posted')
<1>10. /\ Typed(r) /\ r.allow = Now.allow /\ r.has = hasFocus'
       /\ Settled(Now, {}) => Settled(r, {})
       /\ Agree(Now) => Agree(r)
  BY <1>3, <1>7, <1>9, HandledFacts
<1>11. Commit(r)
  BY <1>1
<1> HIDE DEF r
<1>12. allowPassword' = allowPassword
  BY <1>1 DEF configVars
<1>13. Preserves
  BY <1>1, <1>8, <1>10, <1>11, <1>12, CommitPreserves
<1> QED BY <1>2, <1>13

\* A new context has no focus, so nothing is activated for it.
LEMMA NewContextStep ==
  ASSUME FocusOK, Typed(Now), NEW ic \in InputContext, Create(ic)
  PROVE  FocusOK' /\ Preserves
<1>1. /\ Focus!Create(ic) /\ FocusProofs!Create(ic)
      /\ \/ /\ Siblings(ic) = {}
            /\ active' = [active EXCEPT ![ic] = ActiveByDefault]
            /\ localIM' = [localIM EXCEPT ![ic] = None]
         \/ \E from \in Siblings(ic) :
              /\ active' = [active EXCEPT ![ic] = active[from]]
              /\ localIM' = [localIM EXCEPT ![ic] = localIM[from]]
      /\ capability' = [capability EXCEPT ![ic] = "Normal"]
      /\ UNCHANGED <<lastIM, opened, byAlt, groups, configVars>>
  BY SameFocusCalls DEF Create
<1>2. FocusOK'
  BY <1>1, FocusNext DEF FocusProofs!Next
<1>3. /\ ic \notin alive /\ alive' = alive \cup {ic} /\ hasFocus' = hasFocus
      /\ alive \in SUBSET InputContext /\ ic \in State
      /\ \A c \in InputContext : hasFocus[c] => c \in alive
  BY <1>1, FocusFacts DEF FocusProofs!Create, State
<1>4. /\ lastIM' = lastIM /\ opened' = opened /\ byAlt' = byAlt
      /\ groups' = groups /\ share' = share /\ allowPassword' = allowPassword
  BY <1>1 DEF configVars
<1>5. Siblings(ic) \subseteq State
  BY <1>3 DEF Siblings, State
<1>6. /\ active \in [State -> BOOLEAN]
      /\ localIM \in [State -> InputMethod \cup {None}]
      /\ capability \in [State -> {"Normal", "Password", "Disable"}]
  BY DEF Typed, Now
<1>7. PICK on \in BOOLEAN, im \in InputMethod \cup {None} :
        /\ active' = [active EXCEPT ![ic] = on]
        /\ localIM' = [localIM EXCEPT ![ic] = im]
        /\ Siblings(ic) # {} => \E from \in Siblings(ic) :
                                  on = active[from] /\ im = localIM[from]
  <2>1. CASE Siblings(ic) = {}
    BY <1>1, <2>1, OptionsAssumption
  <2>2. CASE Siblings(ic) # {}
    <3>1. PICK from \in Siblings(ic) :
            /\ active' = [active EXCEPT ![ic] = active[from]]
            /\ localIM' = [localIM EXCEPT ![ic] = localIM[from]]
      BY <1>1, <2>2
    <3>2. active[from] \in BOOLEAN /\ localIM[from] \in InputMethod \cup {None}
      BY <1>5, <1>6
    <3> QED BY <3>1, <3>2
  <2> QED BY <2>1, <2>2
<1>8. /\ active'[ic] = on /\ localIM'[ic] = im
      /\ \A c \in State \ {ic} : active'[c] = active[c] /\ localIM'[c] = localIM[c]
                                 /\ capability'[c] = capability[c]
  BY <1>1, <1>3, <1>6, <1>7
<1>9. Typed(Now)'
  <2>1. /\ active' \in [State -> BOOLEAN]
        /\ localIM' \in [State -> InputMethod \cup {None}]
        /\ capability' \in [State -> {"Normal", "Password", "Disable"}]
    BY <1>1, <1>6, <1>7
  <2> QED BY <1>3, <1>4, <2>1 DEF Typed, Rec, Now
<1>10. Settled(Now, {}) => Settled(Now, {})'
  <2>1. ~hasFocus[ic]
    BY <1>3
  <2>2. \A c \in State : Uses(Now, c)' = Uses(Now, c)
    <3> SUFFICES ASSUME NEW c \in State PROVE Uses(Now, c)' = Uses(Now, c)
      OBVIOUS
    <3>1. CASE c = ic
      BY <1>3, <2>1, <3>1 DEF Uses, Focused, Now
    <3>2. CASE c # ic
      BY <1>3, <1>4, <1>8, <3>2
         DEF Uses, Focused, Now, InputMethodOf, InputMethodDisabled, List
    <3> QED BY <3>1, <3>2
  <2> QED BY <1>4, <2>2 DEF Settled, Runs, Now
<1>11. Agree(Now) => Agree(Now)'
  <2> SUFFICES ASSUME Agree(Now), NEW a \in alive', NEW c \in State,
                      c \in Sharing(a)'
               PROVE  active'[c] = active'[a] /\ localIM'[c] = localIM'[a]
    BY DEF Agree, Now
  <2>1. \A x \in alive, y \in State : y \in Sharing(x)
          => active[y] = active[x] /\ localIM[y] = localIM[x]
    BY DEF Agree, Now
  <2>2. a \in State /\ Dummy \in State /\ Dummy # ic /\ Dummy \notin alive
    BY <1>3, DummyAssumption DEF State
  <2>3. CASE share = "All"
    <3>1. on = active[Dummy] /\ im = localIM[Dummy]
      BY <1>7, <2>3 DEF Siblings
    <3>2. \A x \in alive : active[Dummy] = active[x] /\ localIM[Dummy] = localIM[x]
      BY <2>1, <2>2, <2>3 DEF Sharing
    <3>3. \A x \in alive' \cup {Dummy} : active'[x] = on /\ localIM'[x] = im
      BY <1>3, <1>8, <2>2, <3>1, <3>2 DEF State
    <3>4. c \in alive' \cup {Dummy}
      BY <1>4, <2>3 DEF Sharing
    <3> QED BY <3>3, <3>4
  <2>4. CASE share = "Program"
    <3>1. c \in alive' /\ Program[a] # None /\ Program[c] = Program[a]
      BY <1>4, <2>4 DEF Sharing
    <3>2. \A x, y \in alive : Program[x] # None /\ Program[y] = Program[x]
            => active[y] = active[x] /\ localIM[y] = localIM[x]
      BY <1>3, <2>1, <2>4 DEF Sharing, State
    <3>3. \A y \in alive : Program[ic] # None /\ Program[y] = Program[ic]
            => active[y] = on /\ localIM[y] = im
      <4> SUFFICES ASSUME NEW y \in alive, Program[ic] # None,
                          Program[y] = Program[ic]
                   PROVE  active[y] = on /\ localIM[y] = im
        OBVIOUS
      <4>1. Siblings(ic) = {x \in alive \ {ic} : Program[x] = Program[ic]}
        BY <2>4 DEF Siblings
      <4>2. Siblings(ic) # {}
        BY <1>3, <4>1
      <4>3. PICK from \in Siblings(ic) : on = active[from] /\ im = localIM[from]
        BY <1>7, <4>2
      <4>4. from \in alive /\ Program[from] = Program[ic]
        BY <4>1
      <4> QED BY <3>2, <4>3, <4>4
    <3>4. \A x \in alive : x \in State \ {ic}
      BY <1>3 DEF State
    <3> QED BY <1>3, <1>8, <3>1, <3>2, <3>3, <3>4
  <2>5. CASE share \notin {"All", "Program"}
    BY <1>4, <2>5 DEF Sharing
  <2> QED BY <2>3, <2>4, <2>5
<1>12. Preserves
  BY <1>9, <1>10, <1>11 DEF Preserves
<1> QED BY <1>2, <1>12

\* What was known of a context goes with it.
Gone(s, ic) ==
  [s EXCEPT !.active[ic] = ActiveByDefault, !.localIM[ic] = None,
            !.lastIM[ic] = None, !.opened[ic] = {}, !.byAlt[ic] = FALSE,
            !.capability[ic] = "Normal"]

\* A context without focus can be forgotten.
LEMMA GoneFacts ==
  ASSUME NEW s, Typed(s), NEW ic \in InputContext, ~s.has[ic]
  PROVE  LET r == Gone(s, ic)
         IN  /\ Typed(r) /\ r.allow = s.allow /\ r.has = s.has
             /\ \A c \in State \ {ic} : /\ r.active[c] = s.active[c]
                                        /\ r.localIM[c] = s.localIM[c]
             /\ Settled(s, {ic}) => Settled(r, {})
<1> DEFINE A == [s.active EXCEPT ![ic] = ActiveByDefault]
           L == [s.localIM EXCEPT ![ic] = None]
           E == [s.lastIM EXCEPT ![ic] = None]
           O == [s.opened EXCEPT ![ic] = {}]
           B == [s.byAlt EXCEPT ![ic] = FALSE]
           C == [s.capability EXCEPT ![ic] = "Normal"]
           r == Gone(s, ic)
<1>1. r = [Rec(s) EXCEPT !.active = A, !.localIM = L, !.lastIM = E, !.opened = O,
                         !.byAlt = B, !.capability = C]
  BY DEF Typed, Rec, Gone
<1>2. ic \in State
  BY DEF State
<1>3. /\ A \in [State -> BOOLEAN] /\ L \in [State -> InputMethod \cup {None}]
      /\ E \in [State -> InputMethod \cup {None}]
      /\ O \in [State -> SUBSET InputMethod] /\ B \in [State -> BOOLEAN]
      /\ C \in [State -> {"Normal", "Password", "Disable"}]
  BY OptionsAssumption DEF Typed
<1>4. /\ \A c \in State \ {ic} : A[c] = s.active[c] /\ L[c] = s.localIM[c]
                                 /\ E[c] = s.lastIM[c] /\ O[c] = s.opened[c]
                                 /\ C[c] = s.capability[c]
      /\ E[ic] = None /\ O[ic] = {}
  BY <1>2 DEF Typed
<1> HIDE DEF A, L, E, O, B, C, r
<1>5. /\ r = Rec(r) /\ r.active = A /\ r.localIM = L /\ r.lastIM = E
      /\ r.opened = O /\ r.byAlt = B /\ r.capability = C
      /\ r.groups = s.groups /\ r.has = s.has /\ r.allow = s.allow
  BY <1>1 DEF Rec
<1>6. Typed(r)
  BY <1>3, <1>5 DEF Typed
<1>7. ASSUME Settled(s, {ic}), NEW c \in State
      PROVE  Runs(r, c, Uses(r, c))
  <2>1. c \in Focused(r) <=> c \in Focused(s)
    BY <1>5 DEF Focused
  <2>2. CASE c = ic
    BY <1>4, <1>5, <2>1, <2>2 DEF Runs, Uses, Focused
  <2>3. CASE c # ic
    <3>1. Runs(s, c, Uses(s, c))
      BY <1>7, <2>3 DEF Settled
    <3>2. InputMethodOf(r, c) = InputMethodOf(s, c)
      BY <1>4, <1>5, <2>3, SameInputMethod
    <3> QED BY <1>4, <1>5, <2>1, <2>3, <3>1, <3>2 DEF Runs, Uses
  <2> QED BY <2>2, <2>3
<1>8. Settled(s, {ic}) => Settled(r, {})
  BY <1>7 DEF Settled
<1> QED BY <1>4, <1>5, <1>6, <1>8 DEF r

\* A context that is destroyed takes its engines with it.
LEMMA DestroyStep ==
  ASSUME FocusOK, Typed(Now), NEW ic \in InputContext, Destroy(ic)
  PROVE  FocusOK' /\ Preserves
<1> USE NullAssumption
<1> DEFINE q == [Now EXCEPT !.has = hasFocus']
           left == Handled(q, posted')
           r == Gone(left, ic)
<1>1. Focus!Destroy(ic) /\ Commit(r) /\ UNCHANGED configVars
  BY DEF Destroy, Gone
<1>2. FocusProofs!Destroy(ic)
  BY <1>1, SameDestroy
<1>3. FocusOK'
  BY <1>2, FocusNext DEF FocusProofs!Next
<1>4. /\ alive \in SUBSET InputContext /\ ic \in alive /\ alive' = alive \ {ic}
      /\ \A c \in InputContext : hasFocus[c] => c \in alive
  BY <1>2, FocusFacts DEF FocusProofs!Destroy
<1>5. hasFocus' \in [InputContext -> BOOLEAN]
      /\ \A c \in InputContext : hasFocus'[c] => c \in alive'
  BY <1>3 DEF FocusOK, FocusProofs!IInv, FocusProofs!TypeOK,
              FocusProofs!FocusedListExact
<1>6. PICK old \in {ic, None} : FocusProofs!Moves(old, None)
  <2>1. FocusProofs!IInv /\ ~exiting
    BY DEF FocusOK
  <2>2. FALSE \in BOOLEAN
    OBVIOUS
  <2> QED BY <1>2, <2>1, <2>2, FocusProofs!DestroyMoves
<1>7. /\ FocusProofs!Announces(posted', old, None)
      /\ old # None => hasFocus[old]
      /\ \A c \in InputContext :
           \/ hasFocus'[c] <=> c = None \/ (c # old /\ hasFocus[c])
           \/ c \notin alive' /\ ~hasFocus'[c]
  BY <1>6 DEF FocusProofs!Moves
<1>8. Tells(posted', old, None)
  BY <1>6, <1>7, TellsFacts
<1>9. Now.has = hasFocus /\ Now.allow = allowPassword
      /\ Now.active = active /\ Now.localIM = localIM
  BY DEF Now
<1>10. MovedTo(Now, hasFocus', old, None, {ic})
  <2>1. \A c \in InputContext \ {ic} :
          hasFocus'[c] <=> c = None \/ (c # old /\ hasFocus[c])
    BY <1>4, <1>6, <1>7
  <2>2. \A c \in {ic} \cap InputContext : ~hasFocus'[c]
    BY <1>4, <1>5
  <2> QED BY <1>5, <1>6, <1>7, <1>9, <2>1, <2>2 DEF MovedTo
<1>11. HasLeft(Now, FocusLeft(Now, hasFocus', old), hasFocus', None, {ic})
  BY <1>4, <1>6, <1>10, LeftFacts
<1>12. left = FocusLeft(Now, hasFocus', old)
  <2>1. Gained(posted') = {} /\ Lost(posted') = {old} \ {None}
    BY <1>8 DEF Tells
  <2> QED BY <2>1 DEF Handled, FocusLeft
<1> HIDE DEF left
<1>13. /\ Typed(left) /\ left.active = active /\ left.localIM = localIM
       /\ left.allow = allowPassword /\ left.has = hasFocus'
       /\ Settled(Now, {}) => Settled(left, {ic})
  <2>1. {ic} \cup ({None} \ {None}) = {ic}
    OBVIOUS
  <2> QED BY <1>9, <1>11, <1>12, <2>1 DEF HasLeft
<1>14. /\ Typed(r) /\ r.allow = left.allow /\ r.has = left.has
       /\ \A c \in State \ {ic} : /\ r.active[c] = left.active[c]
                                  /\ r.localIM[c] = left.localIM[c]
       /\ Settled(left, {ic}) => Settled(r, {})
  <2>1. ~left.has[ic]
    BY <1>4, <1>5, <1>13
  <2> QED BY <1>13, <2>1, GoneFacts
<1> HIDE DEF r
<1>15. allowPassword' = allowPassword /\ share' = share
  BY <1>1 DEF configVars
<1>16. Now' = r
  BY <1>1, <1>13, <1>14, <1>15, CommitIs
<1>17. Typed(Now)'
  BY <1>14, <1>16 DEF Typed, Rec
<1>18. Settled(r, {}) => Settled(Now, {})'
  BY <1>16 DEF Settled, Runs, Uses, InputMethodOf, InputMethodDisabled, List,
               Focused
<1>19. Agree(Now) => Agree(Now)'
  <2> SUFFICES ASSUME Agree(Now), NEW a \in alive', NEW c \in State,
                      c \in Sharing(a)'
               PROVE  active'[c] = active'[a] /\ localIM'[c] = localIM'[a]
    BY DEF Agree, Now
  <2>1. a \in alive /\ a # ic /\ a \in State
    BY <1>4 DEF State
  <2>2. c \in Sharing(a) /\ c # ic
    BY <1>4, <1>15, DummyAssumption DEF Sharing
  <2>3. active[c] = active[a] /\ localIM[c] = localIM[a]
    BY <1>9, <2>1, <2>2 DEF Agree
  <2>4. active' = r.active /\ localIM' = r.localIM
    BY <1>1 DEF Commit
  <2> QED BY <1>13, <1>14, <2>1, <2>2, <2>3, <2>4
<1>20. Preserves
  BY <1>13, <1>14, <1>17, <1>18, <1>19 DEF Preserves
<1> QED BY <1>3, <1>20

-----------------------------------------------------------------------------
(* All steps, and the theorems. *)

IInv == FocusOK /\ Typed(Now)

\* No context is there yet.
LEMMA InitHolds ==
  ASSUME Init
  PROVE  IInv /\ Settled(Now, {})
<1>1. FocusOK
  BY FocusInit DEF Init
<1>2. hasFocus = [ic \in InputContext |-> FALSE]
  BY DEF Init, Focus!Init
<1>3. allowPassword \in BOOLEAN
  BY OptionsAssumption DEF Init
<1>4. Typed(Now)
  BY <1>2, <1>3, OptionsAssumption, GroupsAssumption DEF Init, Typed, Rec, Now
<1>5. \A c : c \notin Focused(Now)
  BY <1>2 DEF Focused, Now
<1>6. Settled(Now, {})
  BY <1>5 DEF Init, Settled, Runs, Uses, Now
<1> QED BY <1>1, <1>4, <1>6 DEF IInv

\* Most operations leave the focus alone.
LEMMA UnfocusedStep ==
  ASSUME FocusOK, Unfocused
  PROVE  FocusOK'
BY FocusOthers DEF Unfocused

\* Every step of Next.
LEMMA StepHolds ==
  ASSUME IInv, [Next]_vars
  PROVE  IInv' /\ Preserves
<1> SUFFICES FocusOK' /\ Preserves
  BY DEF IInv, Preserves
<1>1. /\ FocusOK /\ Typed(Now)
      /\ alive \in SUBSET InputContext /\ Recent \in State \cup {None}
  BY FocusFacts DEF IInv
<1>2. CASE FocusMoves
  BY <1>1, <1>2, FocusMovesStep
<1>3. CASE ToggleRecent
  <2>1. Unfocused
    BY <1>3 DEF ToggleRecent, OnRecent
  <2> QED BY <1>1, <1>3, <2>1, UnfocusedStep, ToggleStep
<1>4. CASE ReloadConfig
  <2>1. Unfocused
    BY <1>4 DEF ReloadConfig
  <2> QED BY <1>1, <1>4, <2>1, UnfocusedStep, ReloadStep
<1>5. ASSUME NEW ic \in InputContext, Create(ic)
      PROVE  FocusOK' /\ Preserves
  BY <1>1, <1>5, NewContextStep
<1>6. ASSUME NEW ic \in InputContext, Destroy(ic)
      PROVE  FocusOK' /\ Preserves
  BY <1>1, <1>6, DestroyStep
<1>7. ASSUME NEW ic \in InputContext,
             NEW flags \in {"Normal", "Password", "Disable"},
             SetCapabilityFlags(ic, flags)
      PROVE  FocusOK' /\ Preserves
  <2>1. Unfocused
    BY <1>7 DEF SetCapabilityFlags
  <2> QED BY <1>1, <1>7, <2>1, UnfocusedStep, CapabilityStep
<1>8. ASSUME NEW ic \in InputContext, NEW im \in InputMethod,
             NEW local \in BOOLEAN, SelectInputMethod(ic, im, local)
      PROVE  FocusOK' /\ Preserves
  <2>1. Unfocused
    BY <1>8 DEF SelectInputMethod
  <2> QED BY <1>1, <1>8, <2>1, UnfocusedStep, SelectStep
<1>9. ASSUME NEW im \in InputMethod, ChooseInputMethod(im)
      PROVE  FocusOK' /\ Preserves
  <2>1. Unfocused
    BY <1>9 DEF ChooseInputMethod
  <2> QED BY <1>1, <1>9, <2>1, UnfocusedStep, ChooseStep
<1>10. ASSUME NEW on \in BOOLEAN, SetRecentEnabled(on)
       PROVE  FocusOK' /\ Preserves
  <2>1. Unfocused
    BY <1>10 DEF SetRecentEnabled, OnRecent
  <2> QED BY <1>1, <1>10, <2>1, UnfocusedStep, SetRecentEnabledStep
<1>11. ASSUME NEW forward \in BOOLEAN, EnumerateRecent(forward)
       PROVE  FocusOK' /\ Preserves
  <2>1. Unfocused
    BY <1>11 DEF EnumerateRecent, OnRecent
  <2> QED BY <1>1, <1>11, <2>1, UnfocusedStep, EnumerateStep
<1>12. ASSUME NEW i, SetCurrentGroup(i)
       PROVE  FocusOK' /\ Preserves
  <2>1. Unfocused
    BY <1>12 DEF SetCurrentGroup
  <2> QED BY <1>1, <1>12, <2>1, UnfocusedStep, SetCurrentGroupStep
<1>13. ASSUME NEW i, RemoveGroup(i)
       PROVE  FocusOK' /\ Preserves
  <2>1. Unfocused
    BY <1>13 DEF RemoveGroup
  <2> QED BY <1>1, <1>13, <2>1, UnfocusedStep, RemoveGroupStep
<1>14. ASSUME NEW i, NEW list \in Lists, SetGroup(i, list)
       PROVE  FocusOK' /\ Preserves
  <2>1. Unfocused
    BY <1>14 DEF SetGroup
  <2> QED BY <1>1, <1>14, <2>1, UnfocusedStep, SetGroupStep
<1>15. CASE UNCHANGED vars
  <2>1. UNCHANGED <<focusVars, stateVars, configVars, groups, capability>>
    BY <1>15 DEF vars
  <2>2. FocusOK'
    BY <1>1, <2>1, FocusOthers DEF focusVars
  <2>3. Now' = Now /\ alive' = alive
    BY <2>1 DEF Now, focusVars, stateVars, configVars
  <2>4. Typed(Now)'
    BY <1>1, <2>3 DEF Typed, Rec
  <2>5. Settled(Now, {}) => Settled(Now, {})'
    BY <2>3 DEF Settled, Runs, Uses, InputMethodOf, InputMethodDisabled, List,
                Focused
  <2>6. share' = share /\ Agree(Now) => Agree(Now)'
    BY <2>3 DEF Agree, Sharing
  <2> QED BY <2>2, <2>4, <2>5, <2>6 DEF Preserves
<1>16. Next => FocusOK' /\ Preserves
  BY <1>2, <1>3, <1>4, <1>5, <1>6, <1>7, <1>8, <1>9, <1>10, <1>11, <1>12,
     <1>13, <1>14 DEF Next
<1> QED BY <1>15, <1>16

\* The focus and the types hold whatever is configured.
LEMMA InvariantHolds == Spec => []IInv
<1>1. Init => IInv
  BY InitHolds
<1>2. IInv /\ [Next]_vars => IInv'
  BY StepHolds
<1> QED BY <1>1, <1>2, PTL DEF Spec

\* The option AllowInputMethodForPassword does not change while fcitx runs.
PasswordOptionStays == [][allowPassword' = allowPassword]_vars

\* The engines are right too, while the option stays.
LEMMA SettledHolds == Spec /\ PasswordOptionStays => [](IInv /\ Settled(Now, {}))
<1>1. Init => IInv /\ Settled(Now, {})
  BY InitHolds
<1>2. /\ IInv /\ Settled(Now, {})
      /\ [Next]_vars /\ [allowPassword' = allowPassword]_vars
      => (IInv /\ Settled(Now, {}))'
  <2> SUFFICES ASSUME IInv, Settled(Now, {}), [Next]_vars,
                      [allowPassword' = allowPassword]_vars
               PROVE  IInv' /\ Settled(Now, {})'
    OBVIOUS
  <2>1. IInv' /\ Preserves
    BY StepHolds
  <2>2. allowPassword' = allowPassword
    BY DEF vars, configVars
  <2> QED BY <2>1, <2>2 DEF Preserves
<1> QED BY <1>1, <1>2, PTL DEF Spec, PasswordOptionStays

\* What that says of a context that exists.
LEMMA SettledMeans ==
  ASSUME IInv, Settled(Now, {})
  PROVE  EnginesFollow /\ PasswordsStayWithKeyboard
<1> SUFFICES ASSUME NEW ic \in alive
             PROVE  /\ LET im == IF hasFocus[ic] THEN InputMethodOf(Now, ic)
                                 ELSE None
                       IN  lastIM[ic] = im /\ opened[ic] = {im} \ {None}
                    /\ InputMethodDisabled(Now, ic)
                         => opened[ic] \subseteq {groups[1].layout, KeyboardUs}
  BY DEF EnginesFollow, PasswordsStayWithKeyboard
<1>1. ic \in InputContext /\ ic \in State /\ Typed(Now)
  BY FocusFacts DEF IInv, State
<1>2. Now.has = hasFocus /\ Now.lastIM = lastIM /\ Now.opened = opened
      /\ Now.groups = groups
  BY DEF Now
<1>3. ic \in Focused(Now) <=> hasFocus[ic]
  BY <1>1, <1>2 DEF Focused
<1>4. /\ lastIM[ic] = Uses(Now, ic) /\ opened[ic] = {Uses(Now, ic)} \ {None}
  BY <1>1, <1>2 DEF Settled, Runs
<1>5. Uses(Now, ic) = IF hasFocus[ic] THEN InputMethodOf(Now, ic) ELSE None
  BY <1>3 DEF Uses
<1>6. InputMethodDisabled(Now, ic)
        => InputMethodOf(Now, ic) \in {groups[1].layout, KeyboardUs} \ {None}
  BY <1>1, <1>2, InputMethodTyped
<1> QED BY <1>4, <1>5, <1>6

\* Whatever the focus, the groups, the capabilities and the shared state do, the
\* engine of what a focused context uses is activated for it and no other is
\* left open (deactivateInputMethod's and activateInputMethod's assertions),
\* unless AllowInputMethodForPassword changes, whose reload checks no context.
THEOREM EnginesAreThoseInUse == Spec /\ PasswordOptionStays => []EnginesFollow
<1>1. IInv /\ Settled(Now, {}) => EnginesFollow
  BY SettledMeans
<1> QED BY <1>1, SettledHolds, PTL

\* In a password field and in a disabled context only the keyboard's engine is
\* open, under the same condition.
THEOREM PasswordsReachKeyboardOnly ==
  Spec /\ PasswordOptionStays => []PasswordsStayWithKeyboard
<1>1. IInv /\ Settled(Now, {}) => PasswordsStayWithKeyboard
  BY SettledMeans
<1> QED BY <1>1, SettledHolds, PTL

\* The first input method is not the one it is toggled with.
LEMMA ToggleChanges ==
  ASSUME IInv
  PROVE  ToggleHasEffect
<1> DEFINE list == groups[1].list
           r == Toggle(Now, Recent)
           w == Watching(Recent, r)
<1> SUFFICES ASSUME Recent # None, Len(list) > 1,
                    ~InputMethodDisabled(Now, Recent),
                    \A i \in 2..Len(list) : list[i] # list[1],
                    localIM[Recent] # list[1]
             PROVE  InputMethodOf(w, Recent) # InputMethodOf(Now, Recent)
  BY DEF ToggleHasEffect
<1>1. Typed(Now) /\ Recent \in State /\ alive \in SUBSET InputContext
  BY FocusFacts DEF IInv
<1>2. /\ List(Now) = list /\ Now.localIM = localIM /\ Now.groups = groups
  BY DEF List, Now
<1>3. /\ list \in Seq(InputMethod)
      /\ groups[1].default = Normalized(list, groups[1].default)
  BY <1>1, <1>2, FirstGroup
<1>4. /\ Careful(Now, r, {Recent})
      /\ r.groups = groups /\ r.localIM[Recent] = localIM[Recent]
      /\ r.active[Recent] = ~Now.active[Recent]
  <2>1. CanTrigger(Now)
    BY <1>2 DEF CanTrigger
  <2> QED BY <1>1, <1>2, <2>1, ToggleFacts
<1> HIDE DEF r
<1>5. SameChoice(r, w)
  BY <1>1, <1>4, WatchingFacts
<1>6. InputMethodOf(w, Recent) = InputMethodOf(r, Recent)
  BY <1>5, SameInputMethod DEF SameChoice
<1> HIDE DEF w
<1>7. ~InputMethodDisabled(r, Recent) /\ List(r) = list
  BY <1>2, <1>4 DEF Careful, InputMethodDisabled, List
<1>8. list # <<>> /\ Head(list) = list[1]
  BY <1>3
<1>9. groups[1].default # list[1]
  BY <1>3, NormalizedFacts
<1> DEFINE mine == IF localIM[Recent] \in ToSet(list) THEN localIM[Recent]
                   ELSE groups[1].default
<1>10. mine # list[1]
  BY <1>9
<1>11. InputMethodOf(Now, Recent) = IF ~Now.active[Recent] THEN list[1] ELSE mine
  BY <1>2, <1>8 DEF InputMethodOf
<1>12. InputMethodOf(r, Recent) = IF ~r.active[Recent] THEN list[1] ELSE mine
  BY <1>2, <1>4, <1>7, <1>8 DEF InputMethodOf
<1> HIDE DEF mine, list
<1> QED BY <1>4, <1>6, <1>10, <1>11, <1>12

\* Instance::toggle changes the input method of the most recent context, in a
\* group of different input methods: a default is never a group's first one.
THEOREM TogglingHasEffect == Spec => []ToggleHasEffect
<1>1. IInv => ToggleHasEffect
  BY ToggleChanges
<1> QED BY <1>1, InvariantHolds, PTL

\* Careful calls keep what decides on the input method of a context.
LEMMA ChoiceCounts ==
  ASSUME IInv
  PROVE  ChoiceIsUsed
<1> SUFFICES ASSUME NEW ic \in alive, NEW im \in ToSet(groups[1].list),
                    NEW local \in BOOLEAN,
                    CanTrigger(Now), ~InputMethodDisabled(Now, ic)
             PROVE  InputMethodOf(Watching(ic, SetCurrentInputMethod(Now, ic, im,
                                                                     local)),
                                  ic) = im
  BY DEF ChoiceIsUsed
<1> DEFINE r == SetCurrentInputMethod(Now, ic, im, local)
<1>1. /\ Typed(Now) /\ alive \in SUBSET InputContext
      /\ ic \in State /\ ic # None
  BY FocusFacts, NullAssumption DEF IInv, State
<1>2. List(Now) = groups[1].list /\ List(Now) \in Seq(InputMethod)
  BY <1>1, FirstGroup DEF List, Now
<1>3. im \in InputMethod /\ im \in ToSet(List(Now))
  BY <1>2 DEF ToSet
<1>4. Careful(Now, r, {ic}) /\ InputMethodOf(r, ic) = im
  BY <1>1, <1>3, SetCurrentFacts
<1> HIDE DEF r
<1>5. SameChoice(r, Watching(ic, r))
  BY <1>1, <1>4, WatchingFacts
<1>6. InputMethodOf(Watching(ic, r), ic) = InputMethodOf(r, ic)
  BY <1>5, SameInputMethod DEF SameChoice
<1> QED BY <1>4, <1>6 DEF r

\* Instance::setCurrentInputMethod: the context uses what was chosen, whatever it
\* used before, and whoever shares its state.
THEOREM ChosenIsUsed == Spec => []ChoiceIsUsed
<1>1. IInv => ChoiceIsUsed
  BY ChoiceCounts
<1> QED BY <1>1, InvariantHolds, PTL

\* Contexts that share their state never come to differ: InputState::copyTo and
\* registerInputContext reach every one of them.
THEOREM SharingIsKept == Spec => StateStaysShared
<1> DEFINE A == share' = share /\ SharersAgree => SharersAgree'
<1>1. Agree(Now) <=> SharersAgree
  BY DEF Agree, SharersAgree, Now
<1>2. Agree(Now)' <=> SharersAgree'
  BY DEF Agree, SharersAgree, Now
<1>3. IInv /\ [Next]_vars => [A]_vars
  BY <1>1, <1>2, StepHolds DEF Preserves
<1>4. [][A]_vars <=> StateStaysShared
  BY DEF StateStaysShared, A
<1> HIDE DEF A
<1> QED BY <1>3, <1>4, InvariantHolds, PTL DEF Spec
==============================================================================
