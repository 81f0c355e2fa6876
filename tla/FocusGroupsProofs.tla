-------------------------- MODULE FocusGroupsProofs --------------------------
(***************************************************************************)
(* Proofs about FocusGroups, for any number of contexts and displays.      *)
(*                                                                         *)
(* The two copies of the focus (in the groups and in the contexts) and the *)
(* manager's list only change together, so none of the invariants is       *)
(* inductive alone; their conjunction IInv is.  The argument goes through  *)
(* the operators in the order they call each other: what Unlink does to a  *)
(* list, then SetHasFocus to the manager's books, then                     *)
(* SetFocusedInputContext to one group, then the actions.                  *)
(*                                                                         *)
(* What a call tells and whom it leaves as the most recent context is      *)
(* proved in a second pass over the same operators: the events each posts  *)
(* (Moves) and the head of the list it leaves (StaysLatest).               *)
(***************************************************************************)
EXTENDS FocusGroups, SequenceTheorems, TLAPS

In(x, list) == \E i \in DOMAIN list : list[i] = x

NoneTwice(list) == \A i, j \in DOMAIN list : list[i] = list[j] => i = j

\* The manager's list and reference, in the record the nested calls hand on,
\* agree with the contexts' hasFocus_.
BooksOK(f) ==
  /\ f = [focus |-> f.focus, has |-> f.has, list |-> f.list,
          recent |-> f.recent, events |-> f.events]
  /\ f.focus \in [FocusGroup -> InputContext \cup {None}]
  /\ f.has \in [InputContext -> BOOLEAN]
  /\ f.list \in Seq(InputContext)
  /\ f.recent \in InputContext \cup {None}
  /\ NoneTwice(f.list)
  /\ \A ic \in InputContext : f.has[ic] <=> In(ic, f.list)
  /\ f.recent # None => f.list = <<>>

IInv ==
  /\ TypeOK
  /\ GroupsLinked
  /\ FocusAgrees
  /\ FocusedListExact
  /\ MostRecentSound

\* Unlinking a node removes that context and keeps the others.
LEMMA UnlinkFacts ==
  ASSUME NEW list \in Seq(InputContext), NEW ic \in InputContext,
         NoneTwice(list)
  PROVE  /\ Unlink(list, ic) \in Seq(InputContext)
         /\ NoneTwice(Unlink(list, ic))
         /\ \A x \in InputContext :
              In(x, Unlink(list, ic)) <=> x # ic /\ In(x, list)
<1>1. CASE ~In(ic, list)
  BY <1>1 DEF Unlink, In
<1>2. CASE In(ic, list)
  <2> DEFINE k == CHOOSE i \in DOMAIN list : list[i] = ic
             rest == RemoveAt(list, k)
  <2>1. k \in 1..Len(list) /\ list[k] = ic /\ Len(list) \in Nat
    BY <1>2 DEF In
  <2>2. Unlink(list, ic) = rest
    BY <1>2 DEF Unlink, In
  <2> HIDE DEF k
  <2>3. /\ rest \in Seq(InputContext)
        /\ Len(rest) = Len(list) - 1
        /\ \A i \in 1..Len(rest) :
             rest[i] = IF i < k THEN list[i] ELSE list[i + 1]
    <3> DEFINE front == SubSeq(list, 1, k - 1)
               back == SubSeq(list, k + 1, Len(list))
    <3>1. /\ front \in Seq(InputContext) /\ Len(front) = k - 1
          /\ \A i \in 1..(k - 1) : front[i] = list[i]
      BY <2>1
    <3>2. /\ back \in Seq(InputContext) /\ Len(back) = Len(list) - k
          /\ \A i \in 1..(Len(list) - k) : back[i] = list[i + k]
      BY <2>1
    <3>3. rest = front \o back
      BY DEF RemoveAt
    <3> HIDE DEF front, back, rest
    <3>4. rest \in Seq(InputContext) /\ Len(rest) = Len(list) - 1
      <4>1. /\ rest \in Seq(InputContext)
            /\ Len(rest) = Len(front) + Len(back)
        BY <3>1, <3>2, <3>3, ConcatProperties
      <4> QED BY <2>1, <3>1, <3>2, <4>1
    <3>5. ASSUME NEW i \in 1..Len(rest)
          PROVE  rest[i] = IF i < k THEN list[i] ELSE list[i + 1]
      <4>1. CASE i < k
        BY <2>1, <3>1, <3>2, <3>3, <3>4, <4>1
      <4>2. CASE i >= k
        <5>1. i - (k - 1) \in 1..(Len(list) - k)
          BY <2>1, <3>4, <4>2
        <5>2. rest[i] = back[i - (k - 1)]
          BY <2>1, <3>1, <3>2, <3>3, <3>4, <4>2
        <5>3. back[i - (k - 1)] = list[(i - (k - 1)) + k]
          BY <3>2, <5>1
        <5> QED BY <2>1, <4>2, <5>2, <5>3
      <4> QED BY <2>1, <4>1, <4>2
    <3> QED BY <3>4, <3>5
  <2> HIDE DEF rest
  <2>4. NoneTwice(rest)
    <3> DEFINE at(i) == IF i < k THEN i ELSE i + 1
    <3>1. DOMAIN rest = 1..Len(rest) /\ DOMAIN list = 1..Len(list)
      BY <2>3
    <3>2. \A i \in 1..Len(rest) : at(i) \in 1..Len(list)
                                  /\ rest[i] = list[at(i)]
      BY <2>1, <2>3
    <3>3. \A i, j \in 1..Len(rest) : at(i) = at(j) => i = j
      BY <2>1, <2>3
    <3> HIDE DEF at
    <3> QED BY <3>1, <3>2, <3>3 DEF NoneTwice
  <2>5. ASSUME NEW x \in InputContext, x # ic, In(x, list)
        PROVE  In(x, rest)
    <3>1. PICK i \in 1..Len(list) : list[i] = x
      BY <2>5 DEF In
    <3>2. CASE i < k
      BY <2>1, <2>3, <3>1, <3>2 DEF In
    <3>3. CASE i > k
      <4>1. i - 1 \in 1..Len(rest) /\ rest[i - 1] = x
        BY <2>1, <2>3, <3>1, <3>3
      <4> QED BY <4>1, <2>3 DEF In
    <3> QED BY <2>1, <2>5, <3>1, <3>2, <3>3
  <2>6. ASSUME NEW x \in InputContext, In(x, rest)
        PROVE  x # ic /\ In(x, list)
    <3>1. PICK i \in 1..Len(rest) : rest[i] = x
      BY <2>3, <2>6 DEF In
    <3>2. PICK j \in 1..Len(list) : list[j] = x /\ j # k
      BY <2>1, <2>3, <3>1
    <3> QED BY <2>1, <3>2 DEF In, NoneTwice
  <2> QED BY <2>2, <2>3, <2>4, <2>5, <2>6
<1> QED BY <1>1, <1>2

\* Pushing a context that is not in the list to its front.
LEMMA PushFacts ==
  ASSUME NEW list \in Seq(InputContext), NEW ic \in InputContext,
         NoneTwice(list), ~In(ic, list)
  PROVE  /\ <<ic>> \o list \in Seq(InputContext)
         /\ NoneTwice(<<ic>> \o list)
         /\ \A x \in InputContext :
              In(x, <<ic>> \o list) <=> x = ic \/ In(x, list)
<1> DEFINE new == <<ic>> \o list
<1>1. /\ new \in Seq(InputContext)
      /\ Len(new) = Len(list) + 1
      /\ new[1] = ic
      /\ \A i \in 2..Len(new) : new[i] = list[i - 1] /\ i - 1 \in 1..Len(list)
  OBVIOUS
<1>2. \A i \in 1..Len(list) : i + 1 \in 2..Len(new) /\ new[i + 1] = list[i]
  OBVIOUS
<1> HIDE DEF new
<1>3. NoneTwice(new)
  BY <1>1 DEF NoneTwice, In
<1>4. ASSUME NEW x \in InputContext
      PROVE  In(x, new) <=> x = ic \/ In(x, list)
  <2>1. ASSUME In(x, new) PROVE x = ic \/ In(x, list)
    BY <1>1, <2>1 DEF In
  <2>2. ASSUME In(x, list) PROVE In(x, new)
    <3>1. PICK i \in 1..Len(list) : list[i] = x
      BY <2>2 DEF In
    <3>2. i + 1 \in DOMAIN new /\ new[i + 1] = x
      BY <1>1, <1>2, <3>1
    <3> QED BY <3>2 DEF In
  <2>3. In(ic, new)
    BY <1>1 DEF In
  <2> QED BY <2>1, <2>2, <2>3
<1> QED BY <1>1, <1>3, <1>4 DEF new

\* setHasFocus changes the focus of one context and keeps the books in step.
LEMMA SetHasFocusFacts ==
  ASSUME NEW f, BooksOK(f), NEW ic \in InputContext, NEW has \in BOOLEAN
  PROVE  LET r == SetHasFocus(f, ic, has)
         IN  /\ BooksOK(r)
             /\ r.focus = f.focus
             /\ r.has = [f.has EXCEPT ![ic] = has]
             /\ r.recent \in {f.recent, None, ic}
<1> USE NoneAssumption
<1> DEFINE r == SetHasFocus(f, ic, has)
           rest == Unlink(f.list, ic)
<1>1. CASE f.has[ic] = has
  BY <1>1 DEF SetHasFocus, BooksOK
<1>2. CASE f.has[ic] # has /\ has = TRUE
  <2>1. rest = f.list /\ ~In(ic, f.list)
    BY <1>2 DEF BooksOK, Unlink, In
  <2>2. r = [focus |-> f.focus, has |-> [f.has EXCEPT ![ic] = TRUE],
             list |-> <<ic>> \o f.list, recent |-> None,
             events |-> r.events]
    BY <1>2, <2>1 DEF SetHasFocus, NotifyFocus, Post, BooksOK
  <2>3. /\ <<ic>> \o f.list \in Seq(InputContext)
        /\ NoneTwice(<<ic>> \o f.list)
        /\ \A x \in InputContext :
             In(x, <<ic>> \o f.list) <=> x = ic \/ In(x, f.list)
    BY <2>1, PushFacts DEF BooksOK
  <2> HIDE DEF r
  <2>4. /\ r.focus = f.focus /\ r.has = [f.has EXCEPT ![ic] = TRUE]
        /\ r.list = <<ic>> \o f.list /\ r.recent = None
    BY <2>2
  <2>5. \A x \in InputContext : r.has[x] <=> x = ic \/ f.has[x]
    BY <2>4 DEF BooksOK
  <2>6. \A x \in InputContext : r.has[x] <=> In(x, r.list)
    BY <2>3, <2>4, <2>5 DEF BooksOK
  <2>7. BooksOK(r)
    BY <2>2, <2>3, <2>4, <2>6 DEF BooksOK
  <2> QED BY <1>2, <2>4, <2>7 DEF r
<1>3. CASE f.has[ic] # has /\ has = FALSE
  <2>1. /\ rest \in Seq(InputContext)
        /\ NoneTwice(rest)
        /\ \A x \in InputContext : In(x, rest) <=> x # ic /\ In(x, f.list)
    BY UnlinkFacts DEF BooksOK
  <2>2. In(ic, f.list)
    BY <1>3 DEF BooksOK
  <2>3. f.list # <<>>
    BY <2>2 DEF In
  <2>4. r = [focus |-> f.focus, has |-> [f.has EXCEPT ![ic] = FALSE],
             list |-> rest,
             recent |-> IF rest = <<>> THEN ic ELSE f.recent,
             events |-> r.events]
    BY <1>3 DEF SetHasFocus, NotifyFocus, Post, BooksOK
  <2> HIDE DEF r, rest
  <2>5. /\ r.focus = f.focus /\ r.has = [f.has EXCEPT ![ic] = FALSE]
        /\ r.list = rest
        /\ r.recent = IF rest = <<>> THEN ic ELSE f.recent
    BY <2>4
  <2>6. \A x \in InputContext : r.has[x] <=> x # ic /\ f.has[x]
    BY <2>5 DEF BooksOK
  <2>7. \A x \in InputContext : r.has[x] <=> In(x, r.list)
    BY <2>1, <2>5, <2>6 DEF BooksOK
  <2>8. f.recent = None
    BY <2>3 DEF BooksOK
  <2>9. BooksOK(r)
    BY <2>1, <2>4, <2>5, <2>7, <2>8 DEF BooksOK
  <2> QED BY <1>3, <2>5, <2>9 DEF r
<1> QED BY <1>1, <1>2, <1>3

\* Focus as the groups and the contexts of the record see it.
FocusOK(f) ==
  \A g \in FocusGroup : {x \in ics[g] : f.has[x]} = {f.focus[g]} \ {None}

\* In r, where a call made of f, the focus of g has moved to ic.
HasMoved(f, g, ic, r) ==
  \A x \in InputContext :
    r.has[x] <=> x = ic \/ (x # f.focus[g] /\ f.has[x])

\* setFocusedInputContext moves the focus of one group, in both copies.
LEMMA SetFocusedFacts ==
  ASSUME NEW f, BooksOK(f), FocusOK(f), TypeOK, GroupsLinked,
         NEW g \in FocusGroup, NEW ic \in InputContext \cup {None},
         ic # None => ic \in ics[g]
  PROVE  LET r == SetFocusedInputContext(f, g, ic)
         IN  /\ BooksOK(r)
             /\ FocusOK(r)
             /\ r.focus = [f.focus EXCEPT ![g] = ic]
             /\ HasMoved(f, g, ic, r)
             /\ r.recent \in {f.recent, f.focus[g], None}
<1> USE NoneAssumption
<1> DEFINE r == SetFocusedInputContext(f, g, ic)
           old == f.focus[g]
           left == IF old # None THEN SetHasFocus(f, old, FALSE) ELSE f
           moved == [left EXCEPT !.focus[g] = ic]
           taken == IF ic # None THEN SetHasFocus(moved, ic, TRUE) ELSE moved
<1>1. /\ old \in InputContext \cup {None}
      /\ old # None => old \in ics[g] /\ f.has[old]
      /\ ics[g] \subseteq InputContext
      /\ ic \in InputContext \cup {None}
  BY DEF BooksOK, FocusOK, TypeOK
<1>2. CASE old = ic
  <2>1. r = f
    BY <1>2 DEF SetFocusedInputContext
  <2>2. \A x \in InputContext : f.has[x] <=> x = ic \/ (x # old /\ f.has[x])
    BY <1>1, <1>2 DEF BooksOK
  <2>3. f.focus = [f.focus EXCEPT ![g] = ic]
    BY <1>2 DEF BooksOK
  <2> QED BY <2>1, <2>2, <2>3 DEF HasMoved
<1>3. CASE old # ic
  <2>1. r = Post(taken, <<"FocusGroupFocusChanged", g>>)
    BY <1>3 DEF SetFocusedInputContext
  <2>2. /\ BooksOK(left)
        /\ left.focus = f.focus
        /\ left.has = [x \in InputContext |-> x # old /\ f.has[x]]
        /\ left.recent \in {f.recent, None, old}
    <3>1. CASE old = None
      <4>1. f.has = [x \in InputContext |-> x # old /\ f.has[x]]
        BY <3>1 DEF BooksOK
      <4> QED BY <3>1, <4>1
    <3>2. CASE old # None
      <4>1. /\ BooksOK(left)
            /\ left.focus = f.focus
            /\ left.has = [f.has EXCEPT ![old] = FALSE]
            /\ left.recent \in {f.recent, None, old}
        BY <1>1, <3>2, SetHasFocusFacts
      <4>2. [f.has EXCEPT ![old] = FALSE]
              = [x \in InputContext |-> x # old /\ f.has[x]]
        BY <1>1, <3>2 DEF BooksOK
      <4> QED BY <4>1, <4>2
    <3> QED BY <3>1, <3>2
  <2> HIDE DEF left
  <2>3. /\ BooksOK(moved)
        /\ moved.focus = [f.focus EXCEPT ![g] = ic]
        /\ moved.has = left.has
        /\ moved.recent = left.recent
    <3>1. moved = [focus |-> [left.focus EXCEPT ![g] = ic],
                   has |-> left.has, list |-> left.list,
                   recent |-> left.recent, events |-> left.events]
      BY <2>2 DEF BooksOK
    <3> HIDE DEF moved
    <3> QED BY <1>1, <2>2, <3>1 DEF BooksOK
  <2> HIDE DEF moved
  <2>4. /\ BooksOK(taken)
        /\ taken.focus = moved.focus
        /\ taken.has = [x \in InputContext |-> x = ic \/ left.has[x]]
        /\ taken.recent \in {left.recent, None}
    <3>1. CASE ic = None
      <4>1. left.has = [x \in InputContext |-> x = ic \/ left.has[x]]
        BY <2>2, <3>1 DEF BooksOK
      <4> QED BY <2>3, <3>1, <4>1
    <3>2. CASE ic # None
      <4>1. /\ BooksOK(taken)
            /\ taken.focus = moved.focus
            /\ taken.has = [moved.has EXCEPT ![ic] = TRUE]
        <5>1. taken = SetHasFocus(moved, ic, TRUE)
          BY <3>2
        <5>2. ic \in InputContext
          BY <1>1, <3>2
        <5> HIDE DEF taken
        <5> QED BY <2>3, <5>1, <5>2, SetHasFocusFacts
      <4> HIDE DEF taken
      <4>2. taken.has = [x \in InputContext |-> x = ic \/ left.has[x]]
        <5>1. taken.has = [left.has EXCEPT ![ic] = TRUE]
          BY <2>3, <4>1
        <5>2. [left.has EXCEPT ![ic] = TRUE]
                = [x \in InputContext |-> x = ic \/ left.has[x]]
          BY <2>2 DEF BooksOK
        <5> QED BY <5>1, <5>2
      <4>3. In(ic, taken.list) /\ taken.list # <<>>
        BY <1>1, <3>2, <4>1, <4>2 DEF BooksOK, In
      <4>4. taken.recent = None
        BY <4>1, <4>3 DEF BooksOK
      <4> QED BY <4>1, <4>2, <4>4
    <3> QED BY <3>1, <3>2
  <2> HIDE DEF taken
  <2>5. /\ BooksOK(r) /\ r.focus = taken.focus
        /\ r.has = taken.has /\ r.recent = taken.recent
    BY <2>1, <2>4 DEF Post, BooksOK
  <2>6. \A x \in InputContext : r.has[x] <=> x = ic \/ (x # old /\ f.has[x])
    BY <2>2, <2>4, <2>5
  <2>7. r.focus = [f.focus EXCEPT ![g] = ic]
    BY <2>3, <2>4, <2>5
  <2> HIDE DEF r
  <2>8. ASSUME NEW h \in FocusGroup
        PROVE  {x \in ics[h] : r.has[x]} = {r.focus[h]} \ {None}
    <3>1. CASE h = g
      <4>1. r.focus[g] = ic
        BY <2>7 DEF BooksOK
      <4>2. \A x \in ics[g] : r.has[x] <=> x = ic \/ (x # old /\ f.has[x])
        BY <1>1, <2>6
      <4>3. \A x \in ics[g] : f.has[x] <=> x = old /\ old # None
        BY <1>1 DEF FocusOK
      <4>4. \A x \in ics[g] : x # None
        BY <1>1
      <4>5. \A x \in ics[g] : r.has[x] <=> x = ic
        BY <4>2, <4>3
      <4> QED BY <3>1, <4>1, <4>4, <4>5
    <3>2. CASE h # g
      <4>1. ics[h] \cap ics[g] = {} /\ ics[h] \subseteq InputContext
        BY <3>2 DEF GroupsLinked, TypeOK
      <4>2. \A x \in ics[h] : r.has[x] <=> f.has[x]
        BY <1>1, <2>6, <4>1 DEF BooksOK
      <4>3. r.focus[h] = f.focus[h]
        BY <2>7, <3>2 DEF BooksOK
      <4> QED BY <4>2, <4>3 DEF FocusOK
    <3> QED BY <3>1, <3>2
  <2>9. r.recent \in {f.recent, old, None}
    BY <2>2, <2>3, <2>4, <2>5
  <2> QED BY <2>5, <2>4, <2>6, <2>7, <2>8, <2>9 DEF FocusOK, HasMoved, r
<1> QED BY <1>2, <1>3

-----------------------------------------------------------------------------
(* The calls a frontend makes. *)

\* The current state, as the nested calls receive it.
LEMMA NowFacts ==
  ASSUME IInv
  PROVE  BooksOK(Now) /\ FocusOK(Now)
<1>1. \A ic \in InputContext : hasFocus[ic] <=> In(ic, focused)
  BY DEF IInv, FocusedListExact, In
<1>2. NoneTwice(focused)
  BY DEF IInv, FocusedListExact, NoneTwice
<1> QED
  BY <1>1, <1>2 DEF IInv, TypeOK, FocusAgrees, MostRecentSound, Now, BooksOK,
                    FocusOK

\* focusIn leaves the context focused and nothing else focused in its group.
LEMMA TakeFocusFacts ==
  ASSUME IInv, NEW ic \in InputContext
  PROVE  LET r == TakeFocus(Now, ic)
         IN  /\ BooksOK(r)
             /\ FocusOK(r)
             /\ \A x \in InputContext : r.has[x] => x = ic \/ hasFocus[x]
             /\ r.has[ic]
             /\ r.recent \in {recent, None, ic} \cup alive
<1> USE NowFacts, NoneAssumption
<1> DEFINE r == TakeFocus(Now, ic)
<1>1. /\ Now.has = hasFocus /\ Now.recent = recent /\ Now.focus = focus
  BY DEF Now
<1>2. CASE group[ic] # None
  <2> DEFINE g == group[ic]
  <2>1. /\ g \in FocusGroup /\ ic \in ics[g]
        /\ focus[g] # None => focus[g] \in alive
    BY <1>2 DEF IInv, TypeOK, GroupsLinked, FocusAgrees
  <2>2. r = SetFocusedInputContext(Now, g, ic)
    BY <1>2 DEF TakeFocus
  <2> HIDE DEF g, r
  <2>3. /\ BooksOK(r) /\ FocusOK(r)
        /\ \A x \in InputContext :
             r.has[x] <=> x = ic \/ (x # focus[g] /\ hasFocus[x])
        /\ r.recent \in {recent, focus[g], None}
    <3>1. BooksOK(Now) /\ FocusOK(Now) /\ TypeOK /\ GroupsLinked
      BY DEF IInv
    <3>2. ic \in InputContext \cup {None} /\ (ic # None => ic \in ics[g])
      BY <2>1
    <3>3. BooksOK(SetFocusedInputContext(Now, g, ic))
      BY <2>1, <3>1, <3>2, SetFocusedFacts
    <3>4. FocusOK(SetFocusedInputContext(Now, g, ic))
      BY <2>1, <3>1, <3>2, SetFocusedFacts
    <3>5. HasMoved(Now, g, ic, SetFocusedInputContext(Now, g, ic))
      BY <2>1, <3>1, <3>2, SetFocusedFacts
    <3>6. SetFocusedInputContext(Now, g, ic).recent
            \in {Now.recent, Now.focus[g], None}
      BY <2>1, <3>1, <3>2, SetFocusedFacts
    <3> QED BY <1>1, <2>2, <3>3, <3>4, <3>5, <3>6 DEF HasMoved
  <2>4. /\ \A x \in InputContext : r.has[x] => x = ic \/ hasFocus[x]
        /\ r.has[ic]
    BY <2>3
  <2> QED BY <2>1, <2>3, <2>4 DEF r
<1>3. CASE group[ic] = None
  <2>1. r = SetHasFocus(Now, ic, TRUE)
    BY <1>3 DEF TakeFocus
  <2> HIDE DEF r
  <2>2. /\ BooksOK(r) /\ r.focus = focus
        /\ r.has = [hasFocus EXCEPT ![ic] = TRUE]
        /\ r.recent \in {recent, None, ic}
    BY <1>1, <2>1, SetHasFocusFacts
  <2>3. \A g \in FocusGroup : ic \notin ics[g] /\ ics[g] \subseteq InputContext
    BY <1>3 DEF IInv, GroupsLinked, TypeOK
  <2>4. \A x \in InputContext : x # ic => (r.has[x] <=> hasFocus[x])
    BY <2>2 DEF IInv, TypeOK
  <2>5. FocusOK(r)
    BY <2>2, <2>3, <2>4 DEF IInv, FocusAgrees, FocusOK
  <2>6. r.has[ic]
    BY <2>2 DEF IInv, TypeOK
  <2> QED BY <2>2, <2>4, <2>5, <2>6 DEF r
<1> QED BY <1>2, <1>3

\* focusOut takes the focus from that context alone.
LEMMA DropFocusFacts ==
  ASSUME IInv, NEW ic \in InputContext
  PROVE  LET r == DropFocus(Now, ic)
         IN  /\ BooksOK(r)
             /\ FocusOK(r)
             /\ \A x \in InputContext : r.has[x] <=> x # ic /\ hasFocus[x]
             /\ \A g \in FocusGroup : r.focus[g] # ic
             /\ r.recent \in {recent, None, ic}
<1> USE NowFacts, NoneAssumption
<1> DEFINE r == DropFocus(Now, ic)
<1>1. /\ Now.has = hasFocus /\ Now.recent = recent /\ Now.focus = focus
  BY DEF Now
<1>2. /\ \A g \in FocusGroup : focus[g] = ic => g = group[ic]
      /\ \A g \in FocusGroup : ic \in ics[g] <=> g = group[ic]
      /\ \A g \in FocusGroup : ics[g] \subseteq InputContext
  BY DEF IInv, TypeOK, GroupsLinked, FocusAgrees
<1>3. CASE group[ic] = None
  <2>1. r = SetHasFocus(Now, ic, FALSE)
    BY <1>3 DEF DropFocus
  <2> HIDE DEF r
  <2>2. /\ BooksOK(r) /\ r.focus = focus
        /\ r.has = [hasFocus EXCEPT ![ic] = FALSE]
        /\ r.recent \in {recent, None, ic}
    BY <1>1, <2>1, SetHasFocusFacts
  <2>3. \A x \in InputContext : r.has[x] <=> x # ic /\ hasFocus[x]
    BY <2>2 DEF IInv, TypeOK
  <2>4. \A g \in FocusGroup : focus[g] # ic /\ ic \notin ics[g]
    BY <1>2, <1>3
  <2>5. FocusOK(r)
    BY <1>2, <2>2, <2>3, <2>4 DEF IInv, FocusAgrees, FocusOK
  <2> QED BY <2>2, <2>3, <2>4, <2>5 DEF r
<1>4. CASE group[ic] # None /\ focus[group[ic]] = ic
  <2> DEFINE g == group[ic]
  <2>1. g \in FocusGroup
    BY <1>4 DEF IInv, TypeOK
  <2>2. r = SetFocusedInputContext(Now, g, None)
    BY <1>1, <1>4 DEF DropFocus
  <2> HIDE DEF r
  <2>3. /\ BooksOK(r) /\ FocusOK(r)
        /\ r.focus = [focus EXCEPT ![g] = None]
        /\ \A x \in InputContext :
             r.has[x] <=> x = None \/ (x # focus[g] /\ hasFocus[x])
        /\ r.recent \in {recent, focus[g], None}
    BY <1>1, <2>1, <2>2, SetFocusedFacts DEF IInv, HasMoved
  <2>4. \A x \in InputContext : r.has[x] <=> x # ic /\ hasFocus[x]
    BY <1>4, <2>3
  <2>5. \A h \in FocusGroup : r.focus[h] # ic
    BY <1>2, <2>1, <2>3 DEF IInv, TypeOK
  <2> QED BY <1>4, <2>3, <2>4, <2>5 DEF r
<1>5. CASE group[ic] # None /\ focus[group[ic]] # ic
  <2>1. r = Now
    BY <1>1, <1>5 DEF DropFocus
  <2>2. ~hasFocus[ic]
    BY <1>2, <1>5 DEF IInv, TypeOK, FocusAgrees
  <2>3. \A g \in FocusGroup : focus[g] # ic
    BY <1>2, <1>5
  <2> QED BY <1>1, <2>1, <2>2, <2>3
<1> QED BY <1>3, <1>4, <1>5

\* What the books say is what the variables say after the call.
LEMMA CommitFacts ==
  ASSUME NEW r, BooksOK(r), Commit(r)
  PROVE  /\ focus' \in [FocusGroup -> InputContext \cup {None}]
         /\ hasFocus' \in [InputContext -> BOOLEAN]
         /\ focused' \in Seq(InputContext)
         /\ recent' \in InputContext \cup {None}
         /\ \A i, j \in DOMAIN focused' : focused'[i] = focused'[j] => i = j
         /\ \A ic \in InputContext :
              hasFocus'[ic] <=> \E i \in DOMAIN focused' : focused'[i] = ic
         /\ recent' # None => focused' = <<>>
BY DEF BooksOK, Commit, NoneTwice, In

-----------------------------------------------------------------------------
(* The inductive step, one lemma for each action. *)

LEMMA CreateStep ==
  ASSUME IInv, NEW ic \in InputContext, Create(ic)
  PROVE  IInv'
BY DEF IInv, TypeOK, GroupsLinked, FocusAgrees, FocusedListExact,
       MostRecentSound, Create

LEMMA CreateFocusGroupStep ==
  ASSUME IInv, NEW g \in FocusGroup, CreateFocusGroup(g)
  PROVE  IInv'
BY DEF IInv, TypeOK, GroupsLinked, FocusAgrees, FocusedListExact,
       MostRecentSound, CreateFocusGroup

LEMMA FocusInStep ==
  ASSUME IInv, NEW ic \in InputContext, FocusIn(ic)
  PROVE  IInv'
<1> DEFINE r == TakeFocus(Now, ic)
<1>1. /\ ic \in alive /\ Commit(r)
      /\ UNCHANGED <<alive, displays, group, ics, exiting>>
  BY DEF FocusIn
<1> HIDE DEF r
<1>2. /\ BooksOK(r) /\ FocusOK(r)
      /\ \A x \in InputContext : r.has[x] => x = ic \/ hasFocus[x]
      /\ r.recent \in {recent, None, ic} \cup alive
  BY TakeFocusFacts DEF r
<1>3. focus' = r.focus /\ hasFocus' = r.has /\ recent' = r.recent
  BY <1>1 DEF Commit
<1>4. TypeOK'
  BY <1>1, <1>2, CommitFacts DEF IInv, TypeOK
<1>5. GroupsLinked'
  BY <1>1 DEF IInv, GroupsLinked
<1>6. FocusAgrees'
  BY <1>1, <1>2, <1>3 DEF FocusAgrees, FocusOK
<1>7. FocusedListExact'
  <2>1. \A x \in InputContext : hasFocus'[x] => x \in alive'
    BY <1>1, <1>2, <1>3 DEF IInv, FocusedListExact
  <2> QED BY <1>1, <1>2, <2>1, CommitFacts DEF FocusedListExact
<1>8. MostRecentSound'
  <2>1. recent' # None => recent' \in alive'
    BY <1>1, <1>2, <1>3 DEF IInv, MostRecentSound
  <2> QED BY <1>1, <1>2, <2>1, CommitFacts DEF MostRecentSound
<1> QED BY <1>4, <1>5, <1>6, <1>7, <1>8 DEF IInv

LEMMA FocusOutStep ==
  ASSUME IInv, NEW ic \in InputContext, FocusOut(ic)
  PROVE  IInv'
<1> DEFINE r == DropFocus(Now, ic)
<1>1. /\ ic \in alive /\ Commit(r)
      /\ UNCHANGED <<alive, displays, group, ics, exiting>>
  BY DEF FocusOut
<1> HIDE DEF r
<1>2. /\ BooksOK(r) /\ FocusOK(r)
      /\ \A x \in InputContext : r.has[x] <=> x # ic /\ hasFocus[x]
      /\ r.recent \in {recent, None, ic}
  BY DropFocusFacts DEF r
<1>3. focus' = r.focus /\ hasFocus' = r.has /\ recent' = r.recent
  BY <1>1 DEF Commit
<1>4. TypeOK'
  BY <1>1, <1>2, CommitFacts DEF IInv, TypeOK
<1>5. GroupsLinked'
  BY <1>1 DEF IInv, GroupsLinked
<1>6. FocusAgrees'
  BY <1>1, <1>2, <1>3 DEF FocusAgrees, FocusOK
<1>7. FocusedListExact'
  <2>1. \A x \in InputContext : hasFocus'[x] => x \in alive'
    BY <1>1, <1>2, <1>3 DEF IInv, FocusedListExact
  <2> QED BY <1>1, <1>2, <2>1, CommitFacts DEF FocusedListExact
<1>8. MostRecentSound'
  <2>1. recent' # None => recent' \in alive'
    BY <1>1, <1>2, <1>3 DEF IInv, MostRecentSound
  <2> QED BY <1>1, <1>2, <2>1, CommitFacts DEF MostRecentSound
<1> QED BY <1>4, <1>5, <1>6, <1>7, <1>8 DEF IInv

LEMMA SetFocusGroupStep ==
  ASSUME IInv, NEW ic \in InputContext, NEW g \in FocusGroup \cup {None},
         SetFocusGroup(ic, g)
  PROVE  IInv'
<1> USE NoneAssumption
<1> DEFINE r == DropFocus(Now, ic)
<1>1. /\ ic \in alive /\ Commit(r) /\ g \in displays \cup {None}
      /\ UNCHANGED <<alive, displays, exiting>>
      /\ ics' = [h \in FocusGroup |-> IF h = g THEN ics[h] \cup {ic}
                                               ELSE ics[h] \ {ic}]
      /\ group' = [group EXCEPT ![ic] = g]
  BY DEF SetFocusGroup
<1> HIDE DEF r
<1>2. /\ BooksOK(r) /\ FocusOK(r)
      /\ \A x \in InputContext : r.has[x] <=> x # ic /\ hasFocus[x]
      /\ \A h \in FocusGroup : r.focus[h] # ic
      /\ r.recent \in {recent, None, ic}
  BY DropFocusFacts DEF r
<1>3. focus' = r.focus /\ hasFocus' = r.has /\ recent' = r.recent
  BY <1>1 DEF Commit
<1>4. TypeOK'
  BY <1>1, <1>2, CommitFacts DEF IInv, TypeOK
<1>5. GroupsLinked'
  BY <1>1 DEF IInv, TypeOK, GroupsLinked
<1>6. ASSUME NEW h \in FocusGroup
      PROVE  {x \in ics'[h] : hasFocus'[x]} = {focus'[h]} \ {None}
  <2>1. \A x \in InputContext : hasFocus'[x] => x # ic
    BY <1>2, <1>3
  <2>2. \A x \in InputContext \ {ic} : x \in ics'[h] <=> x \in ics[h]
    BY <1>1
  <2>3. ics'[h] \subseteq InputContext /\ ics[h] \subseteq InputContext
    BY <1>4 DEF IInv, TypeOK
  <2> QED BY <1>2, <1>3, <2>1, <2>2, <2>3 DEF FocusOK
<1>7. FocusedListExact'
  <2>1. \A x \in InputContext : hasFocus'[x] => x \in alive'
    BY <1>1, <1>2, <1>3 DEF IInv, FocusedListExact
  <2> QED BY <1>1, <1>2, <2>1, CommitFacts DEF FocusedListExact
<1>8. MostRecentSound'
  <2>1. recent' # None => recent' \in alive'
    BY <1>1, <1>2, <1>3 DEF IInv, MostRecentSound
  <2> QED BY <1>1, <1>2, <2>1, CommitFacts DEF MostRecentSound
<1> QED BY <1>4, <1>5, <1>6, <1>7, <1>8 DEF IInv, FocusAgrees

LEMMA DestroyFocusGroupStep ==
  ASSUME IInv, NEW g \in FocusGroup, DestroyFocusGroup(g)
  PROVE  IInv'
<1> USE NoneAssumption, NowFacts, ExitAssumption
<1> DEFINE r == SetFocusedInputContext(Now, g, None)
<1>1. /\ g \in displays /\ Commit(r) /\ alive' = alive
      /\ group' = [ic \in InputContext |-> IF ic \in ics[g] THEN None
                                                            ELSE group[ic]]
      /\ ics' = [ics EXCEPT ![g] = {}]
      /\ displays' = displays \ {g}
      /\ exiting' \in BOOLEAN
  BY DEF DestroyFocusGroup, IInv, TypeOK
<1> HIDE DEF r
<1>2. Now.has = hasFocus /\ Now.recent = recent /\ Now.focus = focus
  BY DEF Now
<1>3. /\ BooksOK(r) /\ FocusOK(r)
      /\ r.focus = [focus EXCEPT ![g] = None]
      /\ \A x \in InputContext :
           r.has[x] <=> x = None \/ (x # focus[g] /\ hasFocus[x])
      /\ r.recent \in {recent, focus[g], None}
  BY <1>2, SetFocusedFacts DEF IInv, HasMoved, r
<1>4. focus' = r.focus /\ hasFocus' = r.has /\ recent' = r.recent
  BY <1>1 DEF Commit
<1>5. TypeOK'
  BY <1>1, <1>3, CommitFacts DEF IInv, TypeOK
<1>6. GroupsLinked'
  BY <1>1 DEF IInv, TypeOK, GroupsLinked
<1>7. FocusAgrees'
  <2>1. \A h \in FocusGroup : ics'[h] = IF h = g THEN {} ELSE ics[h]
    BY <1>1 DEF IInv, TypeOK
  <2>2. focus'[g] = None
    BY <1>3, <1>4 DEF IInv, TypeOK
  <2> QED BY <1>3, <1>4, <2>1, <2>2 DEF FocusAgrees, FocusOK
<1>8. FocusedListExact'
  <2>1. \A x \in InputContext : hasFocus'[x] => x \in alive'
    BY <1>1, <1>3, <1>4 DEF IInv, FocusedListExact
  <2> QED BY <1>1, <1>3, <2>1, CommitFacts DEF FocusedListExact
<1>9. MostRecentSound'
  <2>1. focus[g] # None => focus[g] \in alive
    BY DEF IInv, TypeOK, GroupsLinked, FocusAgrees
  <2>2. recent' # None => recent' \in alive'
    BY <1>1, <1>3, <1>4, <2>1 DEF IInv, MostRecentSound
  <2> QED BY <1>1, <1>3, <2>2, CommitFacts DEF MostRecentSound
<1> QED BY <1>5, <1>6, <1>7, <1>8, <1>9 DEF IInv

LEMMA DestroyStep ==
  ASSUME IInv, NEW ic \in InputContext, Destroy(ic)
  PROVE  IInv'
<1> USE NoneAssumption
<1> DEFINE left == IF group[ic] # None /\ focus[group[ic]] = ic
                   THEN SetFocusedInputContext(Now, group[ic], None)
                   ELSE Now
           told == Post(left, <<"InputContextDestroyed", ic>>)
           gone == [told EXCEPT !.has[ic] = FALSE,
                                !.list = Unlink(@, ic),
                                !.recent = IF @ = ic THEN None ELSE @]
<1>1. /\ ic \in alive /\ Commit(gone)
      /\ ics' = [g \in FocusGroup |-> ics[g] \ {ic}]
      /\ group' = [group EXCEPT ![ic] = None]
      /\ alive' = alive \ {ic}
      /\ UNCHANGED <<displays, exiting>>
  BY DEF Destroy
<1>2. /\ BooksOK(left) /\ FocusOK(left)
      /\ \A x \in InputContext : left.has[x] => hasFocus[x]
      /\ \A g \in FocusGroup : left.focus[g] # ic
      /\ left.recent \in {recent, None, ic}
  <2>1. CASE group[ic] # None /\ focus[group[ic]] = ic
    <3>1. left = DropFocus(Now, ic)
      BY <2>1 DEF DropFocus, Now
    <3> HIDE DEF left
    <3> QED BY <3>1, DropFocusFacts
  <2>2. CASE ~(group[ic] # None /\ focus[group[ic]] = ic)
    <3>1. left = Now
      BY <2>2
    <3>2. \A g \in FocusGroup : focus[g] # ic
      BY <2>2 DEF IInv, TypeOK, GroupsLinked, FocusAgrees
    <3> QED BY <3>1, <3>2, NowFacts DEF Now
  <2> QED BY <2>1, <2>2
<1> HIDE DEF left
<1>3. told = [focus |-> left.focus, has |-> left.has, list |-> left.list,
              recent |-> left.recent, events |-> told.events]
  <2>1. CASE exiting
    <3>1. told = left
      BY <1>2, <2>1 DEF Post, BooksOK
    <3> HIDE DEF told
    <3> QED BY <1>2, <3>1 DEF BooksOK
  <2>2. CASE ~exiting
    <3>1. told = [left EXCEPT !.events =
                    Append(@, <<"InputContextDestroyed", ic>>)]
      BY <2>2 DEF Post
    <3> HIDE DEF told
    <3> QED BY <1>2, <3>1 DEF BooksOK
  <2> QED BY <2>1, <2>2
<1> HIDE DEF told
<1>4. gone = [focus |-> left.focus, has |-> [left.has EXCEPT ![ic] = FALSE],
              list |-> Unlink(left.list, ic),
              recent |-> IF left.recent = ic THEN None ELSE left.recent,
              events |-> told.events]
  <2>1. /\ told.has = left.has /\ told.list = left.list
        /\ told.recent = left.recent
    BY <1>3
  <2>2. gone = [told EXCEPT !.has = [left.has EXCEPT ![ic] = FALSE],
                            !.list = Unlink(left.list, ic),
                            !.recent = IF left.recent = ic THEN None
                                                           ELSE left.recent]
    BY <2>1
  <2> HIDE DEF gone
  <2> DEFINE has == [left.has EXCEPT ![ic] = FALSE]
             list == Unlink(left.list, ic)
             last == IF left.recent = ic THEN None ELSE left.recent
             events == told.events
  <2>3. /\ gone = [told EXCEPT !.has = has, !.list = list, !.recent = last]
        /\ told = [focus |-> left.focus, has |-> left.has,
                   list |-> left.list, recent |-> left.recent,
                   events |-> events]
    BY <1>3, <2>2
  <2> HIDE DEF has, list, last, events
  <2>4. gone = [focus |-> left.focus, has |-> has, list |-> list,
                recent |-> last, events |-> events]
    BY <2>3
  <2> QED BY <2>4 DEF has, list, last, events
<1> HIDE DEF gone
<1>5. /\ focus' = left.focus /\ hasFocus' = [left.has EXCEPT ![ic] = FALSE]
      /\ recent' = IF left.recent = ic THEN None ELSE left.recent
  BY <1>1, <1>4 DEF Commit
<1>6. \A x \in InputContext : hasFocus'[x] <=> x # ic /\ left.has[x]
  BY <1>2, <1>5 DEF BooksOK
<1>7. BooksOK(gone)
  <2>1. /\ gone.focus = left.focus
        /\ gone.has = [left.has EXCEPT ![ic] = FALSE]
        /\ gone.list = Unlink(left.list, ic)
        /\ gone.recent = IF left.recent = ic THEN None ELSE left.recent
        /\ gone.events = told.events
    BY <1>4
  <2>2. /\ gone.list \in Seq(InputContext) /\ NoneTwice(gone.list)
        /\ \A x \in InputContext :
             In(x, gone.list) <=> x # ic /\ In(x, left.list)
    BY <1>2, <2>1, UnlinkFacts DEF BooksOK
  <2>3. \A x \in InputContext : gone.has[x] <=> In(x, gone.list)
    BY <1>2, <2>1, <2>2 DEF BooksOK
  <2>4. left.list = <<>> => gone.list = <<>>
    BY <2>1 DEF Unlink
  <2>5. gone.recent # None => gone.list = <<>>
    BY <1>2, <2>1, <2>4 DEF BooksOK
  <2> QED BY <1>2, <1>4, <2>1, <2>2, <2>3, <2>5 DEF BooksOK
<1>8. TypeOK'
  BY <1>1, <1>7, CommitFacts DEF IInv, TypeOK
<1>9. GroupsLinked'
  BY <1>1 DEF IInv, TypeOK, GroupsLinked
<1>10. FocusAgrees'
  <2>1. \A g \in FocusGroup : ics'[g] = ics[g] \ {ic}
                              /\ ics[g] \subseteq InputContext
    BY <1>1 DEF IInv, TypeOK
  <2> QED BY <1>2, <1>5, <1>6, <2>1 DEF FocusAgrees, FocusOK
<1>11. FocusedListExact'
  <2>1. \A x \in InputContext : hasFocus'[x] => x \in alive'
    BY <1>1, <1>2, <1>6 DEF IInv, FocusedListExact
  <2> QED BY <1>1, <1>7, <2>1, CommitFacts DEF FocusedListExact
<1>12. MostRecentSound'
  <2>1. recent' # None => recent' \in alive'
    BY <1>1, <1>2, <1>5 DEF IInv, MostRecentSound
  <2> QED BY <1>1, <1>7, <2>1, CommitFacts DEF MostRecentSound
<1> QED BY <1>8, <1>9, <1>10, <1>11, <1>12 DEF IInv

-----------------------------------------------------------------------------

LEMMA InitInvariant ==
  ASSUME Init
  PROVE  IInv
<1> USE NoneAssumption DEF Init
<1>1. TypeOK
  <2>1. focused \in Seq(InputContext)
    OBVIOUS
  <2>2. hasFocus \in [InputContext -> BOOLEAN]
    OBVIOUS
  <2> QED BY <2>1, <2>2 DEF TypeOK
<1>2. GroupsLinked
  BY DEF GroupsLinked
<1>3. FocusAgrees
  BY DEF FocusAgrees
<1>4. FocusedListExact /\ MostRecentSound
  BY DEF FocusedListExact, MostRecentSound
<1> QED BY <1>1, <1>2, <1>3, <1>4 DEF IInv

LEMMA NextInvariant ==
  ASSUME IInv, Next
  PROVE  IInv'
<1>1. ASSUME NEW ic \in InputContext, Create(ic) PROVE IInv'
  BY <1>1, CreateStep
<1>2. ASSUME NEW ic \in InputContext, Destroy(ic) PROVE IInv'
  BY <1>2, DestroyStep
<1>3. ASSUME NEW ic \in InputContext, FocusIn(ic) PROVE IInv'
  BY <1>3, FocusInStep
<1>4. ASSUME NEW ic \in InputContext, FocusOut(ic) PROVE IInv'
  BY <1>4, FocusOutStep
<1>5. ASSUME NEW ic \in InputContext, NEW g \in FocusGroup \cup {None},
             SetFocusGroup(ic, g)
      PROVE  IInv'
  BY <1>5, SetFocusGroupStep
<1>6. ASSUME NEW g \in FocusGroup, CreateFocusGroup(g) PROVE IInv'
  BY <1>6, CreateFocusGroupStep
<1>7. ASSUME NEW g \in FocusGroup, DestroyFocusGroup(g) PROVE IInv'
  BY <1>7, DestroyFocusGroupStep
<1> QED BY <1>1, <1>2, <1>3, <1>4, <1>5, <1>6, <1>7 DEF Next

\* Steps of others, which leave all but the events of the last call alone.
LEMMA OthersInvariant ==
  ASSUME IInv,
         UNCHANGED <<alive, displays, group, ics, focus, hasFocus, focused,
                     recent, exiting>>
  PROVE  IInv'
BY DEF IInv, TypeOK, GroupsLinked, FocusAgrees, FocusedListExact,
       MostRecentSound

\* With --keep the instance stays.
LEMMA KeepsRunning ==
  ASSUME Next, ExitWhenMainDisplayDisconnected = FALSE, exiting = FALSE
  PROVE  exiting' = FALSE
BY DEF Next, Create, Destroy, FocusIn, FocusOut, SetFocusGroup,
       CreateFocusGroup, DestroyFocusGroup

\* The invariants hold together in every reachable state.
THEOREM InvariantHolds == Spec => []IInv
<1>1. Init => IInv
  BY InitInvariant
<1>2. IInv /\ [Next]_vars => IInv'
  <2>1. ASSUME IInv, UNCHANGED vars PROVE IInv'
    BY <2>1, OthersInvariant DEF vars
  <2> QED BY <2>1, NextInvariant
<1> QED BY <1>1, <1>2, PTL DEF Spec

\* Every variable keeps the type of the member it stands for.
THEOREM TypeCorrect == Spec => []TypeOK
<1>1. IInv => TypeOK
  BY DEF IInv
<1> QED BY <1>1, InvariantHolds, PTL

\* A group and its contexts never disagree about who has focus, whatever the
\* order in which contexts gain and lose it, move between displays and go away.
THEOREM FocusAgreement == Spec => []FocusAgrees
<1>1. IInv => FocusAgrees
  BY DEF IInv
<1> QED BY <1>1, InvariantHolds, PTL

\* A context and its group are linked both ways or not at all, and never to an
\* object that is gone: setFocusGroup and the two destructors keep them so.
THEOREM LinksAgree == Spec => []GroupsLinked
<1>1. IInv => GroupsLinked
  BY DEF IInv
<1> QED BY <1>1, InvariantHolds, PTL

\* The manager's list never links a destroyed context, and misses no focused one.
THEOREM FocusedListIsExact == Spec => []FocusedListExact
<1>1. IInv => FocusedListExact
  BY DEF IInv
<1> QED BY <1>1, InvariantHolds, PTL

\* mostRecentInputContext_ never names an object that is gone.
THEOREM MostRecentIsSound == Spec => []MostRecentSound
<1>1. IInv => MostRecentSound
  BY DEF IInv
<1> QED BY <1>1, InvariantHolds, PTL

-----------------------------------------------------------------------------
(* What one call may do and tell. *)

Out(ic) == <<"FocusOut", ic>>
Into(ic) == <<"FocusIn", ic>>

\* These events say that old loses focus (unless it is None), that new gains
\* it after that (unless it is None), and nothing else about focus.
Announces(events, old, new) ==
  /\ Len(events) \in Nat /\ DOMAIN events = 1..Len(events)
  /\ \A x \in InputContext :
       /\ x = old <=> \E i \in DOMAIN events : events[i] = Out(x)
       /\ x = new <=> \E i \in DOMAIN events : events[i] = Into(x)
       /\ \A i, j \in DOMAIN events :
            events[i] \in {Into(x), Out(x)} /\ events[j] \in {Into(x), Out(x)}
              => i = j
  /\ \A i, j \in DOMAIN events : \A x, y \in InputContext :
       events[i] = Out(x) /\ events[j] = Into(y) => i < j

\* The sequences of events that a call can post.
LEMMA EventsFacts ==
  ASSUME NEW old \in InputContext \cup {None}, NEW new \in InputContext \cup {None},
         old = new => old = None,
         NEW g, NEW ic, NEW events,
         events \in
           CASE old = None /\ new = None ->
                  {<<>>, << <<"InputContextDestroyed", ic>> >>}
             [] old # None /\ new = None ->
                  {<<Out(old)>>, <<Out(old), <<"FocusGroupFocusChanged", g>>>>,
                   <<Out(old), <<"FocusGroupFocusChanged", g>>,
                     <<"InputContextDestroyed", ic>>>>}
             [] old = None /\ new # None ->
                  {<<Into(new)>>, <<Into(new), <<"FocusGroupFocusChanged", g>>>>}
             [] OTHER ->
                  {<<Out(old), Into(new), <<"FocusGroupFocusChanged", g>>>>}
  PROVE  Announces(events, old, new)
<1> USE NoneAssumption
<1>1. CASE old = None /\ new = None
  <2>1. CASE events = <<>>
    BY <1>1, <2>1 DEF Announces
  <2>2. CASE events = << <<"InputContextDestroyed", ic>> >>
    BY <1>1, <2>2 DEF Announces, Out, Into
  <2> QED BY <1>1, <2>1, <2>2
<1>2. CASE old # None /\ new = None
  <2>1. CASE events = <<Out(old)>>
    BY <1>2, <2>1 DEF Announces, Out, Into
  <2>2. CASE events = <<Out(old), <<"FocusGroupFocusChanged", g>>>>
    BY <1>2, <2>2 DEF Announces, Out, Into
  <2>3. CASE events = <<Out(old), <<"FocusGroupFocusChanged", g>>,
                        <<"InputContextDestroyed", ic>>>>
    BY <1>2, <2>3 DEF Announces, Out, Into
  <2> QED BY <1>2, <2>1, <2>2, <2>3
<1>3. CASE old = None /\ new # None
  <2>1. CASE events = <<Into(new)>>
    BY <1>3, <2>1 DEF Announces, Out, Into
  <2>2. CASE events = <<Into(new), <<"FocusGroupFocusChanged", g>>>>
    BY <1>3, <2>2 DEF Announces, Out, Into
  <2> QED BY <1>3, <2>1, <2>2
<1>4. CASE old # None /\ new # None
  <2>1. events = <<Out(old), Into(new), <<"FocusGroupFocusChanged", g>>>>
    BY <1>4
  <2> QED BY <1>4, <2>1 DEF Announces, Out, Into
<1> QED BY <1>1, <1>2, <1>3, <1>4

\* Appending to a short sequence, written out.
LEMMA AppendToNone ==
  ASSUME NEW a
  PROVE  Append(<<>>, a) = <<a>>
OBVIOUS

LEMMA AppendToOne ==
  ASSUME NEW a, NEW b
  PROVE  Append(<<a>>, b) = <<a, b>>
<1> DEFINE S == {a, b}
           x == Append(<<a>>, b)
           y == <<a, b>>
<1>1. x \in Seq(S) /\ Len(x) = 2 /\ x[1] = a /\ x[2] = b
  <2>1. <<a>> \in Seq(S) /\ b \in S
    OBVIOUS
  <2> QED BY <2>1
<1>2. y \in Seq(S) /\ Len(y) = 2 /\ y[1] = a /\ y[2] = b
  OBVIOUS
<1>3. \A i \in 1..Len(x) : x[i] = y[i]
  BY <1>1, <1>2
<1> HIDE DEF x, y, S
<1>4. x = y
  BY <1>1, <1>2, <1>3, SeqEqual
<1> QED BY <1>4 DEF x, y

LEMMA AppendToTwo ==
  ASSUME NEW a, NEW b, NEW c
  PROVE  Append(<<a, b>>, c) = <<a, b, c>>
<1> DEFINE S == {a, b, c}
           x == Append(<<a, b>>, c)
           y == <<a, b, c>>
<1>1. x \in Seq(S) /\ Len(x) = 3 /\ x[1] = a /\ x[2] = b /\ x[3] = c
  <2>1. <<a, b>> \in Seq(S) /\ c \in S
    OBVIOUS
  <2> QED BY <2>1
<1>2. y \in Seq(S) /\ Len(y) = 3 /\ y[1] = a /\ y[2] = b /\ y[3] = c
  OBVIOUS
<1>3. \A i \in 1..Len(x) : x[i] = y[i]
  BY <1>1, <1>2
<1> HIDE DEF x, y, S
<1>4. x = y
  BY <1>1, <1>2, <1>3, SeqEqual
<1> QED BY <1>4 DEF x, y

\* Posting changes the events alone.
LEMMA PostFacts ==
  ASSUME NEW f, NEW event, ~exiting,
         f = [focus |-> f.focus, has |-> f.has, list |-> f.list,
              recent |-> f.recent, events |-> f.events]
  PROVE  Post(f, event) = [focus |-> f.focus, has |-> f.has, list |-> f.list,
                           recent |-> f.recent,
                           events |-> Append(f.events, event)]
<1> DEFINE more == Append(f.events, event)
<1>1. Post(f, event) = [f EXCEPT !.events = more]
  BY DEF Post
<1> HIDE DEF more
<1>2. [f EXCEPT !.events = more]
        = [focus |-> f.focus, has |-> f.has, list |-> f.list,
           recent |-> f.recent, events |-> more]
  OBVIOUS
<1> QED BY <1>1, <1>2 DEF more

\* What a call to setHasFocus posts.
LEMMA SetHasFocusTells ==
  ASSUME NEW f, BooksOK(f), NEW ic \in InputContext, NEW has \in BOOLEAN, ~exiting
  PROVE  SetHasFocus(f, ic, has).events =
           IF f.has[ic] = has THEN f.events
           ELSE Append(f.events, IF has THEN Into(ic) ELSE Out(ic))
<1>1. f = [focus |-> f.focus, has |-> f.has, list |-> f.list,
           recent |-> f.recent, events |-> f.events]
  BY DEF BooksOK
<1>2. CASE f.has[ic] = has
  BY <1>2 DEF SetHasFocus
<1>3. CASE f.has[ic] # has /\ has = TRUE
  BY <1>1, <1>3 DEF SetHasFocus, NotifyFocus, Post, Into
<1>4. CASE f.has[ic] # has /\ has = FALSE
  BY <1>1, <1>4 DEF SetHasFocus, NotifyFocus, Post, Out
<1> QED BY <1>2, <1>3, <1>4

\* What a call to setFocusedInputContext posts: the old context hears of it
\* before the new one, and both before whoever watches the group.
LEMMA SetFocusedTells ==
  ASSUME IInv, ~exiting, NEW g \in FocusGroup, NEW ic \in InputContext \cup {None},
         ic # None => ic \in ics[g]
  PROVE  LET old == focus[g]
             changed == <<"FocusGroupFocusChanged", g>>
         IN  SetFocusedInputContext(Now, g, ic).events =
               CASE old = ic -> <<>>
                 [] old # ic /\ old = None -> <<Into(ic), changed>>
                 [] old # ic /\ ic = None -> <<Out(old), changed>>
                 [] OTHER -> <<Out(old), Into(ic), changed>>
<1> USE NoneAssumption, NowFacts
<1> DEFINE old == focus[g]
           changed == <<"FocusGroupFocusChanged", g>>
           left == IF old # None THEN SetHasFocus(Now, old, FALSE) ELSE Now
           moved == [left EXCEPT !.focus[g] = ic]
           taken == IF ic # None THEN SetHasFocus(moved, ic, TRUE) ELSE moved
           r == SetFocusedInputContext(Now, g, ic)
<1>1. /\ Now.focus = focus /\ Now.has = hasFocus /\ Now.events = <<>>
      /\ BooksOK(Now) /\ FocusOK(Now)
  BY DEF Now
<1>2. /\ old # None => old \in InputContext /\ hasFocus[old]
      /\ ic # None /\ ic # old => ic \in InputContext /\ ~hasFocus[ic]
  BY DEF IInv, TypeOK, FocusAgrees
<1>3. CASE old = ic
  BY <1>1, <1>3 DEF SetFocusedInputContext
<1>4. CASE old # ic
  <2>1. /\ BooksOK(left)
        /\ left.events = IF old = None THEN <<>> ELSE <<Out(old)>>
        /\ ic # None => ~left.has[ic]
    <3>1. CASE old = None
      BY <1>1, <1>2, <1>4, <3>1
    <3>2. CASE old # None
      <4>1. left = SetHasFocus(Now, old, FALSE) /\ old \in InputContext
        BY <1>2, <3>2
      <4> HIDE DEF left, old
      <4>2. BooksOK(left) /\ left.has = [hasFocus EXCEPT ![old] = FALSE]
        BY <1>1, <4>1, SetHasFocusFacts
      <4>3. left.events = Append(<<>>, Out(old))
        BY <1>1, <1>2, <3>2, <4>1, SetHasFocusTells
      <4>4. left.events = <<Out(old)>>
        BY <4>3
      <4>5. ic # None => ~left.has[ic]
        BY <1>2, <1>4, <4>2 DEF IInv, TypeOK
      <4> QED BY <3>2, <4>2, <4>4, <4>5
    <3> QED BY <3>1, <3>2
  <2>2. r = Post(taken, changed)
    BY <1>1, <1>4 DEF SetFocusedInputContext
  <2> HIDE DEF left
  <2>3. BooksOK(moved) /\ moved.events = left.events /\ moved.has = left.has
    <3> DEFINE there == [left.focus EXCEPT ![g] = ic]
    <3>1. there \in [FocusGroup -> InputContext \cup {None}]
      BY <2>1 DEF BooksOK
    <3>2. moved = [focus |-> there, has |-> left.has, list |-> left.list,
                   recent |-> left.recent, events |-> left.events]
      <4>1. left = [focus |-> left.focus, has |-> left.has, list |-> left.list,
                    recent |-> left.recent, events |-> left.events]
        BY <2>1 DEF BooksOK
      <4> HIDE DEF there
      <4>2. moved = [left EXCEPT !.focus = there]
        BY DEF there
      <4> HIDE DEF moved
      <4> QED BY <4>1, <4>2
    <3> HIDE DEF moved, there
    <3>3. /\ moved.focus = there /\ moved.has = left.has
          /\ moved.list = left.list /\ moved.recent = left.recent
          /\ moved.events = left.events
      BY <3>2
    <3> QED BY <2>1, <3>1, <3>2, <3>3 DEF BooksOK
  <2> HIDE DEF moved
  <2>4. /\ BooksOK(taken)
        /\ taken.events = IF ic = None THEN left.events
                          ELSE Append(left.events, Into(ic))
    <3>1. CASE ic = None
      BY <2>3, <3>1
    <3>2. CASE ic # None
      <4>1. taken = SetHasFocus(moved, ic, TRUE) /\ ic \in InputContext
            /\ moved.has[ic] # TRUE
        BY <2>1, <2>3, <3>2
      <4> HIDE DEF taken
      <4>2. BooksOK(taken)
        BY <2>3, <4>1, SetHasFocusFacts
      <4>3. taken.events = Append(moved.events, Into(ic))
        BY <2>3, <4>1, SetHasFocusTells
      <4> QED BY <2>3, <3>2, <4>2, <4>3
    <3> QED BY <3>1, <3>2
  <2> HIDE DEF taken
  <2>5. r.events = Append(taken.events, changed)
    BY <2>2, <2>4 DEF Post, BooksOK
  <2> DEFINE lost == Out(old)
             gained == Into(ic)
  <2> HIDE DEF r, changed, old, lost, gained
  <2>6. CASE old = None
    <3>1. r.events = <<gained, changed>>
      <4>1. taken.events = <<gained>>
        BY <1>4, <2>1, <2>4, <2>6 DEF gained
      <4> QED BY <4>1, <2>5, AppendToOne
    <3> QED BY <1>4, <2>6, <3>1 DEF r, changed, old, gained
  <2>7. CASE old # None /\ ic = None
    <3>1. r.events = <<lost, changed>>
      BY <2>1, <2>4, <2>5, <2>7, AppendToOne DEF lost
    <3> QED BY <1>4, <2>7, <3>1 DEF r, changed, old, lost
  <2>8. CASE old # None /\ ic # None
    <3>1. r.events = <<lost, gained, changed>>
      <4>1. taken.events = <<lost, gained>>
        BY <2>1, <2>4, <2>8, AppendToOne DEF lost, gained
      <4> QED BY <4>1, <2>5, AppendToTwo
    <3> QED BY <1>4, <2>8, <3>1 DEF r, changed, old, lost, gained
  <2> QED BY <2>6, <2>7, <2>8
<1> QED BY <1>3, <1>4

\* The call moves the focus from old to new, either of which may be None, and
\* tells so; nobody else of new's group has focus then.  A context that is
\* destroyed outside of every group loses it silently.
Moves(old, new) ==
  /\ old \in InputContext \cup {None} /\ new \in alive \cup {None}
  /\ Announces(posted', old, new)
  /\ old # None => hasFocus[old]
  /\ new # None => /\ ~hasFocus[new]
                   /\ \A g \in FocusGroup :
                        new \in ics[g] => focus[g] \in {old, None}
  /\ \A x \in InputContext :
       \/ hasFocus'[x] <=> x = new \/ (x # old /\ hasFocus[x])
       \/ x \notin alive' /\ group[x] = None /\ ~hasFocus'[x]

\* What focusOut and setFocusGroup post.
LEMMA DropFocusTells ==
  ASSUME IInv, ~exiting, NEW ic \in InputContext
  PROVE  DropFocus(Now, ic).events =
           CASE ~hasFocus[ic] -> <<>>
             [] hasFocus[ic] /\ group[ic] = None -> <<Out(ic)>>
             [] OTHER -> <<Out(ic), <<"FocusGroupFocusChanged", group[ic]>>>>
<1> USE NoneAssumption
<1>1. /\ Now.focus = focus /\ Now.has = hasFocus /\ Now.events = <<>>
      /\ BooksOK(Now)
  BY NowFacts DEF Now
<1>2. CASE group[ic] = None
  <2>1. DropFocus(Now, ic) = SetHasFocus(Now, ic, FALSE)
    BY <1>2 DEF DropFocus
  <2>2. SetHasFocus(Now, ic, FALSE).events
          = IF hasFocus[ic] = FALSE THEN <<>> ELSE Append(<<>>, Out(ic))
    BY <1>1, SetHasFocusTells
  <2>3. hasFocus[ic] \in BOOLEAN
    BY DEF IInv, TypeOK
  <2>4. CASE hasFocus[ic]
    <3>1. hasFocus[ic] # FALSE
      BY <2>4
    <3>2. SetHasFocus(Now, ic, FALSE).events = Append(<<>>, Out(ic))
      BY <2>2, <3>1
    <3>3. SetHasFocus(Now, ic, FALSE).events = <<Out(ic)>>
      BY <3>2, AppendToNone
    <3> QED BY <1>2, <2>1, <2>4, <3>3
  <2>5. CASE ~hasFocus[ic]
    BY <2>1, <2>2, <2>3, <2>5
  <2> QED BY <2>4, <2>5
<1>3. CASE group[ic] # None
  <2> DEFINE g == group[ic]
  <2>1. /\ g \in FocusGroup /\ hasFocus[ic] \in BOOLEAN
        /\ hasFocus[ic] <=> focus[g] = ic
    BY <1>3 DEF IInv, TypeOK, GroupsLinked, FocusAgrees
  <2>2. CASE focus[g] = ic
    <3>1. DropFocus(Now, ic) = SetFocusedInputContext(Now, g, None)
      BY <1>1, <1>3, <2>2 DEF DropFocus
    <3> DEFINE r == SetFocusedInputContext(Now, g, None)
               changed == <<"FocusGroupFocusChanged", g>>
    <3>2. r.events = CASE focus[g] = None -> <<>>
                       [] focus[g] # None /\ focus[g] = None -> <<Into(None), changed>>
                       [] focus[g] # None /\ None = None -> <<Out(focus[g]), changed>>
                       [] OTHER -> <<Out(focus[g]), Into(None), changed>>
      BY <2>1, SetFocusedTells
    <3> HIDE DEF r, g, changed
    <3>3. r.events = <<Out(ic), changed>>
      BY <2>2, <3>2
    <3> QED BY <1>3, <2>1, <2>2, <3>1, <3>3 DEF r, g, changed
  <2>3. CASE focus[g] # ic
    BY <1>1, <1>3, <2>1, <2>3 DEF DropFocus
  <2> QED BY <2>2, <2>3
<1> QED BY <1>2, <1>3

\* Each action moves the focus, if at all, from one context to one other.
LEMMA DropFocusMoves ==
  ASSUME IInv, ~exiting, NEW ic \in InputContext, Commit(DropFocus(Now, ic))
  PROVE  \E old \in InputContext \cup {None} : Moves(old, None)
<1> USE NoneAssumption
<1> DEFINE r == DropFocus(Now, ic)
           old == IF hasFocus[ic] THEN ic ELSE None
           g == group[ic]
<1>1. posted' = r.events /\ hasFocus' = r.has
  BY DEF Commit
<1>2. \A x \in InputContext : r.has[x] <=> x # ic /\ hasFocus[x]
  BY DropFocusFacts
<1>3. r.events = CASE ~hasFocus[ic] -> <<>>
                   [] hasFocus[ic] /\ g = None -> <<Out(ic)>>
                   [] OTHER -> <<Out(ic), <<"FocusGroupFocusChanged", g>>>>
  BY DropFocusTells
<1> HIDE DEF r, g
<1>4. r.events \in
        CASE old = None -> {<<>>}
          [] old # None -> {<<Out(old)>>, <<Out(old), <<"FocusGroupFocusChanged", g>>>>}
  <2>1. CASE ~hasFocus[ic]
    BY <1>3, <2>1
  <2>2. CASE hasFocus[ic] /\ g = None
    BY <1>3, <2>2
  <2>3. CASE hasFocus[ic] /\ g # None
    BY <1>3, <2>3
  <2> QED BY <2>1, <2>2, <2>3
<1>5. /\ old \in InputContext \cup {None}
      /\ old # None => hasFocus[old]
      /\ \A x \in InputContext : hasFocus'[x] <=> x # old /\ hasFocus[x]
  BY <1>1, <1>2
<1> HIDE DEF old
<1>6. Announces(r.events, old, None)
  <2>1. CASE old = None
    <3>1. r.events = <<>>
      BY <1>4, <2>1
    <3> QED BY <2>1, <3>1, EventsFacts
  <2>2. CASE old # None
    <3>1. r.events \in {<<Out(old)>>, <<Out(old), <<"FocusGroupFocusChanged", g>>>>}
      BY <1>4, <2>2
    <3> QED BY <1>5, <2>2, <3>1, EventsFacts
  <2> QED BY <2>1, <2>2
<1> QED BY <1>1, <1>5, <1>6 DEF Moves

\* Who has focus after a call to setFocusedInputContext.
LEMMA SetFocusedMoves ==
  ASSUME IInv, NEW g \in FocusGroup, NEW ic \in InputContext \cup {None},
         ic # None => ic \in ics[g]
  PROVE  \A x \in InputContext :
           SetFocusedInputContext(Now, g, ic).has[x]
             <=> x = ic \/ (x # focus[g] /\ hasFocus[x])
<1>1. /\ BooksOK(Now) /\ FocusOK(Now) /\ TypeOK /\ GroupsLinked
      /\ Now.has = hasFocus /\ Now.focus = focus
  BY NowFacts DEF IInv, Now
<1>2. HasMoved(Now, g, ic, SetFocusedInputContext(Now, g, ic))
  BY <1>1, SetFocusedFacts
<1> QED BY <1>1, <1>2 DEF HasMoved

LEMMA TakeFocusMoves ==
  ASSUME IInv, ~exiting, NEW ic \in alive, Commit(TakeFocus(Now, ic))
  PROVE  \E old \in InputContext \cup {None}, new \in alive \cup {None} :
           Moves(old, new)
<1> USE NoneAssumption
<1> DEFINE r == TakeFocus(Now, ic)
<1>1. posted' = r.events /\ hasFocus' = r.has
  BY DEF Commit
<1>2. /\ Now.focus = focus /\ Now.has = hasFocus /\ Now.events = <<>>
      /\ BooksOK(Now) /\ FocusOK(Now) /\ TypeOK /\ GroupsLinked
      /\ ic \in InputContext /\ hasFocus[ic] \in BOOLEAN
  BY NowFacts DEF Now, IInv, TypeOK
<1>3. CASE group[ic] = None
  <2>1. r = SetHasFocus(Now, ic, TRUE)
    BY <1>3 DEF TakeFocus
  <2> HIDE DEF r
  <2>2. r.has = [hasFocus EXCEPT ![ic] = TRUE]
    BY <1>2, <2>1, SetHasFocusFacts
  <2>3. r.events = IF hasFocus[ic] = TRUE THEN <<>> ELSE Append(<<>>, Into(ic))
    BY <1>2, <2>1, SetHasFocusTells
  <2>4. \A x \in InputContext : hasFocus'[x] <=> x = ic \/ hasFocus[x]
    BY <1>1, <1>2, <2>2 DEF TypeOK
  <2>5. CASE hasFocus[ic]
    <3>1. Announces(posted', None, None)
      BY <1>1, <2>3, <2>5, EventsFacts
    <3> QED BY <2>4, <2>5, <3>1 DEF Moves
  <2>6. CASE ~hasFocus[ic]
    <3>1. posted' = <<Into(ic)>>
      BY <1>1, <2>3, <2>6
    <3>2. Announces(posted', None, ic)
      BY <1>2, <3>1, EventsFacts
    <3>3. \A g \in FocusGroup : ic \notin ics[g]
      BY <1>2, <1>3 DEF GroupsLinked
    <3> QED BY <1>2, <2>4, <2>6, <3>2, <3>3 DEF Moves
  <2> QED BY <1>2, <2>5, <2>6
<1>4. CASE group[ic] # None
  <2> DEFINE g == group[ic]
             old == focus[g]
             changed == <<"FocusGroupFocusChanged", g>>
  <2>1. /\ g \in FocusGroup /\ ic \in ics[g]
        /\ old \in InputContext \cup {None}
        /\ old # None => hasFocus[old]
        /\ hasFocus[ic] <=> old = ic
        /\ \A h \in FocusGroup : ic \in ics[h] => h = g
    BY <1>4 DEF IInv, TypeOK, GroupsLinked, FocusAgrees
  <2>2. r = SetFocusedInputContext(Now, g, ic)
    BY <1>4 DEF TakeFocus
  <2>3. /\ r.events = CASE old = ic -> <<>>
                        [] old # ic /\ old = None -> <<Into(ic), changed>>
                        [] old # ic /\ ic = None -> <<Out(old), changed>>
                        [] OTHER -> <<Out(old), Into(ic), changed>>
        /\ \A x \in InputContext : r.has[x] <=> x = ic \/ (x # old /\ hasFocus[x])
    <3> HIDE DEF g, r
    <3>1. ic \in InputContext \cup {None} /\ (ic # None => ic \in ics[g])
      BY <1>2, <2>1
    <3>2. r.events = CASE old = ic -> <<>>
                       [] old # ic /\ old = None -> <<Into(ic), changed>>
                       [] old # ic /\ ic = None -> <<Out(old), changed>>
                       [] OTHER -> <<Out(old), Into(ic), changed>>
      BY <2>1, <2>2, <3>1, SetFocusedTells
    <3>3. \A x \in InputContext : r.has[x] <=> x = ic \/ (x # old /\ hasFocus[x])
      BY <2>1, <2>2, <3>1, SetFocusedMoves
    <3> QED BY <3>2, <3>3
  <2> HIDE DEF r, g, old
  <2>4. CASE old = ic
    <3>1. posted' = <<>>
      BY <1>1, <2>3, <2>4
    <3>2. Announces(posted', None, None)
      BY <3>1, EventsFacts
    <3> QED BY <1>1, <1>2, <2>1, <2>3, <2>4, <3>2 DEF Moves
  <2>5. CASE old # ic
    <3>1. Announces(posted', old, ic)
      <4>1. CASE old = None
        <5>1. posted' = <<Into(ic), changed>>
          BY <1>1, <2>3, <2>5, <4>1
        <5> QED BY <1>2, <4>1, <5>1, EventsFacts
      <4>2. CASE old # None
        <5>1. posted' = <<Out(old), Into(ic), changed>>
          BY <1>1, <1>2, <2>3, <2>5, <4>2
        <5> QED BY <1>2, <2>1, <2>5, <4>2, <5>1, EventsFacts
      <4> QED BY <4>1, <4>2
    <3>2. \A h \in FocusGroup : ic \in ics[h] => focus[h] \in {old, None}
      BY <2>1 DEF old
    <3> QED BY <1>1, <1>2, <2>1, <2>3, <2>5, <3>1, <3>2 DEF Moves
  <2> QED BY <2>4, <2>5
<1> QED BY <1>3, <1>4

LEMMA DestroyFocusGroupMoves ==
  ASSUME IInv, ~exiting, NEW g \in FocusGroup, DestroyFocusGroup(g)
  PROVE  \E old \in InputContext \cup {None} : Moves(old, None)
<1> USE NoneAssumption
<1> DEFINE r == SetFocusedInputContext(Now, g, None)
           old == focus[g]
           changed == <<"FocusGroupFocusChanged", g>>
<1>1. posted' = r.events /\ hasFocus' = r.has
  BY DEF DestroyFocusGroup, Commit
<1>3. /\ old \in InputContext \cup {None}
      /\ old # None => hasFocus[old]
  BY DEF IInv, TypeOK, FocusAgrees
<1>4. r.events = CASE old = None -> <<>>
                   [] old # None /\ old = None -> <<Into(None), changed>>
                   [] old # None /\ None = None -> <<Out(old), changed>>
                   [] OTHER -> <<Out(old), Into(None), changed>>
  BY SetFocusedTells
<1>5. \A x \in InputContext : r.has[x] <=> x = None \/ (x # old /\ hasFocus[x])
  BY SetFocusedMoves
<1> HIDE DEF r, old
<1>6. Announces(posted', old, None)
  <2>1. CASE old = None
    <3>1. posted' = <<>>
      BY <1>1, <1>4, <2>1
    <3> QED BY <2>1, <3>1, EventsFacts
  <2>2. CASE old # None
    <3>1. posted' = <<Out(old), changed>>
      BY <1>1, <1>4, <2>2
    <3> QED BY <1>3, <2>2, <3>1, EventsFacts
  <2> QED BY <2>1, <2>2
<1> QED BY <1>1, <1>3, <1>5, <1>6 DEF Moves

LEMMA DestroyMoves ==
  ASSUME IInv, ~exiting, NEW ic \in InputContext, Destroy(ic)
  PROVE  \E old \in {ic, None} : Moves(old, None)
<1> USE NoneAssumption
<1> DEFINE g == group[ic]
           named == g # None /\ focus[g] = ic
           left == IF g # None /\ focus[g] = ic
                   THEN SetFocusedInputContext(Now, g, None) ELSE Now
           gone == <<"InputContextDestroyed", ic>>
           changed == <<"FocusGroupFocusChanged", g>>
           told == Post(left, gone)
           old == IF named THEN ic ELSE None
<1>1. /\ posted' = told.events
      /\ hasFocus' = [told.has EXCEPT ![ic] = FALSE]
      /\ alive' = alive \ {ic}
  <2> DEFINE r == [told EXCEPT !.has[ic] = FALSE,
                              !.list = Unlink(@, ic),
                              !.recent = IF @ = ic THEN None ELSE @]
  <2>1. Commit(r) /\ alive' = alive \ {ic}
    BY DEF Destroy
  <2>2. BooksOK(left)
    <3>1. CASE named
      <4>1. left = DropFocus(Now, ic)
        BY <3>1 DEF DropFocus, Now
      <4> HIDE DEF left
      <4> QED BY <4>1, DropFocusFacts
    <3>2. CASE ~named
      BY <3>2, NowFacts
    <3> QED BY <3>1, <3>2
  <2> HIDE DEF left
  <2>3. left = [focus |-> left.focus, has |-> left.has, list |-> left.list,
                recent |-> left.recent, events |-> left.events]
    BY <2>2 DEF BooksOK
  <2> HIDE DEF gone
  <2>4. told = [focus |-> left.focus, has |-> left.has, list |-> left.list,
                recent |-> left.recent, events |-> Append(left.events, gone)]
    BY <2>3, PostFacts
  <2> HIDE DEF told
  <2>5. r.events = told.events /\ r.has = [told.has EXCEPT ![ic] = FALSE]
    BY <2>4
  <2> QED BY <2>1, <2>5 DEF Commit
<1>2. CASE named
  <2>1. left = DropFocus(Now, ic)
    BY <1>2 DEF DropFocus, Now
  <2>2. g \in FocusGroup /\ hasFocus[ic]
    BY <1>2 DEF IInv, TypeOK, FocusAgrees
  <2> HIDE DEF left
  <2>3. left.events = <<Out(ic), changed>>
    BY <1>2, <2>1, <2>2, DropFocusTells
  <2>4. BooksOK(left) /\ \A x \in InputContext : left.has[x] <=> x # ic /\ hasFocus[x]
    BY <2>1, DropFocusFacts
  <2>5. told.events = Append(left.events, gone) /\ told.has = left.has
    <3>1. left = [focus |-> left.focus, has |-> left.has, list |-> left.list,
                  recent |-> left.recent, events |-> left.events]
      BY <2>4 DEF BooksOK
    <3> HIDE DEF gone
    <3> QED BY <3>1, PostFacts
  <2> HIDE DEF told, changed, gone, g
  <2>6. posted' = <<Out(ic), changed, gone>>
    BY <1>1, <2>3, <2>5, AppendToTwo
  <2>7. Announces(posted', ic, None)
    BY <2>6, EventsFacts DEF changed, gone
  <2>8. \A x \in InputContext : hasFocus'[x] <=> x # ic /\ hasFocus[x]
    BY <1>1, <2>4, <2>5 DEF BooksOK
  <2> QED BY <2>2, <2>7, <2>8 DEF Moves
<1>3. CASE ~named
  <2>1. told.events = <<gone>> /\ told.has = hasFocus
    <3>1. /\ left = [focus |-> left.focus, has |-> left.has, list |-> left.list,
                     recent |-> left.recent, events |-> left.events]
          /\ left.events = <<>> /\ left.has = hasFocus
      BY <1>3 DEF Now
    <3> HIDE DEF gone, left
    <3>2. told.events = Append(<<>>, gone) /\ told.has = hasFocus
      BY <3>1, PostFacts
    <3> QED BY <3>2
  <2>2. Announces(posted', None, None)
    BY <1>1, <2>1, EventsFacts
  <2>3. \A x \in InputContext : hasFocus'[x] <=> x # ic /\ hasFocus[x]
    BY <1>1, <2>1 DEF IInv, TypeOK
  <2>4. hasFocus[ic] => g = None
    BY <1>3 DEF IInv, TypeOK, GroupsLinked, FocusAgrees
  <2> QED BY <1>1, <2>2, <2>3, <2>4 DEF Moves
<1> QED BY <1>2, <1>3

\* Every call moves the focus from one context at most to one at most, and its
\* events say so.
LEMMA NextMoves ==
  ASSUME IInv, ~exiting, Next
  PROVE  \E old \in InputContext \cup {None}, new \in alive \cup {None} :
           Moves(old, new)
<1> USE NoneAssumption
<1>1. ASSUME posted' = <<>>, hasFocus' = hasFocus
      PROVE  Moves(None, None)
  <2>1. Announces(posted', None, None)
    BY <1>1, EventsFacts
  <2> QED BY <1>1, <2>1 DEF Moves
<1>2. ASSUME NEW ic \in InputContext, Create(ic)
      PROVE  Moves(None, None)
  BY <1>1, <1>2 DEF Create
<1>3. ASSUME NEW g \in FocusGroup, CreateFocusGroup(g)
      PROVE  Moves(None, None)
  BY <1>1, <1>3 DEF CreateFocusGroup
<1>4. ASSUME NEW ic \in InputContext, Destroy(ic)
      PROVE  \E old \in InputContext \cup {None} : Moves(old, None)
  BY <1>4, DestroyMoves
<1>5. ASSUME NEW ic \in InputContext, FocusIn(ic)
      PROVE  \E old \in InputContext \cup {None}, new \in alive \cup {None} :
               Moves(old, new)
  BY <1>5, TakeFocusMoves DEF FocusIn
<1>6. ASSUME NEW ic \in InputContext, FocusOut(ic)
      PROVE  \E old \in InputContext \cup {None} : Moves(old, None)
  BY <1>6, DropFocusMoves DEF FocusOut
<1>7. ASSUME NEW ic \in InputContext, NEW g \in FocusGroup \cup {None},
             SetFocusGroup(ic, g)
      PROVE  \E old \in InputContext \cup {None} : Moves(old, None)
  BY <1>7, DropFocusMoves DEF SetFocusGroup
<1>8. ASSUME NEW g \in FocusGroup, DestroyFocusGroup(g)
      PROVE  \E old \in InputContext \cup {None} : Moves(old, None)
  BY <1>8, DestroyFocusGroupMoves
<1> QED BY <1>2, <1>3, <1>4, <1>5, <1>6, <1>7, <1>8 DEF Next

-----------------------------------------------------------------------------
(* The two action properties. *)

\* What the first n events of a call say of the focus of x.
LEMMA ReplayFacts ==
  ASSUME NEW old, NEW new, Moves(old, new), TypeOK,
         NEW n \in 0..Len(posted'), NEW x \in InputContext
  PROVE  /\ (\E i \in 1..n : posted'[i] = Into(x)) => Replay(n)[x] = TRUE
         /\ (\E i \in 1..n : posted'[i] = Out(x)) => Replay(n)[x] = FALSE
         /\ ~(\E i \in 1..n : posted'[i] \in {Into(x), Out(x)})
              => Replay(n)[x] = hasFocus[x]
<1> DEFINE said == {i \in 1..n : posted'[i] \in {Into(x), Out(x)}}
           last == CHOOSE i \in said : \A j \in said : j <= i
<1>1. Replay(n)[x] = IF said = {} THEN hasFocus[x] ELSE posted'[last][1] = "FocusIn"
  BY DEF Replay, Into, Out
<1>2. /\ 1..n \subseteq DOMAIN posted'
      /\ \A i, j \in said : i = j
  BY DEF Moves, Announces
<1>3. ASSUME NEW i \in said PROVE last = i
  <2>1. \A j \in said : j <= i
    BY <1>2, <1>3
  <2>2. last \in said
    BY <2>1
  <2> HIDE DEF said, last
  <2> QED BY <1>2, <1>3, <2>2
<1> HIDE DEF last
<1>4. ASSUME NEW i \in 1..n, posted'[i] = Into(x) PROVE Replay(n)[x] = TRUE
  <2>1. i \in said
    BY <1>4
  <2>2. posted'[last] = Into(x) /\ said # {}
    BY <1>3, <1>4, <2>1
  <2> HIDE DEF said
  <2>3. posted'[last][1] = "FocusIn"
    BY <2>2 DEF Into
  <2> QED BY <1>1, <2>2, <2>3
<1>5. ASSUME NEW i \in 1..n, posted'[i] = Out(x) PROVE Replay(n)[x] = FALSE
  <2>1. i \in said
    BY <1>5
  <2>2. posted'[last] = Out(x) /\ said # {}
    BY <1>3, <1>5, <2>1
  <2> HIDE DEF said
  <2>3. posted'[last][1] # "FocusIn"
    BY <2>2 DEF Out
  <2> QED BY <1>1, <2>2, <2>3
<1>6. ASSUME ~(\E i \in 1..n : posted'[i] \in {Into(x), Out(x)})
      PROVE  Replay(n)[x] = hasFocus[x]
  <2>1. said = {}
    BY <1>6
  <2> HIDE DEF said
  <2> QED BY <1>1, <2>1
<1> QED BY <1>4, <1>5, <1>6

\* The action that EventsTellFocus says every step is.
TellsFocus ==
  ~exiting =>
    /\ \A ic \in InputContext :
         \/ Replay(Len(posted'))[ic] = hasFocus'[ic]
         \/ ic \notin alive' /\ group[ic] = None
    /\ \A n \in 0..Len(posted'), g \in FocusGroup :
         \A ic, jc \in ics[g] :
           Replay(n)[ic] /\ Replay(n)[jc] => ic = jc

LEMMA StepTellsFocus ==
  ASSUME IInv, IInv', Next
  PROVE  TellsFocus
<1> SUFFICES ASSUME ~exiting PROVE TellsFocus
  BY DEF TellsFocus
<1> USE NoneAssumption
<1>1. PICK old \in InputContext \cup {None}, new \in alive \cup {None} :
        Moves(old, new)
  BY NextMoves
<1>2. /\ new \in InputContext \cup {None}
      /\ new # None => ~hasFocus[new]
      /\ old # None => hasFocus[old]
      /\ Len(posted') \in Nat /\ DOMAIN posted' = 1..Len(posted')
      /\ \A x \in InputContext :
           /\ x = old <=> \E i \in 1..Len(posted') : posted'[i] = Out(x)
           /\ x = new <=> \E i \in 1..Len(posted') : posted'[i] = Into(x)
      /\ \A i, j \in 1..Len(posted') : \A x, y \in InputContext :
           posted'[i] = Out(x) /\ posted'[j] = Into(y) => i < j
      /\ TypeOK
  BY <1>1 DEF Moves, Announces, IInv, TypeOK
<1>3. ASSUME NEW ic \in InputContext
      PROVE  \/ Replay(Len(posted'))[ic] = hasFocus'[ic]
             \/ ic \notin alive' /\ group[ic] = None
  <2> DEFINE n == Len(posted')
  <2>1. n \in 0..n
    BY <1>2
  <2>2. CASE ic = new
    <3>1. Replay(n)[ic] = TRUE
      BY <1>1, <1>2, <2>1, <2>2, ReplayFacts
    <3>2. hasFocus'[ic] \in BOOLEAN
      BY DEF IInv, TypeOK
    <3> QED BY <1>1, <1>2, <2>2, <3>1, <3>2 DEF Moves
  <2>3. CASE ic = old /\ ic # new
    <3>1. Replay(n)[ic] = FALSE
      BY <1>1, <1>2, <2>1, <2>3, ReplayFacts
    <3>2. hasFocus'[ic] \in BOOLEAN
      BY DEF IInv, TypeOK
    <3> QED BY <1>1, <1>2, <2>3, <3>1, <3>2 DEF Moves
  <2>4. CASE ic # old /\ ic # new
    <3>1. Replay(n)[ic] = hasFocus[ic]
      BY <1>1, <1>2, <2>1, <2>4, ReplayFacts
    <3>2. hasFocus[ic] \in BOOLEAN /\ hasFocus'[ic] \in BOOLEAN
      BY DEF IInv, TypeOK
    <3> QED BY <1>1, <2>4, <3>1, <3>2 DEF Moves
  <2> QED BY <2>2, <2>3, <2>4
<1>4. ASSUME NEW n \in 0..Len(posted'), NEW g \in FocusGroup,
             NEW ic \in ics[g], NEW jc \in ics[g],
             Replay(n)[ic], Replay(n)[jc]
      PROVE  ic = jc
  <2>1. /\ ics[g] \subseteq InputContext /\ 1..n \subseteq 1..Len(posted')
        /\ \A x \in ics[g] : hasFocus[x] => focus[g] = x
    BY <1>2 DEF IInv, TypeOK, FocusAgrees
  <2>2. ASSUME NEW x \in ics[g], Replay(n)[x]
        PROVE  \/ x # new /\ focus[g] = x
               \/ x = new /\ \E i \in 1..n : posted'[i] = Into(x)
    <3>1. CASE \E i \in 1..n : posted'[i] = Into(x)
      <4>1. x = new
        BY <1>2, <2>1, <3>1
      <4> QED BY <3>1, <4>1
    <3>2. CASE ~\E i \in 1..n : posted'[i] = Into(x)
      <4>1. ~\E i \in 1..n : posted'[i] = Out(x)
        BY <1>1, <1>2, <2>1, <2>2, ReplayFacts
      <4>2. Replay(n)[x] = hasFocus[x]
        BY <1>1, <1>2, <2>1, <3>2, <4>1, ReplayFacts
      <4> QED BY <1>2, <2>1, <2>2, <4>2
    <3> QED BY <3>1, <3>2
  <2>3. ASSUME NEW x \in ics[g], NEW y \in ics[g],
               Replay(n)[x], Replay(n)[y], x = new, y # new
        PROVE  FALSE
    <3>1. PICK i \in 1..n : posted'[i] = Into(x)
      BY <2>2, <2>3
    <3>2. focus[g] = y /\ y # None
      BY <2>1, <2>2, <2>3
    <3>3. old = y
      BY <1>1, <2>1, <2>3, <3>2 DEF Moves
    <3>4. PICK j \in 1..Len(posted') : posted'[j] = Out(y)
      BY <1>2, <2>1, <3>3
    <3>5. j < i
      BY <1>2, <2>1, <3>1, <3>4
    <3>6. j \in 1..n
      BY <1>2, <3>5
    <3>7. ~Replay(n)[y]
      BY <1>1, <1>2, <2>1, <3>4, <3>6, ReplayFacts
    <3> QED BY <2>3, <3>7
  <2> QED BY <1>4, <2>2, <2>3
<1> QED BY <1>3, <1>4 DEF TellsFocus

\* Engines are activated and deactivated by the events, so what they say has to
\* lead from the focus before a call to the focus after it, at any time with one
\* focused context in a group: setFocusedInputContext's order of calls does.
THEOREM EventsAreTheFocus == Spec => EventsTellFocus
<1>1. IInv /\ IInv' /\ [Next]_vars => [TellsFocus]_vars
  BY StepTellsFocus
<1>2. [][TellsFocus]_vars <=> EventsTellFocus
  BY DEF EventsTellFocus, TellsFocus
<1>3. Spec => [][TellsFocus]_vars
  BY <1>1, InvariantHolds, PTL DEF Spec
<1> QED BY <1>2, <1>3, PTL

\* Whom mostRecentInputContext would answer in the middle of a call.
Latest(f) == IF f.list = <<>> THEN f.recent ELSE Head(f.list)

\* Between f and r nobody but ic left the list, and whoever was used last still
\* was, unless it was ic and others have focus.
StaysLatest(f, r, ic) ==
  \/ Latest(r) = Latest(f)
  \/ Latest(f) = ic /\ r.list # <<>>

\* Unlinking another context leaves the head of the list.
LEMMA UnlinkHead ==
  ASSUME NEW list \in Seq(InputContext), list # <<>>,
         NEW ic \in InputContext, Head(list) # ic
  PROVE  Unlink(list, ic) # <<>> /\ Head(Unlink(list, ic)) = Head(list)
<1>1. CASE ~In(ic, list)
  BY <1>1 DEF Unlink, In
<1>2. CASE In(ic, list)
  <2> DEFINE k == CHOOSE i \in DOMAIN list : list[i] = ic
             front == SubSeq(list, 1, k - 1)
             back == SubSeq(list, k + 1, Len(list))
  <2>1. k \in 1..Len(list) /\ list[k] = ic /\ Len(list) \in Nat
    BY <1>2 DEF In
  <2>2. Unlink(list, ic) = front \o back
    BY <1>2 DEF Unlink, In, RemoveAt
  <2> HIDE DEF k
  <2>3. k # 1
    BY <2>1
  <2>4. front \in Seq(InputContext) /\ Len(front) = k - 1 /\ front[1] = list[1]
    BY <2>1, <2>3
  <2>5. back \in Seq(InputContext) /\ Len(back) \in Nat
    BY <2>1
  <2> HIDE DEF front, back
  <2>6. /\ front \o back \in Seq(InputContext)
        /\ Len(front \o back) = Len(front) + Len(back)
        /\ (front \o back)[1] = front[1]
    <3>1. /\ front \o back \in Seq(InputContext)
          /\ Len(front \o back) = Len(front) + Len(back)
      BY <2>4, <2>5, ConcatProperties
    <3>2. 1 \in 1..Len(front)
      BY <2>1, <2>3, <2>4
    <3>3. (front \o back)[1] = front[1]
      BY <2>4, <2>5, <3>2
    <3> QED BY <3>1, <3>3
  <2>7. front \o back # <<>> /\ Head(front \o back) = list[1]
    BY <2>1, <2>3, <2>4, <2>5, <2>6
  <2> QED BY <2>2, <2>7
<1> QED BY <1>1, <1>2

\* A context that loses focus is remembered if it was the last one to have it.
LEMMA SetHasFocusStays ==
  ASSUME NEW f, BooksOK(f), NEW ic \in InputContext
  PROVE  StaysLatest(f, SetHasFocus(f, ic, FALSE), ic)
<1> DEFINE r == SetHasFocus(f, ic, FALSE)
           rest == Unlink(f.list, ic)
<1>1. CASE f.has[ic] = FALSE
  BY <1>1 DEF SetHasFocus, StaysLatest
<1>2. CASE f.has[ic] # FALSE
  <2>1. /\ f = [focus |-> f.focus, has |-> f.has, list |-> f.list,
                recent |-> f.recent, events |-> f.events]
        /\ f.list \in Seq(InputContext) /\ In(ic, f.list)
    BY <1>2 DEF BooksOK
  <2>2. f.list # <<>>
    BY <2>1 DEF In
  <2>3. /\ r.list = rest
        /\ r.recent = IF rest = <<>> THEN ic ELSE f.recent
    BY <1>2, <2>1 DEF SetHasFocus, NotifyFocus, Post
  <2> HIDE DEF r
  <2> SUFFICES StaysLatest(f, r, ic)
    BY DEF r
  <2>4. CASE Head(f.list) = ic
    BY <2>2, <2>3, <2>4 DEF StaysLatest, Latest
  <2>5. CASE Head(f.list) # ic
    <3>1. rest # <<>> /\ Head(rest) = Head(f.list)
      BY <2>1, <2>2, <2>5, UnlinkHead
    <3> QED BY <2>2, <2>3, <3>1 DEF StaysLatest, Latest
  <2> QED BY <2>4, <2>5
<1> QED BY <1>1, <1>2

LEMMA SetFocusedStays ==
  ASSUME IInv, NEW g \in FocusGroup
  PROVE  StaysLatest(Now, SetFocusedInputContext(Now, g, None), focus[g])
<1> USE NoneAssumption
<1> DEFINE r == SetFocusedInputContext(Now, g, None)
           old == focus[g]
           left == SetHasFocus(Now, old, FALSE)
           moved == [left EXCEPT !.focus[g] = None]
<1>1. Now.focus = focus /\ BooksOK(Now)
  BY NowFacts DEF Now
<1>2. CASE old = None
  BY <1>1, <1>2 DEF SetFocusedInputContext, StaysLatest
<1>3. CASE old # None
  <2>1. old \in InputContext
    BY <1>3 DEF IInv, TypeOK
  <2>2. r = Post(moved, <<"FocusGroupFocusChanged", g>>)
    BY <1>1, <1>3 DEF SetFocusedInputContext
  <2> HIDE DEF left, old
  <2>3. BooksOK(left) /\ StaysLatest(Now, left, old)
    BY <1>1, <2>1, SetHasFocusFacts, SetHasFocusStays DEF left
  <2>4. left = [focus |-> left.focus, has |-> left.has, list |-> left.list,
                recent |-> left.recent, events |-> left.events]
    BY <2>3 DEF BooksOK
  <2>5. moved.list = left.list /\ moved.recent = left.recent
    BY <2>4
  <2>6. moved = [focus |-> moved.focus, has |-> moved.has, list |-> moved.list,
                 recent |-> moved.recent, events |-> moved.events]
    BY <2>4
  <2> HIDE DEF moved
  <2>7. r.list = moved.list /\ r.recent = moved.recent
    BY <2>2, <2>6 DEF Post
  <2> HIDE DEF r
  <2>8. StaysLatest(Now, r, old)
    BY <2>3, <2>5, <2>7 DEF StaysLatest, Latest
  <2> QED BY <2>8 DEF r, old
<1> QED BY <1>2, <1>3

LEMMA DropFocusStays ==
  ASSUME IInv, NEW ic \in InputContext
  PROVE  StaysLatest(Now, DropFocus(Now, ic), ic)
<1>1. Now.focus = focus /\ BooksOK(Now)
  BY NowFacts DEF Now
<1>2. CASE group[ic] = None
  BY <1>1, <1>2, SetHasFocusStays DEF DropFocus
<1>3. CASE group[ic] # None /\ focus[group[ic]] = ic
  <2>1. group[ic] \in FocusGroup
    BY <1>3 DEF IInv, TypeOK
  <2>2. StaysLatest(Now, SetFocusedInputContext(Now, group[ic], None), ic)
    BY <1>3, <2>1, SetFocusedStays
  <2> QED BY <1>1, <1>3, <2>2 DEF DropFocus
<1>4. CASE group[ic] # None /\ focus[group[ic]] # ic
  BY <1>1, <1>4 DEF DropFocus, StaysLatest
<1> QED BY <1>2, <1>3, <1>4

\* The action that MostRecentStable says every step is.
KeepsMostRecent ==
  MostRecentInputContext' # MostRecentInputContext =>
    \/ \E ic \in InputContext : ~hasFocus[ic] /\ hasFocus'[ic]
    \/ MostRecentInputContext \notin alive'
    \/ ~hasFocus'[MostRecentInputContext] /\ focused' # <<>>

\* A call that takes the focus from ic keeps the promise.
LEMMA LosingKeepsMostRecent ==
  ASSUME NEW r, NEW ic, Commit(r), StaysLatest(Now, r, ic),
         ic \in InputContext => ~r.has[ic],
         MostRecentInputContext \in alive' => MostRecentInputContext \in InputContext
  PROVE  KeepsMostRecent
<1>1. MostRecentInputContext = Latest(Now) /\ MostRecentInputContext' = Latest(r)
  BY DEF MostRecentInputContext, Latest, Now, Commit
<1> QED BY <1>1 DEF KeepsMostRecent, StaysLatest, Commit

LEMMA StepKeepsMostRecent ==
  ASSUME IInv, Next
  PROVE  KeepsMostRecent
<1> USE NoneAssumption
<1>1. /\ MostRecentInputContext = Latest(Now) /\ TypeOK
      /\ Now.has = hasFocus /\ Now.focus = focus /\ BooksOK(Now)
  BY NowFacts DEF MostRecentInputContext, Latest, Now, IInv
<1>2. ASSUME UNCHANGED <<focused, recent>> PROVE KeepsMostRecent
  BY <1>2 DEF KeepsMostRecent, MostRecentInputContext
<1>3. ASSUME NEW ic \in InputContext, FocusIn(ic) PROVE KeepsMostRecent
  <2>1. CASE hasFocus[ic]
    <3>1. TakeFocus(Now, ic) = Now
      <4>1. CASE group[ic] = None
        BY <1>1, <2>1, <4>1 DEF TakeFocus, SetHasFocus, TypeOK
      <4>2. CASE group[ic] # None
        <5>1. group[ic] \in FocusGroup /\ focus[group[ic]] = ic
          BY <2>1, <4>2 DEF IInv, TypeOK, GroupsLinked, FocusAgrees
        <5> QED BY <1>1, <4>2, <5>1 DEF TakeFocus, SetFocusedInputContext
      <4> QED BY <4>1, <4>2
    <3>2. UNCHANGED <<focused, recent>>
      BY <1>3, <3>1 DEF FocusIn, Commit, Now
    <3> QED BY <1>2, <3>2
  <2>2. CASE ~hasFocus[ic]
    <3>1. hasFocus'[ic]
      BY <1>3, TakeFocusFacts DEF FocusIn, Commit
    <3> QED BY <2>2, <3>1 DEF KeepsMostRecent
  <2> QED BY <2>1, <2>2
<1>4. /\ alive \subseteq InputContext
      /\ MostRecentInputContext \in InputContext \cup {None}
  <2>1. focused # <<>> => Head(focused) \in InputContext
    BY <1>1 DEF TypeOK
  <2> QED BY <1>1, <2>1 DEF TypeOK, MostRecentInputContext
<1>5. ASSUME NEW ic \in InputContext, Commit(DropFocus(Now, ic)), alive' = alive
      PROVE  KeepsMostRecent
  <2>1. StaysLatest(Now, DropFocus(Now, ic), ic) /\ ~DropFocus(Now, ic).has[ic]
    BY DropFocusStays, DropFocusFacts
  <2> QED BY <1>4, <1>5, <2>1, LosingKeepsMostRecent
<1>6. ASSUME NEW g \in FocusGroup, DestroyFocusGroup(g) PROVE KeepsMostRecent
  <2> DEFINE r == SetFocusedInputContext(Now, g, None)
  <2>1. Commit(r) /\ alive' = alive
    BY <1>6 DEF DestroyFocusGroup
  <2>2. StaysLatest(Now, r, focus[g])
    BY SetFocusedStays
  <2>3. focus[g] \in InputContext => ~r.has[focus[g]]
    BY SetFocusedMoves
  <2> HIDE DEF r
  <2> QED BY <1>4, <2>1, <2>2, <2>3, LosingKeepsMostRecent
<1>7. ASSUME NEW ic \in InputContext, Destroy(ic) PROVE KeepsMostRecent
  <2> DEFINE g == group[ic]
             left == IF g # None /\ focus[g] = ic
                     THEN SetFocusedInputContext(Now, g, None) ELSE Now
             told == Post(left, <<"InputContextDestroyed", ic>>)
             r == [told EXCEPT !.has[ic] = FALSE,
                               !.list = Unlink(@, ic),
                               !.recent = IF @ = ic THEN None ELSE @]
  <2>1. Commit(r) /\ alive' = alive \ {ic}
    BY <1>7 DEF Destroy
  <2>2. BooksOK(left) /\ StaysLatest(Now, left, ic)
    <3>1. CASE g # None /\ focus[g] = ic
      <4>1. left = DropFocus(Now, ic)
        BY <3>1 DEF DropFocus, Now
      <4> HIDE DEF left
      <4> QED BY <4>1, DropFocusFacts, DropFocusStays
    <3>2. CASE ~(g # None /\ focus[g] = ic)
      BY <1>1, <3>2 DEF StaysLatest
    <3> QED BY <3>1, <3>2
  <2> HIDE DEF left
  <2>3. left = [focus |-> left.focus, has |-> left.has, list |-> left.list,
                recent |-> left.recent, events |-> left.events]
    BY <2>2 DEF BooksOK
  <2>4. told = [focus |-> left.focus, has |-> left.has, list |-> left.list,
                recent |-> left.recent, events |-> told.events]
    <3>1. CASE exiting
      BY <2>3, <3>1 DEF Post
    <3>2. CASE ~exiting
      <4> DEFINE gone == <<"InputContextDestroyed", ic>>
      <4> HIDE DEF gone
      <4>1. Post(left, gone) = [focus |-> left.focus, has |-> left.has,
                                list |-> left.list, recent |-> left.recent,
                                events |-> Append(left.events, gone)]
        BY <2>3, <3>2, PostFacts
      <4>2. told = Post(left, gone)
        BY DEF gone
      <4> HIDE DEF told
      <4> QED BY <4>1, <4>2
    <3> QED BY <3>1, <3>2
  <2> HIDE DEF told
  <2>5. /\ r.list = Unlink(left.list, ic)
        /\ r.recent = IF left.recent = ic THEN None ELSE left.recent
    BY <2>4
  <2> HIDE DEF r
  <2>6. CASE MostRecentInputContext = ic
    BY <2>1, <2>6 DEF KeepsMostRecent
  <2>7. CASE MostRecentInputContext # ic
    <3>1. Latest(left) = Latest(Now) /\ Latest(left) # ic
      BY <1>1, <2>2, <2>7 DEF StaysLatest
    <3>2. Latest(r) = Latest(left)
      <4>1. CASE left.list = <<>>
        <5>1. Unlink(left.list, ic) = <<>>
          BY <4>1 DEF Unlink
        <5> QED BY <2>5, <3>1, <4>1, <5>1 DEF Latest
      <4>2. CASE left.list # <<>>
        <5>1. Unlink(left.list, ic) # <<>>
              /\ Head(Unlink(left.list, ic)) = Head(left.list)
          BY <2>2, <3>1, <4>2, UnlinkHead DEF BooksOK, Latest
        <5> QED BY <2>5, <4>2, <5>1 DEF Latest
      <4> QED BY <4>1, <4>2
    <3>3. MostRecentInputContext' = Latest(r)
      BY <2>1 DEF MostRecentInputContext, Latest, Commit
    <3> QED BY <1>1, <3>1, <3>2, <3>3 DEF KeepsMostRecent
  <2> QED BY <2>6, <2>7
<1>8. ASSUME NEW ic \in InputContext, Create(ic) PROVE KeepsMostRecent
  BY <1>2, <1>8 DEF Create
<1>9. ASSUME NEW g \in FocusGroup, CreateFocusGroup(g) PROVE KeepsMostRecent
  BY <1>2, <1>9 DEF CreateFocusGroup
<1>10. ASSUME NEW ic \in InputContext, FocusOut(ic) PROVE KeepsMostRecent
  BY <1>5, <1>10 DEF FocusOut
<1>11. ASSUME NEW ic \in InputContext, NEW g \in FocusGroup \cup {None},
              SetFocusGroup(ic, g)
       PROVE  KeepsMostRecent
  BY <1>5, <1>11 DEF SetFocusGroup
<1> QED BY <1>3, <1>6, <1>7, <1>8, <1>9, <1>10, <1>11 DEF Next

\* Whoever was used last is remembered when all focus is lost, and answered until
\* another context gains focus or it goes away: notifyFocus and the weak reference
\* work together over every order of calls.
THEOREM LastUsedIsRemembered == Spec => MostRecentStable
<1>1. IInv /\ [Next]_vars => [KeepsMostRecent]_vars
  BY StepKeepsMostRecent
<1>2. [][KeepsMostRecent]_vars <=> MostRecentStable
  BY DEF MostRecentStable, KeepsMostRecent
<1>3. Spec => [][KeepsMostRecent]_vars
  BY <1>1, InvariantHolds, PTL DEF Spec
<1> QED BY <1>2, <1>3, PTL

=============================================================================
