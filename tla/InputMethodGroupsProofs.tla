----------------------- MODULE InputMethodGroupsProofs -----------------------
(***************************************************************************)
(* What InputMethodGroups promises, for all groups, input methods, layouts *)
(* and profiles.                                                           *)
(*                                                                         *)
(* The inductive invariant says that the groups and the profile are typed, *)
(* that every default is the one setDefaultInputMethod would choose again, *)
(* and that the order names each group once.  What loadConfig reads is     *)
(* followed section by section, with the least section that goes wrong.    *)
(***************************************************************************)
EXTENDS InputMethodGroups, FilterProofs, FiniteSetTheorems

USE NoneAssumption, KeyboardAssumption

(***************************************************************************)
(* Defaults.                                                               *)
(***************************************************************************)

\* The default d may be that of the list.
Fits(list, d) ==
  IF list = <<>> THEN d = None
  ELSE /\ d \in Items(list)
       /\ Len(list) > 1 /\ list[1] # list[2] => d # list[1]

\* setDefaultInputMethod chooses a default that fits, and keeps one that does.
LEMMA NormalizedFits ==
  ASSUME NEW S, NEW list \in Seq(S), NEW im
  PROVE  Fits(list, Normalized(list, im))
<1>1. Len(list) \in Nat /\ DOMAIN list = 1..Len(list) /\ (list = <<>> <=> Len(list) = 0)
  BY EmptySeq
<1>2. CASE \E i \in DOMAIN list : list[i] = im /\ (Len(list) > 1 => list[1] # im)
  <2>1. Normalized(list, im) = im
    BY <1>2 DEF Normalized
  <2> QED BY <1>1, <1>2, <2>1 DEF Fits, Items
<1>3. CASE ~ \E i \in DOMAIN list : list[i] = im /\ (Len(list) > 1 => list[1] # im)
  <2>1. Normalized(list, im) = IF Len(list) > 1 THEN list[2]
                               ELSE IF list = <<>> THEN None ELSE list[1]
    BY <1>3 DEF Normalized
  <2>2. Len(list) > 1 => 2 \in 1..Len(list)
    BY <1>1
  <2>3. list # <<>> => 1 \in 1..Len(list)
    BY <1>1
  <2> QED BY <1>1, <2>1, <2>2, <2>3 DEF Fits, Items
<1> QED BY <1>2, <1>3

LEMMA FittingIsNormalized ==
  ASSUME NEW S, NEW list \in Seq(S), NEW d, Fits(list, d)
  PROVE  Normalized(list, d) = d
<1>1. Len(list) \in Nat /\ DOMAIN list = 1..Len(list) /\ (list = <<>> <=> Len(list) = 0)
  BY EmptySeq
<1>2. CASE list = <<>>
  BY <1>1, <1>2 DEF Fits, Normalized
<1>3. CASE list # <<>> /\ (Len(list) > 1 => list[1] # d)
  BY <1>1, <1>3 DEF Fits, Normalized, Items
<1>4. CASE list # <<>> /\ Len(list) > 1 /\ list[1] = d
  BY <1>1, <1>4 DEF Fits, Normalized, Items
<1> QED BY <1>2, <1>3, <1>4

(***************************************************************************)
(* Groups and their order.                                                 *)
(***************************************************************************)

Group(known) ==
  [list : Seq(known), default : known \cup {None}, layout : Keyboard \cup {None}]

\* What groups_ may be.
GroupMaps(known) == UNION {[names -> Group(known)] : names \in SUBSET GroupName}

FitGroup(g) == Fits(g.list, g.default)
AllFit(gs) == \A name \in DOMAIN gs : FitGroup(gs[name])

\* The order names each group once, and there is one.
Orders1(gs, order) ==
  order \in Seq(GroupName) /\ order # <<>> /\ Once(order) /\ Items(order) = DOMAIN gs

LEMMA GroupMapsFacts ==
  ASSUME NEW known, NEW gs
  PROVE  gs \in GroupMaps(known) <=>
           /\ gs \in [DOMAIN gs -> Group(known)]
           /\ DOMAIN gs \subseteq GroupName
BY DEF GroupMaps

\* A group with a list and a default that setDefaultInputMethod chose for it.
LEMMA NormalizedGroup ==
  ASSUME NEW known, NEW list \in Seq(known), NEW im, NEW layout \in Keyboard \cup {None}
  PROVE  /\ [list |-> list, default |-> Normalized(list, im), layout |-> layout] \in Group(known)
         /\ Fits(list, Normalized(list, im))
<1>1. Fits(list, Normalized(list, im))
  BY NormalizedFits
<1>2. Items(list) \subseteq known
  BY DEF Items
<1>3. Normalized(list, im) \in known \cup {None}
  BY <1>1, <1>2 DEF Fits
<1> QED BY <1>1, <1>3 DEF Group

\* gs has become new, with the groups of names and no others.
Becomes(new, names, known) ==
  new \in GroupMaps(known) /\ AllFit(new) /\ DOMAIN new = names

LEMMA WithGroupFacts ==
  ASSUME NEW known, NEW gs \in GroupMaps(known), AllFit(gs),
         NEW name \in GroupName, NEW g \in Group(known), FitGroup(g)
  PROVE  Becomes(WithGroup(gs, name, g), DOMAIN gs \cup {name}, known)
<1> DEFINE new == WithGroup(gs, name, g)
<1>1. gs \in [DOMAIN gs -> Group(known)] /\ DOMAIN gs \subseteq GroupName
  BY GroupMapsFacts
<1>2. DOMAIN new = DOMAIN gs \cup {name}
  BY DEF WithGroup
<1>3. \A n \in DOMAIN new : new[n] = IF n = name THEN g ELSE gs[n]
  BY DEF WithGroup
<1>4. new \in [DOMAIN new -> Group(known)]
  BY <1>1 DEF WithGroup
<1> HIDE DEF new
<1>5. new \in GroupMaps(known)
  BY <1>1, <1>2, <1>4, GroupMapsFacts
<1>6. AllFit(new)
  BY <1>2, <1>3 DEF AllFit
<1> QED BY <1>2, <1>5, <1>6 DEF new, Becomes

LEMMA WithoutGroupFacts ==
  ASSUME NEW known, NEW gs \in GroupMaps(known), AllFit(gs), NEW name
  PROVE  Becomes(WithoutGroup(gs, name), DOMAIN gs \ {name}, known)
<1> DEFINE new == WithoutGroup(gs, name)
<1>1. gs \in [DOMAIN gs -> Group(known)] /\ DOMAIN gs \subseteq GroupName
  BY GroupMapsFacts
<1>2. DOMAIN new = DOMAIN gs \ {name}
  BY DEF WithoutGroup
<1>3. \A n \in DOMAIN new : new[n] = gs[n]
  BY DEF WithoutGroup
<1>4. new \in [DOMAIN new -> Group(known)]
  BY <1>1 DEF WithoutGroup
<1> HIDE DEF new
<1>5. new \in GroupMaps(known)
  BY <1>1, <1>2, <1>4, GroupMapsFacts
<1>6. AllFit(new)
  BY <1>2, <1>3 DEF AllFit
<1> QED BY <1>2, <1>5, <1>6 DEF new, Becomes

\* More entries do no harm.
LEMMA MoreEntries ==
  ASSUME NEW known, NEW more, known \subseteq more, NEW gs \in GroupMaps(known)
  PROVE  gs \in GroupMaps(more)
<1>1. gs \in [DOMAIN gs -> Group(known)] /\ DOMAIN gs \subseteq GroupName
  BY GroupMapsFacts
<1>2. Seq(known) \subseteq Seq(more)
  BY SeqMonotonic
<1>3. Group(known) \subseteq Group(more)
  BY <1>2 DEF Group
<1>4. gs \in [DOMAIN gs -> Group(more)]
  BY <1>1, <1>3
<1> QED BY <1>1, <1>4, GroupMapsFacts

\* What is known of a list of input methods.
LEMMA KnownFacts ==
  ASSUME NEW list \in Seq(InputMethod), NEW known
  PROVE  /\ Known(list, known) \in Seq(known) /\ Known(list, known) \in Seq(InputMethod)
         /\ Items(Known(list, known)) \subseteq Items(list)
         /\ Once(list) => Once(Known(list, known))
         /\ Len(Known(list, known)) <= Len(list)
<1> DEFINE kept == Kept(list, known)
<1>1. /\ kept \in Seq(InputMethod) /\ Items(kept) = Items(list) \cap known
      /\ Once(list) => Once(kept)
      /\ Len(kept) <= Len(list)
  BY KeptItems
<1> HIDE DEF kept
<1>2. \A i \in 1..Len(kept) : kept[i] \in known
  BY <1>1 DEF Items
<1>3. kept \in Seq(known)
  BY <1>1, <1>2, SeqDef
<1> QED BY <1>1, <1>3 DEF kept, Known

(***************************************************************************)
(* buildDefaultGroup.                                                      *)
(***************************************************************************)

\* What is built for the layouts of a desktop.
LEMMA BuiltFacts ==
  ASSUME NEW layouts \in Layouts, NEW known, KeyboardUs \in known, known \subseteq InputMethod
  PROVE  /\ Built(layouts, known) \in GroupMaps(known)
         /\ AllFit(Built(layouts, known))
         /\ Orders1(Built(layouts, known), BuiltNames(layouts, known))
<1> DEFINE usable == UsableLayouts(layouts, known)
           names == BuiltNames(layouts, known)
           extra == Known(Preferred, known)
<1>1. layouts \in Seq(Keyboard) /\ layouts \in Seq(InputMethod) /\ Once(layouts)
      /\ Len(layouts) <= Len(NumberedName)
  <2>1. layouts \in Seq(Keyboard) /\ Len(layouts) <= Len(NumberedName)
    BY LayoutsAssumption
  <2>2. layouts \in Seq(InputMethod)
    BY <2>1, SeqMonotonic
  <2>3. DOMAIN layouts = 1..Len(layouts)
    BY <2>1
  <2>4. Once(layouts)
    BY <2>3, LayoutsAssumption DEF Once
  <2> QED BY <2>1, <2>2, <2>4
<1>2. /\ usable \in Seq(Keyboard) /\ usable # <<>>
      /\ Len(usable) = 1 \/ Len(usable) <= Len(NumberedName)
  <2> DEFINE kept == Known(layouts, known)
  <2>1. kept \in Seq(Keyboard) /\ Len(kept) <= Len(NumberedName)
    <3>1. Kept(layouts, known) \in Seq(Keyboard) /\ Len(kept) <= Len(layouts)
      BY <1>1, KeptItems DEF Known
    <3> HIDE DEF kept
    <3>2. Len(kept) \in Nat /\ Len(layouts) \in Nat /\ Len(NumberedName) \in Nat
      BY <3>1, <1>1, NamesAssumption DEF kept, Known
    <3> QED BY <1>1, <3>1, <3>2 DEF kept, Known
  <2> HIDE DEF kept
  <2>2. usable = IF kept = <<>> THEN <<KeyboardUs>> ELSE kept
    BY DEF UsableLayouts, kept
  <2> HIDE DEF usable
  <2> QED BY <2>1, <2>2
<1>3. /\ names \in Seq(GroupName) /\ Len(names) = Len(usable) /\ Once(names)
  <2>1. CASE Len(usable) = 1
    <3>1. names = <<DefaultName>>
      BY <2>1 DEF BuiltNames
    <3> HIDE DEF names, usable
    <3> QED BY <2>1, <3>1, NamesAssumption DEF Once
  <2>2. CASE Len(usable) # 1
    <3>1. names = SubSeq(NumberedName, 1, Len(usable))
      BY <2>2 DEF BuiltNames
    <3> HIDE DEF names, usable
    <3>2. Len(usable) \in Nat /\ Len(usable) <= Len(NumberedName)
      BY <1>2, <2>2
    <3>3. \A i \in 1..Len(usable) : i \in DOMAIN NumberedName /\ NumberedName[i] \in GroupName
      BY <3>2, NamesAssumption
    <3>4. /\ names \in Seq(GroupName) /\ Len(names) = Len(usable)
          /\ \A i \in 1..Len(usable) : names[i] = NumberedName[i]
      BY <3>1, <3>2, <3>3
    <3> QED BY <3>3, <3>4, NamesAssumption DEF Once
  <2> QED BY <2>1, <2>2
<1>4. extra \in Seq(known)
  BY KnownFacts, ListsAssumption
<1> HIDE DEF usable, names, extra
<1>5. Len(usable) \in Nat /\ Len(usable) # 0 /\ names # <<>>
  <2>1. Len(usable) \in Nat /\ Len(usable) # 0
    BY <1>2, EmptySeq
  <2> QED BY <1>3, <2>1, EmptySeq
<1>6. ToSet(names) = Items(names)
  BY <1>3 DEF ToSet, Items
<1> DEFINE LayoutOf(n) == usable[CHOOSE i \in DOMAIN names : names[i] = n]
           ListOf(n) == IF extra = <<>> THEN <<LayoutOf(n)>> ELSE <<LayoutOf(n), Head(extra)>>
           GroupOf(n) == [list |-> Known(ListOf(n), known),
                          default |-> Normalized(Known(ListOf(n), known), None),
                          layout |-> LayoutOf(n)]
           built == Built(layouts, known)
<1>7. built = [n \in ToSet(names) |-> GroupOf(n)]
  BY DEF Built, names, usable, extra
<1>8. ASSUME NEW n \in Items(names)
      PROVE  GroupOf(n) \in Group(known) /\ Fits(GroupOf(n).list, GroupOf(n).default)
  <2>1. \E i \in DOMAIN names : names[i] = n
    BY <1>3 DEF Items
  <2>2. (CHOOSE i \in DOMAIN names : names[i] = n) \in 1..Len(usable)
    BY <1>3, <2>1
  <2>3. LayoutOf(n) \in Keyboard
    BY <1>2, <2>2
  <2> HIDE DEF LayoutOf
  <2>4. ListOf(n) \in Seq(InputMethod)
    <3>1. extra # <<>> => Head(extra) \in known
      BY <1>4
    <3> QED BY <2>3, <3>1
  <2> HIDE DEF ListOf
  <2>5. Known(ListOf(n), known) \in Seq(known)
    BY <2>4, KnownFacts
  <2> DEFINE list == Known(ListOf(n), known)
             g == [list |-> list, default |-> Normalized(list, None), layout |-> LayoutOf(n)]
  <2>6. GroupOf(n) = g
    OBVIOUS
  <2> HIDE DEF list
  <2>7. g \in Group(known) /\ Fits(list, Normalized(list, None))
    BY <2>3, <2>5, NormalizedGroup DEF list
  <2> HIDE DEF GroupOf
  <2> QED BY <2>6, <2>7
<1> HIDE DEF built, GroupOf
<1>9. DOMAIN built = Items(names) /\ \A n \in Items(names) : built[n] = GroupOf(n)
  BY <1>6, <1>7
<1>10. Items(names) \subseteq GroupName
  BY <1>3 DEF Items
<1>11. built \in [Items(names) -> Group(known)]
  BY <1>6, <1>7, <1>8
<1>12. built \in GroupMaps(known) /\ AllFit(built)
  BY <1>8, <1>9, <1>10, <1>11, GroupMapsFacts DEF AllFit, FitGroup
<1>13. Orders1(built, names)
  BY <1>3, <1>5, <1>9 DEF Orders1
<1> QED BY <1>12, <1>13 DEF built, names

(***************************************************************************)
(* setGroupOrder.                                                          *)
(***************************************************************************)

\* A sequence of SetToSeqs has each element of the set once.
LEMMA SetToSeqsFacts ==
  ASSUME NEW S, IsFiniteSet(S), NEW seq \in SetToSeqs(S)
  PROVE  seq \in Seq(S) /\ Once(seq) /\ Items(seq) = S
<1> DEFINE n == Cardinality(S)
<1>1. n \in Nat
  BY FS_CardinalityType
<1>2. seq \in [1..n -> S] /\ \A i, j \in 1..n : i # j => seq[i] # seq[j]
  BY DEF SetToSeqs
<1> HIDE DEF n
<1>3. seq \in Seq(S) /\ Len(seq) = n
  BY <1>1, <1>2
<1>4. Once(seq)
  BY <1>2, <1>3 DEF Once
<1>5. seq \in Injection(1..n, S)
  BY <1>2 DEF Injection, IsInjective
<1>6. IsFiniteSet(1..n) /\ Cardinality(1..n) = n
  BY <1>1, FS_Interval
<1>7. seq \in Surjection(1..n, S)
  BY <1>5, <1>6, FS_Injection DEF n
<1>8. Items(seq) = S
  BY <1>2, <1>3, <1>7 DEF Items, Surjection
<1> QED BY <1>3, <1>4, <1>8

\* One sequence after another, with nothing in common.
LEMMA ConcatOnce ==
  ASSUME NEW S, NEW first \in Seq(S), NEW second \in Seq(S)
  PROVE  /\ first \o second \in Seq(S)
         /\ Items(first \o second) = Items(first) \cup Items(second)
         /\ Once(first) /\ Once(second) /\ Items(first) \cap Items(second) = {}
              => Once(first \o second)
<1> DEFINE new == first \o second
<1>1. /\ new \in Seq(S) /\ Len(new) = Len(first) + Len(second)
      /\ \A i \in 1..Len(new) : new[i] = IF i <= Len(first) THEN first[i] ELSE second[i - Len(first)]
  BY ConcatProperties
<1>2. Len(first) \in Nat /\ Len(second) \in Nat
  OBVIOUS
<1> HIDE DEF new
<1>3. Items(new) = Items(first) \cup Items(second)
  <2>1. Items(new) \subseteq Items(first) \cup Items(second)
    <3> SUFFICES ASSUME NEW i \in 1..Len(new)
                 PROVE  new[i] \in Items(first) \cup Items(second)
      BY DEF Items
    <3>1. CASE i <= Len(first)
      BY <1>1, <1>2, <3>1 DEF Items
    <3>2. CASE i > Len(first)
      <4>1. i - Len(first) \in 1..Len(second) /\ new[i] = second[i - Len(first)]
        BY <1>1, <1>2, <3>2
      <4> QED BY <4>1 DEF Items
    <3> QED BY <1>2, <3>1, <3>2
  <2>2. Items(first) \subseteq Items(new)
    <3> SUFFICES ASSUME NEW i \in 1..Len(first)
                 PROVE  first[i] \in Items(new)
      BY DEF Items
    <3>1. i \in 1..Len(new) /\ new[i] = first[i]
      BY <1>1, <1>2
    <3> QED BY <3>1 DEF Items
  <2>3. Items(second) \subseteq Items(new)
    <3> SUFFICES ASSUME NEW i \in 1..Len(second)
                 PROVE  second[i] \in Items(new)
      BY DEF Items
    <3> DEFINE k == i + Len(first)
    <3>1. k \in 1..Len(new) /\ ~(k <= Len(first)) /\ k - Len(first) = i
      BY <1>1, <1>2
    <3> HIDE DEF k
    <3>2. new[k] = second[i]
      BY <1>1, <3>1
    <3> QED BY <3>1, <3>2 DEF Items
  <2> QED BY <2>1, <2>2, <2>3
<1>4. ASSUME Once(first), Once(second), Items(first) \cap Items(second) = {}
      PROVE  Once(new)
  <2> SUFFICES ASSUME NEW i \in 1..Len(new), NEW j \in 1..Len(new), new[i] = new[j], i < j
               PROVE  FALSE
    BY <1>1, <1>2 DEF Once
  <2>1. CASE j <= Len(first)
    BY <1>4, <1>1, <1>2, <2>1 DEF Once
  <2>2. CASE i > Len(first)
    <3>1. /\ i - Len(first) \in 1..Len(second) /\ j - Len(first) \in 1..Len(second)
          /\ second[i - Len(first)] = second[j - Len(first)]
      BY <1>1, <1>2, <2>2
    <3>2. i - Len(first) = j - Len(first)
      BY <1>4, <3>1 DEF Once
    <3> QED BY <1>2, <3>2
  <2>3. CASE i <= Len(first) /\ j > Len(first)
    <3>1. new[i] \in Items(first)
      BY <1>1, <1>2, <2>3 DEF Items
    <3>2. j - Len(first) \in 1..Len(second) /\ new[j] = second[j - Len(first)]
      BY <1>1, <1>2, <2>3
    <3>3. new[j] \in Items(second)
      BY <3>2 DEF Items
    <3> QED BY <1>4, <3>1, <3>3
  <2> QED BY <1>2, <2>1, <2>2, <2>3
<1> QED BY <1>1, <1>3, <1>4 DEF new

\* Whatever the groups are, and whatever names are given once each, every group gets
\* one place.
LEMMA OrdersFacts ==
  ASSUME NEW gs, IsFiniteSet(DOMAIN gs), DOMAIN gs \subseteq GroupName, DOMAIN gs # {},
         NEW order \in Seq(GroupName), Once(order), NEW new \in Orders(gs, order)
  PROVE  Orders1(gs, new)
<1> DEFINE rest == DOMAIN gs \ ToSet(order)
           kept == Kept(order, DOMAIN gs)
<1>1. ToSet(order) = Items(order)
  BY DEF ToSet, Items
<1>2. kept \in Seq(GroupName) /\ Items(kept) = Items(order) \cap DOMAIN gs /\ Once(kept)
  BY KeptItems
<1>3. IsFiniteSet(rest)
  BY FS_Subset
<1>4. PICK tail \in SetToSeqs(rest) : new = kept \o tail
  BY DEF Orders
<1>5. tail \in Seq(rest) /\ Once(tail) /\ Items(tail) = rest
  <2> HIDE DEF rest
  <2> QED BY <1>3, SetToSeqsFacts
<1>6. tail \in Seq(GroupName)
  BY <1>5, SeqMonotonic
<1> HIDE DEF kept
<1>7. /\ new \in Seq(GroupName)
      /\ Items(new) = Items(kept) \cup Items(tail)
      /\ Once(kept) /\ Once(tail) /\ Items(kept) \cap Items(tail) = {} => Once(new)
  BY <1>2, <1>4, <1>6, ConcatOnce
<1>8. Items(kept) \cap Items(tail) = {}
  BY <1>1, <1>2, <1>5
<1>9. Items(new) = DOMAIN gs
  BY <1>1, <1>2, <1>5, <1>7
<1>10. new # <<>>
  BY <1>9 DEF Items
<1> QED BY <1>2, <1>5, <1>7, <1>8, <1>9, <1>10 DEF Orders1

(***************************************************************************)
(* loadConfig.                                                             *)
(***************************************************************************)

SectionType ==
  [name : GroupName, list : Seq(InputMethod),
   default : InputMethod \cup {None}, layout : Keyboard \cup {None}]

\* What one section adds keeps the groups typed, with defaults that fit.
LEMMA WithSectionFacts ==
  ASSUME NEW known, NEW gs \in GroupMaps(known), AllFit(gs), NEW section \in SectionType
  PROVE  /\ WithSection(gs, section, known) \in GroupMaps(known)
         /\ AllFit(WithSection(gs, section, known))
         /\ DOMAIN WithSection(gs, section, known) \subseteq DOMAIN gs \cup {section.name}
<1> DEFINE before == IF section.name \in DOMAIN gs THEN gs[section.name].list ELSE <<>>
           list == before \o Known(section.list, known)
           g == [list |-> list, layout |-> section.layout,
                 default |-> Normalized(list, section.default)]
<1>1. /\ section.name \in GroupName /\ section.list \in Seq(InputMethod)
      /\ section.layout \in Keyboard \cup {None}
  BY DEF SectionType
<1>2. gs \in [DOMAIN gs -> Group(known)]
  BY GroupMapsFacts
<1>3. before \in Seq(known)
  BY <1>2 DEF Group
<1>4. list \in Seq(known)
  BY <1>1, <1>3, KnownFacts, ConcatProperties
<1>5. WithSection(gs, section, known) =
        IF section.layout = None THEN gs
        ELSE IF list = <<>> THEN WithoutGroup(gs, section.name)
        ELSE WithGroup(gs, section.name, g)
  BY DEF WithSection
<1> HIDE DEF list
<1>6. g \in Group(known) /\ FitGroup(g)
  BY <1>1, <1>4, NormalizedGroup DEF FitGroup
<1> HIDE DEF g
<1>7. CASE section.layout = None
  BY <1>5, <1>7
<1>8. CASE section.layout # None /\ list = <<>>
  <2>1. WithSection(gs, section, known) = WithoutGroup(gs, section.name)
    BY <1>5, <1>8
  <2>2. Becomes(WithoutGroup(gs, section.name), DOMAIN gs \ {section.name}, known)
    BY WithoutGroupFacts
  <2> QED BY <2>1, <2>2 DEF Becomes
<1>9. CASE section.layout # None /\ list # <<>>
  <2>1. WithSection(gs, section, known) = WithGroup(gs, section.name, g)
    BY <1>5, <1>9
  <2>2. Becomes(WithGroup(gs, section.name, g), DOMAIN gs \cup {section.name}, known)
    BY <1>1, <1>6, WithGroupFacts
  <2> QED BY <2>1, <2>2 DEF Becomes
<1> QED BY <1>7, <1>8, <1>9

\* The groups that each section leaves behind.
Reads(g, sections, known) ==
  /\ g[0] = [name \in {} |-> None]
  /\ \A k \in 1..Len(sections) : g[k] = WithSection(g[k - 1], sections[k], known)

SoFar(g, known, names) == g \in GroupMaps(known) /\ AllFit(g) /\ DOMAIN g \subseteq names

\* The recursive function of LoadedGroups exists, and what it returns for the first
\* sections has their names only.
LEMMA LoadedSteps ==
  ASSUME NEW known, NEW file, file.sections \in Seq(SectionType)
  PROVE  \E g : /\ Reads(g, file.sections, known)
                /\ \A k \in 0..Len(file.sections) :
                     SoFar(g[k], known, {file.sections[i].name : i \in 1..k})
                /\ LoadedGroups(file, known) = g[Len(file.sections)]
<1> DEFINE sections == file.sections
           n == Len(sections)
           V == {gs \in GroupMaps(known) : AllFit(gs)}
           none == [name \in {} |-> None]
           step == [a \in (1..n) \X V |-> WithSection(a[2], sections[a[1]], known)]
           Steps(f) == [k \in 0..n |-> IF k = 0 THEN none
                                       ELSE WithSection(f[k - 1], sections[k], known)]
           f == CHOOSE h : h = Steps(h)
           names(k) == {sections[i].name : i \in 1..k}
<1>1. n \in Nat /\ \A k \in 1..n : sections[k] \in SectionType
  OBVIOUS
<1>2. LoadedGroups(file, known) = f[n]
  BY DEF LoadedGroups
<1>3. none \in V
  <2>1. DOMAIN none = {} /\ none \in [{} -> Group(known)]
    OBVIOUS
  <2> HIDE DEF none
  <2> QED BY <2>1, GroupMapsFacts DEF AllFit
<1>4. \A k \in 1..n, gs \in V : WithSection(gs, sections[k], known) \in V
  <2> HIDE DEF n, sections
  <2> QED BY <1>1, WithSectionFacts
<1>5. step \in [(1..n) \X V -> V]
  <2> HIDE DEF n, sections, V
  <2> QED BY <1>4
<1>6. PICK g \in [0..n -> V] : Iterates(g, none, step, n)
  <2> HIDE DEF n, V, none, step
  <2> QED BY <1>1, <1>3, <1>5, RecursionExists
<1> HIDE DEF none, V
<1>7. g = Steps(g)
  <2>1. ASSUME NEW k \in 0..n
        PROVE  g[k] = Steps(g)[k]
    <3>1. CASE k = 0
      BY <1>6, <3>1 DEF Iterates
    <3>2. CASE k # 0
      <4>1. k \in 1..n /\ k - 1 \in 0..n
        BY <1>1, <3>2
      <4>2. g[k - 1] \in V
        BY <4>1, <1>6
      <4>3. g[k] = step[<<k, g[k - 1]>>]
        BY <1>6, <4>1 DEF Iterates
      <4>4. <<k, g[k - 1]>> \in (1..n) \X V
        BY <4>1, <4>2
      <4>5. g[k] = WithSection(g[k - 1], sections[k], known)
        BY <4>3, <4>4
      <4> QED BY <3>2, <4>5
    <3> QED BY <3>1, <3>2
  <2>2. DOMAIN g = 0..n /\ g = [k \in 0..n |-> g[k]]
    OBVIOUS
  <2> QED BY <2>1, <2>2
<1>8. f = Steps(f)
  <2> HIDE DEF Steps
  <2> QED BY <1>7
<1> HIDE DEF f, step
<1>9. Reads(f, sections, known)
  <2>1. DOMAIN Steps(f) = 0..n /\ \A k \in 0..n : f[k] = Steps(f)[k]
    <3>1. DOMAIN Steps(f) = 0..n
      OBVIOUS
    <3> HIDE DEF Steps
    <3> QED BY <1>8, <3>1
  <2>2. f[0] = none
    BY <1>1, <2>1
  <2>3. ASSUME NEW k \in 1..n
        PROVE  f[k] = WithSection(f[k - 1], sections[k], known)
    <3>1. k \in 0..n /\ k # 0
      BY <1>1
    <3> QED BY <2>1, <3>1
  <2> QED BY <2>2, <2>3 DEF Reads, none
<1> HIDE DEF Steps, sections
<1> DEFINE right == [k \in 0..n |-> SoFar(f[k], known, names(k))]
<1>10. \A k \in 0..n : SoFar(f[k], known, names(k)) \in BOOLEAN
  BY DEF SoFar, AllFit
<1>11. right \in [0..n -> BOOLEAN] /\ \A k \in 0..n : right[k] <=> SoFar(f[k], known, names(k))
  <2> HIDE DEF n, names
  <2> QED BY <1>10
<1> HIDE DEF right
<1>12. right[0]
  <2>1. SoFar(f[0], known, names(0))
    <3>1. f[0] = none
      BY <1>9 DEF Reads, none
    <3>2. DOMAIN none = {}
      BY DEF none
    <3> QED BY <1>3, <3>1, <3>2 DEF SoFar, V
  <2>2. 0 \in 0..n
    BY <1>1
  <2> HIDE DEF n, names
  <2> QED BY <1>11, <2>1, <2>2
<1>13. ASSUME NEW k \in 1..n, right[k - 1]
       PROVE  right[k]
  <2>1. k - 1 \in 0..n /\ k \in 0..n
    BY <1>1
  <2>2. SoFar(f[k - 1], known, names(k - 1))
    BY <1>11, <1>13, <2>1
  <2>3. f[k] = WithSection(f[k - 1], sections[k], known)
    BY <1>9 DEF Reads
  <2>4. /\ f[k] \in GroupMaps(known) /\ AllFit(f[k])
        /\ DOMAIN f[k] \subseteq DOMAIN f[k - 1] \cup {sections[k].name}
    BY <1>1, <2>2, <2>3, WithSectionFacts DEF SoFar
  <2>5. names(k - 1) \subseteq names(k) /\ sections[k].name \in names(k)
    BY <1>1
  <2>6. SoFar(f[k], known, names(k))
    BY <2>2, <2>4, <2>5 DEF SoFar
  <2> QED BY <1>11, <2>1, <2>6
<1>14. \A k \in 0..n : right[k]
  <2>1. right \in [0..n -> BOOLEAN]
    BY <1>11
  <2> HIDE DEF n
  <2> QED BY <1>1, <2>1, <1>12, <1>13, LeastWrong
<1>15. \A k \in 0..n : SoFar(f[k], known, names(k))
  BY <1>11, <1>14
<1> QED BY <1>2, <1>9, <1>15 DEF sections

\* The groups that are loaded, and the order that is made for them.
LEMMA LoadedFacts ==
  ASSUME NEW known, NEW file, IsProfile(file)
  PROVE  /\ LoadedGroups(file, known) \in GroupMaps(known)
         /\ AllFit(LoadedGroups(file, known))
         /\ IsFiniteSet(DOMAIN LoadedGroups(file, known))
<1> DEFINE sections == file.sections
           n == Len(sections)
           names == {sections[i].name : i \in 1..n}
           gs == LoadedGroups(file, known)
<1>1. sections \in Seq(SectionType)
  BY DEF IsProfile, SectionType
<1>2. n \in Nat
  BY <1>1
<1>3. SoFar(gs, known, names)
  <2>1. PICK g : /\ \A k \in 0..n : SoFar(g[k], known, {sections[i].name : i \in 1..k})
                 /\ gs = g[n]
    <3> HIDE DEF gs
    <3> QED BY <1>1, LoadedSteps DEF gs
  <2>2. n \in 0..n
    BY <1>2
  <2> QED BY <2>1, <2>2
<1>4. IsFiniteSet(names)
  <2> DEFINE f == [i \in 1..n |-> sections[i].name]
  <2>1. f \in Surjection(1..n, names)
    BY DEF Surjection
  <2>2. IsFiniteSet(1..n)
    BY <1>2, FS_Interval
  <2> HIDE DEF f, names
  <2> QED BY <2>1, <2>2, FS_Surjection
<1>5. DOMAIN gs \subseteq names
  BY <1>3 DEF SoFar
<1> HIDE DEF gs, names
<1>6. IsFiniteSet(DOMAIN gs)
  BY <1>4, <1>5, FS_Subset
<1> QED BY <1>3, <1>6 DEF SoFar, gs

LEMMA LoadedOrdersFacts ==
  ASSUME NEW file, IsProfile(file),
         NEW gs, IsFiniteSet(DOMAIN gs), DOMAIN gs \subseteq GroupName, DOMAIN gs # {},
         NEW order \in LoadedOrders(file, gs)
  PROVE  Orders1(gs, order)
<1> DEFINE sections == file.sections
           wanted == SectionsIn(file)
           named == Kept(sections, wanted)
           names == [i \in DOMAIN named |-> named[i].name]
<1>1. file.order \in Seq(GroupName) /\ sections \in Seq(SectionType)
  BY DEF IsProfile, SectionType
<1>2. order \in Orders(gs, IF file.order # <<>> THEN file.order ELSE names)
  BY DEF LoadedOrders
<1>3. CASE file.order # <<>>
  <2>1. Once(file.order)
    BY <1>1 DEF IsProfile, Once
  <2> QED BY <1>1, <1>2, <1>3, <2>1, OrdersFacts
<1>4. CASE file.order = <<>>
  <2>1. /\ named \in Seq(SectionType)
        /\ \E place : Places(place, named, sections, wanted, Len(sections))
    <3> HIDE DEF sections, wanted
    <3> QED BY <1>1, KeptPlaces
  <2> HIDE DEF named
  <2>2. PICK place : Places(place, named, sections, wanted, Len(sections))
    BY <2>1
  <2>3. names \in Seq(GroupName) /\ Len(names) = Len(named)
    <3>1. Len(named) \in Nat /\ DOMAIN named = 1..Len(named)
      BY <2>1
    <3>2. \A i \in 1..Len(named) : named[i] \in SectionType
      BY <2>1
    <3>3. names \in [1..Len(named) -> GroupName]
      BY <3>1, <3>2 DEF SectionType
    <3> HIDE DEF names
    <3> QED BY <3>1, <3>3
  <2>4. \A i \in 1..Len(named) : names[i] = named[i].name
    BY <2>1
  <2> HIDE DEF names
  <2>5. Len(named) \in Nat /\ DOMAIN sections = 1..Len(sections)
    BY <1>1, <2>1
  <2>6. \A i \in 1..Len(named) :
          place[i] \in DOMAIN sections /\ named[i] = sections[place[i]] /\ named[i] \in wanted
    BY <2>2, <2>5 DEF Places
  <2>7. Once(names)
    <3> SUFFICES ASSUME NEW i \in 1..Len(named), NEW j \in 1..Len(named),
                        names[i] = names[j], i < j
                 PROVE  FALSE
      BY <2>3, <2>5 DEF Once
    <3>1. sections[place[i]].name = sections[place[j]].name
      BY <2>4, <2>6
    <3>2. sections[place[i]].layout # None /\ sections[place[j]].layout # None
      BY <2>6 DEF SectionsIn
    <3>3. place[i] = place[j]
      BY <1>4, <2>6, <3>1, <3>2 DEF IsProfile
    <3>4. place[i] \in Int /\ place[j] \in Int /\ place[i] < place[j]
      BY <2>2 DEF Places
    <3> QED BY <3>3, <3>4
  <2> QED BY <1>2, <1>4, <2>3, <2>7, OrdersFacts
<1> QED BY <1>3, <1>4

(***************************************************************************)
(* The order turns.                                                        *)
(***************************************************************************)

\* order, turned so that what was at place turn + 1 comes first.
Turned(order, turn) ==
  [i \in DOMAIN order |-> order[((i + turn - 1) % Len(order)) + 1]]

\* Where an item of the turned order was.
LEMMA TurnedFrom ==
  ASSUME NEW n \in Nat, NEW turn \in 0..(n - 1), NEW i \in 1..n
  PROVE  ((i + turn - 1) % n) + 1 = IF i + turn <= n THEN i + turn ELSE i + turn - n
<1> DEFINE x == i + turn - 1
<1>1. n > 0 /\ x \in 0..(2 * n - 2)
  OBVIOUS
<1> HIDE DEF x
<1>2. x < n => x % n = x
  BY <1>1, Z3
<1>3. x >= n => x % n = x - n
  BY <1>1, Z3
<1> QED BY <1>1, <1>2, <1>3 DEF x

LEMMA TurnedFacts ==
  ASSUME NEW gs, NEW order, Orders1(gs, order), NEW turn \in 0..(Len(order) - 1)
  PROVE  Orders1(gs, Turned(order, turn))
<1> DEFINE n == Len(order)
           new == Turned(order, turn)
           From(i) == IF i + turn <= n THEN i + turn ELSE i + turn - n
<1>1. order \in Seq(GroupName) /\ order # <<>> /\ n \in Nat /\ DOMAIN order = 1..n
  BY DEF Orders1
<1>2. \A i \in 1..n : new[i] = order[From(i)]
  <2> TAKE i \in 1..n
  <2>1. ((i + turn - 1) % n) + 1 = From(i)
    <3> HIDE DEF n
    <3> QED BY <1>1, TurnedFrom DEF n
  <2> QED BY <1>1, <2>1 DEF Turned
<1>3. DOMAIN new = 1..n
  BY <1>1 DEF Turned
<1>4. \A i \in 1..n : From(i) \in 1..n
  BY <1>1
<1>5. \A i, j \in 1..n : From(i) = From(j) => i = j
  BY <1>1
<1>6. \A k \in 1..n : \E i \in 1..n : From(i) = k
  <2> TAKE k \in 1..n
  <2>1. CASE k > turn
    <3>1. k - turn \in 1..n /\ From(k - turn) = k
      BY <1>1, <2>1
    <3> QED BY <3>1
  <2>2. CASE k <= turn
    <3>1. k + n - turn \in 1..n /\ From(k + n - turn) = k
      BY <1>1, <2>2
    <3> QED BY <3>1
  <2> QED BY <1>1, <2>1, <2>2
<1>7. new = [i \in 1..n |-> new[i]]
  BY <1>1 DEF Turned
<1> HIDE DEF new, From
<1>8. \A i \in 1..n : new[i] \in GroupName
  BY <1>1, <1>2, <1>4
<1>9. new \in Seq(GroupName) /\ Len(new) = n
  <2>1. new \in [1..n -> GroupName]
    BY <1>7, <1>8
  <2> HIDE DEF n
  <2> QED BY <1>1, <2>1
<1>10. Once(new)
  <2> SUFFICES ASSUME NEW i \in 1..n, NEW j \in 1..n, new[i] = new[j]
               PROVE  i = j
    BY <1>9 DEF Once
  <2>1. order[From(i)] = order[From(j)]
    BY <1>2
  <2>2. From(i) = From(j)
    BY <2>1, <1>4 DEF Orders1, Once
  <2> QED BY <2>2, <1>5
<1>11. Items(new) = Items(order)
  <2>1. Items(new) \subseteq Items(order)
    BY <1>2, <1>4, <1>9 DEF Items
  <2>2. Items(order) \subseteq Items(new)
    <3> SUFFICES ASSUME NEW k \in 1..n
                 PROVE  order[k] \in Items(new)
      BY DEF Items
    <3>1. PICK i \in 1..n : From(i) = k
      BY <1>6
    <3> QED BY <1>2, <1>9, <3>1 DEF Items
  <2> QED BY <2>1, <2>2
<1>12. new # <<>>
  BY <1>1, <1>9, EmptySeq
<1> QED BY <1>9, <1>10, <1>11, <1>12 DEF Orders1, new

\* enumerateGroup and enumerateGroupTo turn the order.
LEMMA EnumerateGroupTurns ==
  ASSUME NEW gs, Orders1(gs, groupOrder),
         NEW forward \in BOOLEAN, EnumerateGroup(forward)
  PROVE  \E turn \in 0..(Len(groupOrder) - 1) : groupOrder' = Turned(groupOrder, turn)
<1> DEFINE n == Len(groupOrder)
<1>1. /\ groupOrder \in Seq(GroupName) /\ groupOrder # <<>> /\ n \in Nat /\ n > 1
      /\ DOMAIN groupOrder = 1..n
  BY DEF Orders1, EnumerateGroup
<1>2. \A turn \in 0..(n - 1), i \in 1..n :
        Turned(groupOrder, turn)[i] = groupOrder[IF i + turn <= n THEN i + turn ELSE i + turn - n]
  <2> TAKE turn \in 0..(n - 1), i \in 1..n
  <2>1. ((i + turn - 1) % n) + 1 = IF i + turn <= n THEN i + turn ELSE i + turn - n
    <3> HIDE DEF n
    <3> QED BY <1>1, TurnedFrom DEF n
  <2> QED BY <1>1, <2>1 DEF Turned
<1>3. \A turn \in 0..(n - 1) :
        Turned(groupOrder, turn) \in Seq(GroupName) /\ Len(Turned(groupOrder, turn)) = n
  <2> TAKE turn \in 0..(n - 1)
  <2>1. Orders1(gs, Turned(groupOrder, turn))
    BY TurnedFacts
  <2>2. DOMAIN Turned(groupOrder, turn) = 1..n
    BY <1>1 DEF Turned
  <2>3. Turned(groupOrder, turn) \in Seq(GroupName)
    BY <2>1 DEF Orders1
  <2> HIDE DEF n
  <2> QED BY <1>1, <2>2, <2>3, LenProperties
<1>4. CASE forward
  <2> DEFINE new == Tail(groupOrder) \o <<Head(groupOrder)>>
  <2>1. groupOrder' = new
    BY <1>4 DEF EnumerateGroup, MoveTo
  <2>2. /\ Tail(groupOrder) \in Seq(GroupName) /\ Len(Tail(groupOrder)) = n - 1
        /\ \A i \in 1..(n - 1) : Tail(groupOrder)[i] = groupOrder[i + 1]
    BY <1>1, HeadTailProperties
  <2>3. /\ <<Head(groupOrder)>> \in Seq(GroupName) /\ Len(<<Head(groupOrder)>>) = 1
        /\ <<Head(groupOrder)>>[1] = groupOrder[1]
    BY <1>1
  <2>4. /\ new \in Seq(GroupName) /\ Len(new) = n
        /\ \A i \in 1..n : new[i] = IF i <= n - 1 THEN groupOrder[i + 1] ELSE groupOrder[1]
    <3>1. /\ new \in Seq(GroupName) /\ Len(new) = n - 1 + 1
          /\ \A i \in 1..(n - 1 + 1) : new[i] = IF i <= n - 1 THEN Tail(groupOrder)[i]
                                                ELSE <<Head(groupOrder)>>[i - (n - 1)]
      BY <2>2, <2>3, ConcatProperties
    <3> HIDE DEF n, new
    <3> QED BY <1>1, <2>2, <2>3, <3>1
  <2>5. 1 \in 0..(n - 1)
    BY <1>1
  <2>6. \A i \in 1..n : new[i] = Turned(groupOrder, 1)[i]
    <3> TAKE i \in 1..n
    <3>1. CASE i <= n - 1
      BY <1>1, <1>2, <2>4, <2>5, <3>1
    <3>2. CASE i = n
      BY <1>1, <1>2, <2>4, <2>5, <3>2
    <3> QED BY <1>1, <3>1, <3>2
  <2> HIDE DEF new, n
  <2>7. new = Turned(groupOrder, 1)
    BY <1>3, <2>4, <2>5, <2>6, SeqEqual
  <2> QED BY <2>1, <2>5, <2>7 DEF n
<1>5. CASE ~forward
  <2> DEFINE new == <<Last(groupOrder)>> \o Front(groupOrder)
  <2>1. groupOrder' = new
    BY <1>5 DEF EnumerateGroup, MoveTo
  <2>2. /\ Front(groupOrder) \in Seq(GroupName) /\ Len(Front(groupOrder)) = n - 1
        /\ \A i \in 1..(n - 1) : Front(groupOrder)[i] = groupOrder[i]
    <3>1. Front(groupOrder) = SubSeq(groupOrder, 1, n - 1)
      BY DEF Front
    <3>2. \A i \in 1..(n - 1) : groupOrder[i] \in GroupName
      BY <1>1
    <3> QED BY <1>1, <3>1, <3>2, SubSeqProperties
  <2>3. /\ <<Last(groupOrder)>> \in Seq(GroupName) /\ Len(<<Last(groupOrder)>>) = 1
        /\ <<Last(groupOrder)>>[1] = groupOrder[n]
    BY <1>1 DEF Last
  <2>4. /\ new \in Seq(GroupName) /\ Len(new) = n
        /\ \A i \in 1..n : new[i] = IF i = 1 THEN groupOrder[n] ELSE groupOrder[i - 1]
    <3>1. /\ new \in Seq(GroupName) /\ Len(new) = 1 + (n - 1)
          /\ \A i \in 1..(1 + (n - 1)) : new[i] = IF i <= 1 THEN <<Last(groupOrder)>>[i]
                                                  ELSE Front(groupOrder)[i - 1]
      BY <2>2, <2>3, ConcatProperties
    <3>2. 1 + (n - 1) = n
      BY <1>1
    <3> HIDE DEF n, new
    <3>3. \A i \in 1..n : new[i] = IF i = 1 THEN groupOrder[n] ELSE groupOrder[i - 1]
      <4> TAKE i \in 1..n
      <4>1. CASE i = 1
        BY <2>3, <3>1, <3>2, <4>1
      <4>2. CASE i # 1
        <5>1. i - 1 \in 1..(n - 1) /\ ~(i <= 1)
          BY <1>1, <4>2
        <5> QED BY <2>2, <3>1, <3>2, <4>2, <5>1
      <4> QED BY <4>1, <4>2
    <3> QED BY <3>1, <3>2, <3>3
  <2>5. n - 1 \in 0..(n - 1)
    BY <1>1
  <2>6. \A i \in 1..n : new[i] = Turned(groupOrder, n - 1)[i]
    <3> TAKE i \in 1..n
    <3>1. CASE i = 1
      BY <1>1, <1>2, <2>4, <2>5, <3>1
    <3>2. CASE i > 1
      <4>1. (IF i + (n - 1) <= n THEN i + (n - 1) ELSE i + (n - 1) - n) = i - 1
        BY <1>1, <3>2
      <4>2. new[i] = groupOrder[i - 1]
        BY <2>4, <3>2
      <4> QED BY <1>2, <2>5, <4>1, <4>2
    <3>3. i = 1 \/ i > 1
      BY <1>1
    <3> HIDE DEF new, n
    <3> QED BY <3>1, <3>2, <3>3
  <2> HIDE DEF new
  <2>7. new = Turned(groupOrder, n - 1)
    BY <1>3, <2>4, <2>5, <2>6, SeqEqual
  <2> QED BY <2>1, <2>5, <2>7
<1> QED BY <1>4, <1>5

LEMMA EnumerateGroupToTurns ==
  ASSUME NEW gs, Orders1(gs, groupOrder), NEW name, EnumerateGroupTo(name)
  PROVE  \E turn \in 0..(Len(groupOrder) - 1) : groupOrder' = Turned(groupOrder, turn)
<1> DEFINE n == Len(groupOrder)
<1>1. /\ groupOrder \in Seq(GroupName) /\ groupOrder # <<>> /\ n \in Nat
      /\ DOMAIN groupOrder = 1..n
  BY DEF Orders1
<1>2. PICK k \in 2..n : groupOrder' = SubSeq(groupOrder, k, n) \o SubSeq(groupOrder, 1, k - 1)
  BY DEF EnumerateGroupTo, MoveTo
<1> DEFINE turn == k - 1
           first == SubSeq(groupOrder, k, n)
           second == SubSeq(groupOrder, 1, k - 1)
           new == first \o second
<1>3. turn \in 0..(n - 1) /\ turn \in 1..(n - 1)
  BY <1>1
<1>4. /\ first \in Seq(GroupName) /\ Len(first) = n - turn
      /\ \A i \in 1..(n - turn) : first[i] = groupOrder[i + turn]
  <2>1. \A i \in k..n : groupOrder[i] \in GroupName
    BY <1>1
  <2>2. /\ first \in Seq(GroupName) /\ Len(first) = n - k + 1
        /\ \A i \in 1..(n - k + 1) : first[i] = groupOrder[k + i - 1]
    BY <1>1, <2>1, SubSeqProperties
  <2> HIDE DEF first, n
  <2> QED BY <1>1, <2>2
<1>5. /\ second \in Seq(GroupName) /\ Len(second) = turn
      /\ \A i \in 1..turn : second[i] = groupOrder[i]
  <2>1. \A i \in 1..(k - 1) : groupOrder[i] \in GroupName
    BY <1>1
  <2> QED BY <1>1, <2>1, SubSeqProperties
<1> HIDE DEF first, second
<1>6. /\ new \in Seq(GroupName) /\ Len(new) = n
      /\ \A i \in 1..n : new[i] = IF i <= n - turn THEN groupOrder[i + turn]
                                  ELSE groupOrder[i - (n - turn)]
  <2>1. /\ new \in Seq(GroupName) /\ Len(new) = Len(first) + Len(second)
        /\ \A i \in 1..(Len(first) + Len(second)) :
             new[i] = IF i <= Len(first) THEN first[i] ELSE second[i - Len(first)]
    BY <1>4, <1>5, ConcatProperties
  <2> HIDE DEF new, turn
  <2>2. Len(first) + Len(second) = n
    BY <1>1, <1>3, <1>4, <1>5
  <2>3. ASSUME NEW i \in 1..n
        PROVE  new[i] = IF i <= n - turn THEN groupOrder[i + turn]
                        ELSE groupOrder[i - (n - turn)]
    <3>0. n - turn \in Nat /\ Len(first) = n - turn /\ i \in 1..(Len(first) + Len(second))
      BY <1>1, <1>3, <1>4, <2>2
    <3>1. CASE i <= n - turn
      <4>1. i \in 1..(n - turn) /\ i <= Len(first)
        BY <3>0, <3>1
      <4>2. new[i] = first[i]
        BY <2>1, <3>0, <4>1
      <4> QED BY <1>4, <3>1, <4>1, <4>2
    <3>2. CASE i > n - turn
      <4>1. i - (n - turn) \in 1..turn
        BY <1>1, <1>3, <3>2
      <4>2. new[i] = second[i - (n - turn)]
        BY <2>1, <3>0, <3>2
      <4> QED BY <1>1, <1>3, <1>5, <3>2, <4>1, <4>2
    <3> QED BY <1>1, <1>3, <3>1, <3>2
  <2> QED BY <2>1, <2>2, <2>3
<1> HIDE DEF new, turn
<1>7. /\ Turned(groupOrder, turn) \in Seq(GroupName) /\ Len(Turned(groupOrder, turn)) = n
  <2>1. Orders1(gs, Turned(groupOrder, turn))
    BY <1>3, TurnedFacts
  <2>2. DOMAIN Turned(groupOrder, turn) = 1..n
    BY <1>1 DEF Turned
  <2>3. Turned(groupOrder, turn) \in Seq(GroupName)
    BY <2>1 DEF Orders1
  <2> HIDE DEF n
  <2> QED BY <1>1, <2>2, <2>3, LenProperties
<1>8. \A i \in 1..n : new[i] = Turned(groupOrder, turn)[i]
  <2> TAKE i \in 1..n
  <2>1. ((i + turn - 1) % n) + 1 = IF i + turn <= n THEN i + turn ELSE i + turn - n
    <3> HIDE DEF n
    <3> QED BY <1>1, <1>3, TurnedFrom DEF n
  <2>2. Turned(groupOrder, turn)[i]
          = groupOrder[IF i + turn <= n THEN i + turn ELSE i + turn - n]
    BY <1>1, <2>1 DEF Turned
  <2>3. CASE i <= n - turn
    BY <1>1, <1>3, <1>6, <2>2, <2>3
  <2>4. CASE i > n - turn
    BY <1>1, <1>3, <1>6, <2>2, <2>4
  <2> QED BY <1>1, <1>3, <2>3, <2>4
<1>9. new = Turned(groupOrder, turn)
  BY <1>6, <1>7, <1>8, SeqEqual
<1> QED BY <1>2, <1>3, <1>9 DEF new, first, second

(***************************************************************************)
(* The other operations on the order.                                      *)
(***************************************************************************)

\* A sequence with an item is not empty.
LEMMA HasItem ==
  ASSUME NEW list, NEW item \in Items(list)
  PROVE  list # <<>>
BY DEF Items

\* What is left when a name is removed.
LEMMA WithoutNameFacts ==
  ASSUME NEW order \in Seq(GroupName), Once(order), NEW name
  PROVE  /\ WithoutName(order, name) \in Seq(GroupName)
         /\ Once(WithoutName(order, name))
         /\ Items(WithoutName(order, name)) = Items(order) \ {name}
<1>1. Items(order) \subseteq GroupName
  BY DEF Items
<1>2. /\ Kept(order, GroupName \ {name}) \in Seq(GroupName)
      /\ Items(Kept(order, GroupName \ {name})) = Items(order) \cap (GroupName \ {name})
      /\ Once(Kept(order, GroupName \ {name}))
  BY KeptItems
<1> QED BY <1>1, <1>2 DEF WithoutName

\* setCurrentGroup
LEMMA MovedToFront ==
  ASSUME NEW gs, NEW order, Orders1(gs, order), NEW name \in Items(order)
  PROVE  Orders1(gs, <<name>> \o WithoutName(order, name))
<1> DEFINE rest == WithoutName(order, name)
           new == <<name>> \o rest
<1>1. order \in Seq(GroupName) /\ Once(order) /\ Items(order) = DOMAIN gs
  BY DEF Orders1
<1>2. rest \in Seq(GroupName) /\ Once(rest) /\ Items(rest) = Items(order) \ {name}
  BY <1>1, WithoutNameFacts
<1> HIDE DEF rest
<1>3. name \in GroupName
  BY <1>1 DEF Items
<1>4. <<name>> \in Seq(GroupName) /\ Once(<<name>>) /\ Items(<<name>>) = {name}
  BY <1>3 DEF Once, Items
<1>5. /\ new \in Seq(GroupName)
      /\ Items(new) = Items(<<name>>) \cup Items(rest)
      /\ Once(<<name>>) /\ Once(rest) /\ Items(<<name>>) \cap Items(rest) = {} => Once(new)
  BY <1>2, <1>4, ConcatOnce
<1> HIDE DEF new
<1>6. Items(new) = DOMAIN gs /\ Once(new)
  BY <1>1, <1>2, <1>4, <1>5
<1>7. new # <<>>
  BY <1>1, <1>6, HasItem
<1> QED BY <1>5, <1>6, <1>7 DEF Orders1, new, rest

\* removeGroup
LEMMA NameRemoved ==
  ASSUME NEW gs, NEW order, Orders1(gs, order), NEW name, DOMAIN gs # {name},
         NEW new, DOMAIN new = DOMAIN gs \ {name}
  PROVE  Orders1(new, WithoutName(order, name))
<1> DEFINE rest == WithoutName(order, name)
<1>1. order \in Seq(GroupName) /\ Once(order) /\ Items(order) = DOMAIN gs /\ order # <<>>
  BY DEF Orders1
<1>2. rest \in Seq(GroupName) /\ Once(rest) /\ Items(rest) = DOMAIN new
  BY <1>1, WithoutNameFacts
<1> HIDE DEF rest
<1>3. Len(order) \in Nat /\ Len(order) # 0
  BY <1>1, EmptySeq
<1>4. order[1] \in DOMAIN gs
  BY <1>1, <1>3 DEF Items
<1>5. DOMAIN new # {}
  BY <1>4
<1>6. rest # <<>>
  BY <1>2, <1>5 DEF Items
<1> QED BY <1>2, <1>6 DEF Orders1, rest

\* addEmptyGroup
LEMMA NameAdded ==
  ASSUME NEW gs, NEW order, Orders1(gs, order), NEW name \in GroupName, name \notin DOMAIN gs,
         NEW new, DOMAIN new = DOMAIN gs \cup {name}
  PROVE  Orders1(new, Append(order, name))
<1> DEFINE more == order \o <<name>>
<1>1. order \in Seq(GroupName) /\ Once(order) /\ Items(order) = DOMAIN gs
  BY DEF Orders1
<1>2. <<name>> \in Seq(GroupName) /\ Once(<<name>>) /\ Items(<<name>>) = {name}
  BY DEF Once, Items
<1>3. /\ more \in Seq(GroupName)
      /\ Items(more) = Items(order) \cup Items(<<name>>)
      /\ Once(order) /\ Once(<<name>>) /\ Items(order) \cap Items(<<name>>) = {} => Once(more)
  BY <1>1, <1>2, ConcatOnce
<1>4. Append(order, name) = more
  BY <1>1, AppendIsConcat
<1> HIDE DEF more
<1>5. Items(more) = DOMAIN new /\ Once(more)
  BY <1>1, <1>2, <1>3
<1>6. name \in Items(more)
  BY <1>2, <1>3
<1>7. more # <<>>
  BY <1>6, HasItem
<1> QED BY <1>3, <1>4, <1>5, <1>7 DEF Orders1

(***************************************************************************)
(* The invariant.                                                          *)
(***************************************************************************)

GroupsOK ==
  /\ entries \subseteq InputMethod /\ KeyboardUs \in entries
  /\ groups \in GroupMaps(entries) /\ AllFit(groups)
  /\ Orders1(groups, groupOrder)
  /\ IsProfile(profile)

\* What currentGroup returns is a group.
LEMMA CurrentGroupFacts ==
  ASSUME GroupsOK
  PROVE  /\ Head(groupOrder) \in DOMAIN groups /\ Head(groupOrder) = groupOrder[1]
         /\ CurrentGroup \in Group(entries) /\ FitGroup(CurrentGroup)
<1>1. groupOrder \in Seq(GroupName) /\ groupOrder # <<>> /\ Items(groupOrder) = DOMAIN groups
  BY DEF GroupsOK, Orders1
<1>2. Len(groupOrder) \in Nat /\ Len(groupOrder) # 0
  BY <1>1, EmptySeq
<1>3. groupOrder[1] \in Items(groupOrder) /\ Head(groupOrder) = groupOrder[1]
  BY <1>1, <1>2 DEF Items
<1>4. groups \in [DOMAIN groups -> Group(entries)]
  BY GroupMapsFacts DEF GroupsOK
<1> QED BY <1>1, <1>3, <1>4 DEF GroupsOK, AllFit, CurrentGroup

\* save writes a profile that load can read.
LEMMA SavedFacts ==
  ASSUME NEW known, known \subseteq InputMethod,
         NEW gs \in GroupMaps(known), NEW order, Orders1(gs, order)
  PROVE  IsProfile(Saved(gs, order))
<1> DEFINE section(i) == [name |-> order[i], list |-> gs[order[i]].list,
                          default |-> gs[order[i]].default,
                          layout |-> gs[order[i]].layout]
           sections == [i \in DOMAIN order |-> section(i)]
<1>1. /\ order \in Seq(GroupName) /\ Once(order) /\ order # <<>>
      /\ Len(order) \in Nat /\ DOMAIN order = 1..Len(order)
  BY DEF Orders1
<1>2. gs \in [DOMAIN gs -> Group(known)]
  BY GroupMapsFacts
<1>3. Seq(known) \subseteq Seq(InputMethod)
  BY SeqMonotonic
<1>4. ASSUME NEW i \in 1..Len(order)
      PROVE  section(i) \in SectionType
  <2>1. order[i] \in DOMAIN gs /\ order[i] \in GroupName
    BY <1>1 DEF Orders1, Items
  <2>2. gs[order[i]] \in Group(known)
    BY <1>2, <2>1
  <2>3. /\ gs[order[i]].list \in Seq(InputMethod)
        /\ gs[order[i]].default \in InputMethod \cup {None}
        /\ gs[order[i]].layout \in Keyboard \cup {None}
    BY <1>3, <2>2 DEF Group
  <2> QED BY <2>1, <2>3 DEF SectionType
<1>5. sections \in Seq(SectionType)
  <2> HIDE DEF section
  <2>1. sections \in [1..Len(order) -> SectionType]
    BY <1>1, <1>4
  <2> HIDE DEF sections
  <2> QED BY <1>1, <2>1
<1>6. Saved(gs, order) = [order |-> order, sections |-> sections]
  BY DEF Saved
<1> HIDE DEF sections
<1>7. Saved(gs, order).order = order /\ Saved(gs, order).sections = sections
  BY <1>6
<1>8. Saved(gs, order) \in [order : Seq(GroupName), sections : Seq(SectionType)]
  BY <1>1, <1>5, <1>6
<1> QED BY <1>1, <1>7, <1>8 DEF IsProfile, SectionType, Once

LEMMA InitOK == Init => GroupsOK
<1> SUFFICES ASSUME Init PROVE GroupsOK
  OBVIOUS
<1>1. entries \subseteq InputMethod /\ KeyboardUs \in entries
  BY DEF Init
<1>2. PICK layouts \in Layouts : /\ groups = Built(layouts, entries)
                                 /\ groupOrder = BuiltNames(layouts, entries)
  BY DEF Init
<1>3. /\ Built(layouts, entries) \in GroupMaps(entries)
      /\ AllFit(Built(layouts, entries))
      /\ Orders1(Built(layouts, entries), BuiltNames(layouts, entries))
  BY <1>1, BuiltFacts
<1>4. IsProfile(profile)
  <2>1. profile = [order |-> <<>>, sections |-> <<>>]
    BY DEF Init, Empty
  <2> QED BY <2>1 DEF IsProfile
<1> QED BY <1>1, <1>2, <1>3, <1>4 DEF GroupsOK

\* A new order of the same groups.
LEMMA MoveToOK ==
  ASSUME GroupsOK, NEW order, Orders1(groups, order), MoveTo(order)
  PROVE  GroupsOK'
BY DEF GroupsOK, MoveTo

\* New values of groups that the present ones leave room for.
LEMMA SameOrder ==
  ASSUME NEW gs, NEW new, DOMAIN new = DOMAIN gs, NEW order, Orders1(gs, order)
  PROVE  Orders1(new, order)
BY DEF Orders1

LEMMA NextOK == GroupsOK /\ [Next]_vars => GroupsOK'
<1> SUFFICES ASSUME GroupsOK, [Next]_vars PROVE GroupsOK'
  OBVIOUS
<1>1. CASE Restart
  <2>1. PICK known \in SUBSET InputMethod, file \in {profile} \cup HandWritten :
          KeyboardUs \in known /\ profile' = file /\ LoadFrom(file, known)
    BY <1>1 DEF Restart
  <2>2. IsProfile(file) /\ entries' = known
    BY <2>1, ProfilesAssumption DEF GroupsOK, LoadFrom
  <2>3. groups' \in GroupMaps(known) /\ AllFit(groups') /\ Orders1(groups', groupOrder')
    <3> DEFINE read == LoadedGroups(file, known)
    <3>1. read \in GroupMaps(known) /\ AllFit(read) /\ IsFiniteSet(DOMAIN read)
      BY <2>2, LoadedFacts
    <3>2. CASE DOMAIN read # {}
      <4>1. groups' = read /\ groupOrder' \in LoadedOrders(file, read)
        BY <2>1, <3>2 DEF LoadFrom
      <4> HIDE DEF read
      <4>2. DOMAIN read \subseteq GroupName
        BY <3>1, GroupMapsFacts
      <4>3. Orders1(read, groupOrder')
        BY <2>2, <3>1, <3>2, <4>1, <4>2, LoadedOrdersFacts
      <4> QED BY <3>1, <4>1, <4>3
    <3>3. CASE DOMAIN read = {}
      <4>1. PICK layouts \in Layouts : /\ groups' = Built(layouts, known)
                                       /\ groupOrder' = BuiltNames(layouts, known)
        BY <2>1, <3>3 DEF LoadFrom
      <4>2. /\ Built(layouts, known) \in GroupMaps(known) /\ AllFit(Built(layouts, known))
            /\ Orders1(Built(layouts, known), BuiltNames(layouts, known))
        BY <2>1, BuiltFacts
      <4> QED BY <4>1, <4>2
    <3> QED BY <3>2, <3>3
  <2> QED BY <2>1, <2>2, <2>3 DEF GroupsOK
<1>2. CASE Save
  <2>1. IsProfile(Saved(groups, groupOrder))
    BY SavedFacts DEF GroupsOK
  <2> QED BY <1>2, <2>1 DEF Save, GroupsOK
<1>3. CASE Refresh
  <2>1. PICK known \in SUBSET InputMethod : entries \subseteq known /\ entries' = known
    BY <1>3 DEF Refresh
  <2>2. groups \in GroupMaps(known)
    BY <2>1, MoreEntries DEF GroupsOK
  <2> QED BY <1>3, <2>1, <2>2 DEF Refresh, GroupsOK
<1>4. CASE Reset
  <2>1. PICK layouts \in Layouts : /\ groups' = Built(layouts, entries)
                                   /\ groupOrder' = BuiltNames(layouts, entries)
    BY <1>4 DEF Reset
  <2>2. /\ Built(layouts, entries) \in GroupMaps(entries) /\ AllFit(Built(layouts, entries))
        /\ Orders1(Built(layouts, entries), BuiltNames(layouts, entries))
    BY BuiltFacts DEF GroupsOK
  <2> QED BY <1>4, <2>1, <2>2 DEF Reset, GroupsOK
<1>5. ASSUME NEW name \in GroupName, SetCurrentGroup(name) PROVE GroupsOK'
  <2>1. name \in Items(groupOrder)
    BY <1>5 DEF SetCurrentGroup, GroupsOK, Orders1, ToSet, Items
  <2>2. Orders1(groups, <<name>> \o WithoutName(groupOrder, name))
    BY <2>1, MovedToFront DEF GroupsOK
  <2> QED BY <1>5, <2>2, MoveToOK DEF SetCurrentGroup
<1>6. ASSUME NEW name \in GroupName, EnumerateGroupTo(name) PROVE GroupsOK'
  <2>1. Orders1(groups, groupOrder)
    BY DEF GroupsOK
  <2>2. PICK turn \in 0..(Len(groupOrder) - 1) : groupOrder' = Turned(groupOrder, turn)
    BY <1>6, <2>1, EnumerateGroupToTurns
  <2>3. Orders1(groups, groupOrder')
    BY <2>1, <2>2, TurnedFacts
  <2>4. MoveTo(groupOrder')
    BY <1>6 DEF EnumerateGroupTo, MoveTo
  <2> QED BY <2>3, <2>4 DEF MoveTo, GroupsOK
<1>7. ASSUME NEW forward \in BOOLEAN, EnumerateGroup(forward) PROVE GroupsOK'
  <2>1. Orders1(groups, groupOrder)
    BY DEF GroupsOK
  <2>2. PICK turn \in 0..(Len(groupOrder) - 1) : groupOrder' = Turned(groupOrder, turn)
    BY <1>7, <2>1, EnumerateGroupTurns
  <2>3. Orders1(groups, groupOrder')
    BY <2>1, <2>2, TurnedFacts
  <2>4. MoveTo(groupOrder')
    BY <1>7 DEF EnumerateGroup, MoveTo
  <2> QED BY <2>3, <2>4 DEF MoveTo, GroupsOK
<1>8. ASSUME NEW name \in GroupName, AddEmptyGroup(name) PROVE GroupsOK'
  <2> DEFINE layout == IF CurrentGroup.layout = None THEN KeyboardUs ELSE CurrentGroup.layout
             g == [list |-> <<>>, default |-> None, layout |-> layout]
  <2>1. layout \in Keyboard
    BY CurrentGroupFacts DEF Group
  <2> HIDE DEF layout
  <2>2. g \in Group(entries) /\ FitGroup(g)
    BY <2>1 DEF Group, FitGroup, Fits
  <2>3. groups' = WithGroup(groups, name, g) /\ groupOrder' = Append(groupOrder, name)
        /\ UNCHANGED <<entries, profile>> /\ name \notin DOMAIN groups
    BY <1>8 DEF AddEmptyGroup, layout
  <2> HIDE DEF g
  <2>4. Becomes(groups', DOMAIN groups \cup {name}, entries)
    BY <2>2, <2>3, WithGroupFacts DEF GroupsOK
  <2>5. Orders1(groups', Append(groupOrder, name))
    BY <2>3, <2>4, NameAdded DEF GroupsOK, Becomes
  <2> QED BY <2>3, <2>4, <2>5 DEF GroupsOK, Becomes
<1>9. ASSUME NEW name \in GroupName, RemoveGroup(name) PROVE GroupsOK'
  <2>1. groups' = WithoutGroup(groups, name) /\ groupOrder' = WithoutName(groupOrder, name)
        /\ UNCHANGED <<entries, profile>> /\ DOMAIN groups # {name}
    BY <1>9 DEF RemoveGroup
  <2>2. Becomes(groups', DOMAIN groups \ {name}, entries)
    BY <2>1, WithoutGroupFacts DEF GroupsOK
  <2>3. Orders1(groups', WithoutName(groupOrder, name))
    BY <2>1, <2>2, NameRemoved DEF GroupsOK, Becomes
  <2> QED BY <2>1, <2>2, <2>3 DEF GroupsOK, Becomes
<1>10. ASSUME NEW name \in GroupName, NEW list \in Lists, NEW layout \in Keyboard \cup {None},
              SetInputMethodGroupInfo(name, list, layout)
       PROVE  GroupsOK'
  <2> DEFINE kept == Known(list, entries)
             g == [list |-> kept, layout |-> layout,
                   default |-> Normalized(kept, groups[name].default)]
  <2>1. kept \in Seq(entries)
    BY ListsAssumption, KnownFacts
  <2>2. /\ groups' = [groups EXCEPT ![name] = Revised(@, list, layout)]
        /\ name \in DOMAIN groups /\ profile' = Saved(groups', groupOrder)
        /\ UNCHANGED <<entries, groupOrder>>
    BY <1>10 DEF SetInputMethodGroupInfo
  <2>3. Revised(groups[name], list, layout) = g
    BY DEF Revised
  <2> HIDE DEF kept
  <2>4. g \in Group(entries) /\ FitGroup(g)
    BY <2>1, NormalizedGroup DEF FitGroup
  <2> HIDE DEF g
  <2>5. groups \in [DOMAIN groups -> Group(entries)] /\ DOMAIN groups \subseteq GroupName
    BY GroupMapsFacts DEF GroupsOK
  <2>6. groups' = WithGroup(groups, name, g)
    BY <2>2, <2>3, <2>5 DEF WithGroup
  <2>7. Becomes(groups', DOMAIN groups \cup {name}, entries)
    BY <2>4, <2>6, WithGroupFacts DEF GroupsOK
  <2>8. Orders1(groups', groupOrder)
    BY <2>2, <2>7, SameOrder DEF GroupsOK, Becomes
  <2>9. IsProfile(Saved(groups', groupOrder))
    BY <2>7, <2>8, SavedFacts DEF GroupsOK, Becomes
  <2> QED BY <2>2, <2>7, <2>8, <2>9 DEF GroupsOK, Becomes
<1>11. ASSUME NEW im \in InputMethod, SetDefaultInputMethod(im) PROVE GroupsOK'
  <2> DEFINE name == Head(groupOrder)
             list == CurrentGroup.list
             g == [list |-> list, default |-> Normalized(list, im),
                   layout |-> CurrentGroup.layout]
  <2>1. /\ groups' = [groups EXCEPT ![name].default = Normalized(list, im)]
        /\ UNCHANGED <<entries, groupOrder, profile>>
    BY <1>11 DEF SetDefaultInputMethod
  <2>2. name \in DOMAIN groups /\ CurrentGroup \in Group(entries)
    BY CurrentGroupFacts
  <2>3. list \in Seq(entries) /\ CurrentGroup.layout \in Keyboard \cup {None}
    BY <2>2 DEF Group
  <2>4. groups \in [DOMAIN groups -> Group(entries)] /\ DOMAIN groups \subseteq GroupName
    BY GroupMapsFacts DEF GroupsOK
  <2>5. [CurrentGroup EXCEPT !.default = Normalized(list, im)] = g
    BY <2>2 DEF Group
  <2>6. groups' = [groups EXCEPT ![name] = g]
    BY <2>1, <2>2, <2>5 DEF CurrentGroup
  <2> HIDE DEF list
  <2>7. g \in Group(entries) /\ FitGroup(g)
    BY <2>3, NormalizedGroup DEF FitGroup
  <2> HIDE DEF g, name
  <2>8. groups' = WithGroup(groups, name, g)
    BY <2>2, <2>4, <2>6 DEF WithGroup
  <2>9. name \in GroupName
    BY <2>2, <2>4
  <2>10. Becomes(groups', DOMAIN groups \cup {name}, entries)
    BY <2>7, <2>8, <2>9, WithGroupFacts DEF GroupsOK
  <2>11. DOMAIN groups' = DOMAIN groups
    BY <2>2, <2>10 DEF Becomes
  <2>12. Orders1(groups', groupOrder)
    BY <2>11, SameOrder DEF GroupsOK
  <2> QED BY <2>1, <2>10, <2>12 DEF GroupsOK, Becomes
<1>12. CASE UNCHANGED vars
  BY <1>12 DEF vars, GroupsOK
<1> QED BY <1>1, <1>2, <1>3, <1>4, <1>5, <1>6, <1>7, <1>8, <1>9, <1>10, <1>11, <1>12 DEF Next

\* Every behaviour keeps the invariant.
THEOREM GroupsInvariant == Spec => []GroupsOK
<1>1. Init => GroupsOK
  BY InitOK
<1>2. GroupsOK /\ [Next]_vars => GroupsOK'
  BY NextOK
<1> QED BY <1>1, <1>2, PTL DEF Spec

\* Whatever is called, loaded or lost, every group has exactly one place in the
\* order, and there is a current one.
THEOREM EveryGroupHasItsPlace == Spec => []OrderMatchesGroups
<1>1. GroupsOK => OrderMatchesGroups
  <2> SUFFICES ASSUME GroupsOK PROVE OrderMatchesGroups
    OBVIOUS
  <2>1. groupOrder \in Seq(GroupName) /\ groupOrder # <<>> /\ Once(groupOrder)
        /\ Items(groupOrder) = DOMAIN groups
    BY DEF GroupsOK, Orders1
  <2>2. DOMAIN groupOrder = 1..Len(groupOrder)
    BY <2>1
  <2>3. ToSet(groupOrder) = Items(groupOrder)
    BY <2>2 DEF ToSet, Items
  <2> QED BY <2>1, <2>2, <2>3 DEF OrderMatchesGroups, Once
<1> QED BY <1>1, GroupsInvariant, PTL

\* Every list holds known input methods only, and every default is one a user can
\* switch to and back.
THEOREM GroupsAreUsable == Spec => []OffersUsable
<1>1. GroupsOK => OffersUsable
  <2> SUFFICES ASSUME GroupsOK, NEW name \in DOMAIN groups
               PROVE  LET g == groups[name]
                      IN  /\ ToSet(g.list) \subseteq entries
                          /\ IF g.list = <<>> THEN g.default = None
                             ELSE /\ g.default \in ToSet(g.list)
                                  /\ Len(g.list) > 1 /\ g.list[1] # g.list[2]
                                       => g.default # g.list[1]
    BY DEF OffersUsable
  <2> DEFINE g == groups[name]
  <2>1. g \in Group(entries)
    BY GroupMapsFacts DEF GroupsOK
  <2>2. FitGroup(g)
    BY DEF GroupsOK, AllFit
  <2>3. g.list \in Seq(entries)
    BY <2>1 DEF Group
  <2>4. ToSet(g.list) = Items(g.list)
    BY <2>3 DEF ToSet, Items
  <2>5. Items(g.list) \subseteq entries
    BY <2>3 DEF Items
  <2> HIDE DEF g
  <2>6. /\ ToSet(g.list) \subseteq entries
        /\ IF g.list = <<>> THEN g.default = None
           ELSE /\ g.default \in ToSet(g.list)
                /\ Len(g.list) > 1 /\ g.list[1] # g.list[2] => g.default # g.list[1]
    BY <2>2, <2>4, <2>5 DEF FitGroup, Fits
  <2> QED BY <2>6 DEF g
<1> QED BY <1>1, GroupsInvariant, PTL

\* enumerateGroup and enumerateGroupTo turn the order and do nothing else to it, so
\* that enumerating in one direction visits every group.
THEOREM EnumerationTurns == Spec => RingKept
<1> DEFINE Enumerates == \/ \E forward \in BOOLEAN : EnumerateGroup(forward)
                         \/ \E name \in GroupName : EnumerateGroupTo(name)
           Turns == \E turn \in 0..(Len(groupOrder) - 1) :
                      groupOrder' = Turned(groupOrder, turn)
<1>1. GroupsOK => [Enumerates => Turns]_vars
  <2> SUFFICES ASSUME GroupsOK, Enumerates PROVE Turns
    OBVIOUS
  <2>1. Orders1(groups, groupOrder)
    BY DEF GroupsOK
  <2> QED BY <2>1, EnumerateGroupTurns, EnumerateGroupToTurns
<1>2. RingKept <=> [][Enumerates => Turns]_vars
  BY DEF RingKept, Turned
<1> HIDE DEF Enumerates, Turns
<1> QED BY <1>1, <1>2, GroupsInvariant, PTL

(***************************************************************************)
(* The signals.                                                            *)
(***************************************************************************)

\* What ChangesBracketed says of the signals of a call, when old and new are current
\* before and after it, and changed says whether anything of it is another.
Brackets(sent, old, new, changed) ==
  LET about == {i \in DOMAIN sent : sent[i][1] = "CurrentGroupAboutToChange"}
      done == {i \in DOMAIN sent : sent[i][1] = "CurrentGroupChanged"}
  IN  /\ changed => about # {}
      /\ \A i \in about : sent[i][2] \in {old, None}
      /\ \A i \in done : sent[i][2] = new
      /\ done = {i + 1 : i \in about}

LEMMA NothingSent ==
  ASSUME NEW old, NEW new
  PROVE  Brackets(<<>>, old, new, FALSE)
<1>1. DOMAIN <<>> = {}
  OBVIOUS
<1> QED BY <1>1 DEF Brackets

LEMMA BothSent ==
  ASSUME NEW old, NEW new, NEW x \in {old, None}, NEW changed \in BOOLEAN
  PROVE  Brackets(<<AboutToChange(x), Changed(new)>>, old, new, changed)
<1> DEFINE sent == <<AboutToChange(x), Changed(new)>>
<1>1. /\ DOMAIN sent = {1, 2}
      /\ sent[1] = AboutToChange(x) /\ sent[2] = Changed(new)
  OBVIOUS
<1> HIDE DEF sent
<1>2. /\ sent[1][1] = "CurrentGroupAboutToChange" /\ sent[1][2] = x
      /\ sent[2][1] = "CurrentGroupChanged" /\ sent[2][2] = new
  BY <1>1 DEF AboutToChange, Changed
<1>3. /\ {i \in DOMAIN sent : sent[i][1] = "CurrentGroupAboutToChange"} = {1}
      /\ {i \in DOMAIN sent : sent[i][1] = "CurrentGroupChanged"} = {2}
  BY <1>1, <1>2
<1>4. {i + 1 : i \in {1}} = {2}
  OBVIOUS
<1> QED BY <1>1, <1>2, <1>3, <1>4 DEF Brackets, sent

LEMMA OtherSent ==
  ASSUME NEW old, NEW new, NEW name, NEW kind \in {"GroupAdded", "GroupRemoved"}
  PROVE  Brackets(<<<<kind, name>>>>, old, new, FALSE)
<1> DEFINE sent == <<<<kind, name>>>>
<1>1. DOMAIN sent = {1} /\ sent[1] = <<kind, name>>
  OBVIOUS
<1> HIDE DEF sent
<1>2. sent[1][1] = kind
  BY <1>1
<1>3. /\ {i \in DOMAIN sent : sent[i][1] = "CurrentGroupAboutToChange"} = {}
      /\ {i \in DOMAIN sent : sent[i][1] = "CurrentGroupChanged"} = {}
  BY <1>1, <1>2
<1> QED BY <1>3 DEF Brackets, sent

LEMMA AllSent ==
  ASSUME NEW old, NEW new, NEW name, NEW changed \in BOOLEAN
  PROVE  Brackets(<<AboutToChange(old), Changed(new), <<"GroupRemoved", name>>>>,
                  old, new, changed)
<1> DEFINE sent == <<AboutToChange(old), Changed(new), <<"GroupRemoved", name>>>>
<1>1. /\ DOMAIN sent = {1, 2, 3}
      /\ sent[1] = AboutToChange(old) /\ sent[2] = Changed(new)
      /\ sent[3] = <<"GroupRemoved", name>>
  OBVIOUS
<1> HIDE DEF sent
<1>2. /\ sent[1][1] = "CurrentGroupAboutToChange" /\ sent[1][2] = old
      /\ sent[2][1] = "CurrentGroupChanged" /\ sent[2][2] = new
      /\ sent[3][1] = "GroupRemoved"
  BY <1>1 DEF AboutToChange, Changed
<1>3. /\ {i \in DOMAIN sent : sent[i][1] = "CurrentGroupAboutToChange"} = {1}
      /\ {i \in DOMAIN sent : sent[i][1] = "CurrentGroupChanged"} = {2}
  BY <1>1, <1>2
<1>4. {i + 1 : i \in {1}} = {2}
  OBVIOUS
<1> QED BY <1>1, <1>2, <1>3, <1>4 DEF Brackets, sent

LEMMA TwoAndOne ==
  ASSUME NEW a, NEW b, NEW c
  PROVE  <<a, b>> \o <<c>> = <<a, b, c>>
<1> DEFINE S == {a, b, c}
           sum == <<a, b>> \o <<c>>
<1>1. <<a, b>> \in Seq(S) /\ <<c>> \in Seq(S) /\ <<a, b, c>> \in Seq(S)
  OBVIOUS
<1>2. Len(<<a, b>>) = 2 /\ Len(<<c>>) = 1 /\ Len(<<a, b, c>>) = 3
  OBVIOUS
<1> HIDE DEF S
<1>3. /\ sum \in Seq(S) /\ Len(sum) = 3
      /\ \A i \in 1..3 : sum[i] = IF i <= 2 THEN <<a, b>>[i] ELSE <<c>>[i - 2]
  BY <1>1, <1>2, ConcatProperties
<1> HIDE DEF sum
<1>4. \A i \in 1..3 : sum[i] = <<a, b, c>>[i]
  <2> TAKE i \in 1..3
  <2>1. i = 1 \/ i = 2 \/ i = 3
    OBVIOUS
  <2> QED BY <1>3, <2>1
<1>5. sum = <<a, b, c>>
  BY <1>1, <1>2, <1>3, <1>4, SeqEqual
<1> QED BY <1>5 DEF sum

Here == <<Head(groupOrder), CurrentGroup.list, CurrentGroup.layout>>

CallBrackets == Brackets(signals', Head(groupOrder), Head(groupOrder'), Here' # Here)

LEMMA QuietCall ==
  ASSUME Here' = Here,
         \/ signals' = <<>>
         \/ \E name : signals' = <<<<"GroupAdded", name>>>> \/ signals' = <<<<"GroupRemoved", name>>>>
  PROVE  CallBrackets
<1>1. (Here' # Here) = FALSE
  OBVIOUS
<1> QED BY <1>1, NothingSent, OtherSent DEF CallBrackets

LEMMA BracketedCall ==
  ASSUME NEW x \in {Head(groupOrder), None},
         signals' = <<AboutToChange(x), Changed(Head(groupOrder'))>>
  PROVE  CallBrackets
<1>1. (Here' # Here) \in BOOLEAN
  OBVIOUS
<1> QED BY <1>1, BothSent DEF CallBrackets

LEMMA NextBrackets == GroupsOK /\ Next => CallBrackets
<1> SUFFICES ASSUME GroupsOK, Next PROVE CallBrackets
  OBVIOUS
<1>0. /\ groups \in [DOMAIN groups -> Group(entries)]
      /\ Head(groupOrder) \in DOMAIN groups /\ Head(groupOrder) = groupOrder[1]
      /\ CurrentGroup \in Group(entries)
  BY CurrentGroupFacts, GroupMapsFacts DEF GroupsOK
<1>1. CASE Restart
  BY <1>1, BracketedCall DEF Restart, LoadFrom
<1>2. CASE Save
  <2>1. UNCHANGED <<groups, groupOrder>> /\ signals' = <<>>
    BY <1>2 DEF Save
  <2> QED BY <2>1, QuietCall DEF Here, CurrentGroup
<1>3. CASE Refresh
  <2>1. UNCHANGED <<groups, groupOrder>> /\ signals' = <<>>
    BY <1>3 DEF Refresh
  <2> QED BY <2>1, QuietCall DEF Here, CurrentGroup
<1>4. CASE Reset
  BY <1>4, BracketedCall DEF Reset
<1>5. ASSUME NEW name \in GroupName, SetCurrentGroup(name) PROVE CallBrackets
  <2>1. signals' = <<AboutToChange(Head(groupOrder)), Changed(Head(groupOrder'))>>
    BY <1>5 DEF SetCurrentGroup, MoveTo
  <2> QED BY <2>1, BracketedCall
<1>6. ASSUME NEW name \in GroupName, EnumerateGroupTo(name) PROVE CallBrackets
  <2>1. signals' = <<AboutToChange(Head(groupOrder)), Changed(Head(groupOrder'))>>
    BY <1>6 DEF EnumerateGroupTo, MoveTo
  <2> QED BY <2>1, BracketedCall
<1>7. ASSUME NEW forward \in BOOLEAN, EnumerateGroup(forward) PROVE CallBrackets
  <2>1. signals' = <<AboutToChange(Head(groupOrder)), Changed(Head(groupOrder'))>>
    BY <1>7 DEF EnumerateGroup, MoveTo
  <2> QED BY <2>1, BracketedCall
<1>8. ASSUME NEW name \in GroupName, AddEmptyGroup(name) PROVE CallBrackets
  <2> DEFINE g == [list |-> <<>>, default |-> None,
                   layout |-> IF CurrentGroup.layout = None THEN KeyboardUs
                              ELSE CurrentGroup.layout]
  <2>1. /\ groups' = WithGroup(groups, name, g) /\ name \notin DOMAIN groups
        /\ groupOrder' = Append(groupOrder, name) /\ signals' = <<<<"GroupAdded", name>>>>
    BY <1>8 DEF AddEmptyGroup
  <2> HIDE DEF g
  <2>2. groupOrder \in Seq(GroupName) /\ groupOrder # <<>>
    BY DEF GroupsOK, Orders1
  <2>3. Head(groupOrder') = Head(groupOrder)
    BY <2>1, <2>2
  <2>4. groups'[Head(groupOrder)] = groups[Head(groupOrder)]
    BY <1>0, <2>1 DEF WithGroup
  <2>5. Here' = Here
    BY <2>3, <2>4 DEF Here, CurrentGroup
  <2> QED BY <2>1, <2>5, QuietCall
<1>9. ASSUME NEW name \in GroupName, RemoveGroup(name) PROVE CallBrackets
  <2>1. /\ groups' = WithoutGroup(groups, name) /\ DOMAIN groups # {name}
        /\ groupOrder' = WithoutName(groupOrder, name)
        /\ signals' = (IF name = Head(groupOrder)
                       THEN <<AboutToChange(name), Changed(Head(groupOrder'))>>
                       ELSE <<>>) \o <<<<"GroupRemoved", name>>>>
    BY <1>9 DEF RemoveGroup
  <2>2. CASE name = Head(groupOrder)
    <3>1. signals' = <<AboutToChange(name), Changed(Head(groupOrder')), <<"GroupRemoved", name>>>>
      BY <2>1, <2>2, TwoAndOne
    <3>2. (Here' # Here) \in BOOLEAN
      OBVIOUS
    <3> QED BY <2>2, <3>1, <3>2, AllSent DEF CallBrackets
  <2>3. CASE name # Head(groupOrder)
    <3>1. signals' = <<<<"GroupRemoved", name>>>>
      BY <2>1, <2>3
    <3>2. groupOrder \in Seq(GroupName) /\ Items(groupOrder) = DOMAIN groups
          /\ DOMAIN groups \subseteq GroupName
      BY GroupMapsFacts DEF GroupsOK, Orders1
    <3>3. groupOrder[1] \in GroupName \ {name} /\ 1 \in 1..Len(groupOrder)
      <4>1. Len(groupOrder) \in Nat /\ Len(groupOrder) # 0
        BY <3>2, EmptySeq DEF GroupsOK, Orders1
      <4> QED BY <1>0, <2>3, <3>2, <4>1
    <3> DEFINE rest == Kept(groupOrder, GroupName \ {name})
    <3>4. /\ rest = <<>> <=> \A k \in 1..Len(groupOrder) : groupOrder[k] \notin GroupName \ {name}
          /\ rest # <<>> =>
               \E k \in 1..Len(groupOrder) :
                 /\ Head(rest) = groupOrder[k] /\ groupOrder[k] \in GroupName \ {name}
                 /\ \A j \in 1..(k - 1) : groupOrder[j] \notin GroupName \ {name}
      BY <3>2, KeptHead
    <3> HIDE DEF rest
    <3>5. PICK k \in 1..Len(groupOrder) :
            /\ Head(rest) = groupOrder[k] /\ groupOrder[k] \in GroupName \ {name}
            /\ \A j \in 1..(k - 1) : groupOrder[j] \notin GroupName \ {name}
      BY <3>3, <3>4
    <3>6. k = 1
      <4> SUFFICES ASSUME k # 1 PROVE FALSE
        OBVIOUS
      <4>1. 1 \in 1..(k - 1)
        OBVIOUS
      <4> QED BY <3>3, <3>5, <4>1
    <3>7. Head(groupOrder') = Head(groupOrder)
      BY <1>0, <2>1, <3>5, <3>6 DEF WithoutName, rest
    <3>8. groups'[Head(groupOrder)] = groups[Head(groupOrder)]
      BY <1>0, <2>1, <2>3 DEF WithoutGroup
    <3>9. Here' = Here
      BY <3>7, <3>8 DEF Here, CurrentGroup
    <3> QED BY <3>1, <3>9, QuietCall
  <2> QED BY <2>2, <2>3
<1>10. ASSUME NEW name \in GroupName, NEW list \in Lists, NEW layout \in Keyboard \cup {None},
              SetInputMethodGroupInfo(name, list, layout)
       PROVE  CallBrackets
  <2>1. /\ groups' = [groups EXCEPT ![name] = Revised(@, list, layout)]
        /\ groupOrder' = groupOrder
        /\ signals' = IF name = Head(groupOrder)
                      THEN <<AboutToChange(name), Changed(name)>> ELSE <<>>
    BY <1>10 DEF SetInputMethodGroupInfo
  <2>2. CASE name = Head(groupOrder)
    BY <2>1, <2>2, BracketedCall
  <2>3. CASE name # Head(groupOrder)
    <3>1. groups'[Head(groupOrder)] = groups[Head(groupOrder)]
      BY <1>0, <2>1, <2>3
    <3>2. Here' = Here
      BY <2>1, <3>1 DEF Here, CurrentGroup
    <3> QED BY <2>1, <2>3, <3>2, QuietCall
  <2> QED BY <2>2, <2>3
<1>11. ASSUME NEW im \in InputMethod, SetDefaultInputMethod(im) PROVE CallBrackets
  <2>1. /\ groups' = [groups EXCEPT ![Head(groupOrder)].default = Normalized(CurrentGroup.list, im)]
        /\ groupOrder' = groupOrder /\ signals' = <<>>
    BY <1>11 DEF SetDefaultInputMethod
  <2>2. groups'[Head(groupOrder)]
          = [groups[Head(groupOrder)] EXCEPT !.default = Normalized(CurrentGroup.list, im)]
    BY <1>0, <2>1
  <2>3. /\ groups'[Head(groupOrder)].list = groups[Head(groupOrder)].list
        /\ groups'[Head(groupOrder)].layout = groups[Head(groupOrder)].layout
    BY <1>0, <2>2 DEF Group, CurrentGroup
  <2>4. Here' = Here
    BY <2>1, <2>3 DEF Here, CurrentGroup
  <2> QED BY <2>1, <2>4, QuietCall
<1> QED BY <1>1, <1>2, <1>3, <1>4, <1>5, <1>6, <1>7, <1>8, <1>9, <1>10, <1>11 DEF Next

\* Whatever call changes which group is current or what is in it announces both, in
\* this order, naming the groups that are current before and after.
THEOREM ChangesAreAnnounced == Spec => ChangesBracketed
<1>1. ChangesBracketed <=> [][CallBrackets]_vars
  BY DEF ChangesBracketed, CallBrackets, Brackets, Here
<1> HIDE DEF CallBrackets
<1>2. GroupsOK /\ [Next]_vars => [CallBrackets]_vars
  BY NextBrackets
<1> QED BY <1>1, <1>2, GroupsInvariant, PTL DEF Spec

(***************************************************************************)
(* Saving and loading.                                                     *)
(***************************************************************************)

\* What load keeps of the groups that were saved.
Accepted(gs) == {name \in DOMAIN gs : gs[name].list # <<>> /\ gs[name].layout # None}

Picked(gs, names) == [name \in names |-> gs[name]]
SectionOf(name, g) ==
  [name |-> name, list |-> g.list, default |-> g.default, layout |-> g.layout]

\* A section that save wrote gives back its group.
LEMMA SectionRoundTrip ==
  ASSUME NEW known, NEW gs \in GroupMaps(known), AllFit(gs), known \subseteq InputMethod,
         NEW names, NEW name \in DOMAIN gs, name \notin names
  PROVE  WithSection(Picked(gs, names), SectionOf(name, gs[name]), known)
           = Picked(gs, names \cup ({name} \cap Accepted(gs)))
<1> DEFINE read == Picked(gs, names)
           section == SectionOf(name, gs[name])
<1>0. DOMAIN read = names /\ read = [n \in names |-> gs[n]]
  BY DEF Picked
<1> DEFINE g == gs[name]
           list == <<>> \o Known(section.list, known)
<1>1. g \in Group(known) /\ FitGroup(g)
  BY GroupMapsFacts DEF AllFit
<1>2. /\ section.name = name /\ section.list = g.list /\ section.default = g.default
      /\ section.layout = g.layout
  BY DEF SectionOf
<1> SUFFICES WithSection(read, section, known)
               = Picked(gs, names \cup ({name} \cap Accepted(gs)))
  OBVIOUS
<1> HIDE DEF section, read
<1>3. g.list \in Seq(known) /\ g = [list |-> g.list, default |-> g.default, layout |-> g.layout]
  BY <1>1 DEF Group
<1>4. list = g.list
  <2>1. Kept(g.list, known) = g.list
    BY <1>3, KeptAll
  <2> QED BY <1>2, <1>3, <2>1, ConcatEmptySeq DEF Known
<1>5. Normalized(g.list, g.default) = g.default
  BY <1>1, <1>3, FittingIsNormalized DEF FitGroup
<1> DEFINE new == [list |-> list, layout |-> section.layout,
                   default |-> Normalized(list, section.default)]
<1>6. WithSection(read, section, known) =
        IF section.layout = None THEN read
        ELSE IF list = <<>> THEN WithoutGroup(read, name) ELSE WithGroup(read, name, new)
  BY <1>0, <1>2 DEF WithSection
<1>7. new = g
  <2>1. new = [list |-> g.list, layout |-> g.layout, default |-> g.default]
    BY <1>2, <1>4, <1>5
  <2> QED BY <1>3, <2>1
<1> HIDE DEF new, list
<1>8. CASE g.layout = None
  <2>1. names \cup ({name} \cap Accepted(gs)) = names
    BY <1>8 DEF Accepted
  <2> QED BY <1>0, <1>2, <1>6, <1>8, <2>1 DEF Picked
<1>9. CASE g.layout # None /\ g.list = <<>>
  <2>1. names \cup ({name} \cap Accepted(gs)) = names
    BY <1>9 DEF Accepted
  <2>2. names \ {name} = names
    OBVIOUS
  <2>3. WithoutGroup(read, name) = [n \in names |-> gs[n]]
    BY <1>0, <2>2 DEF WithoutGroup
  <2>4. WithSection(read, section, known) = WithoutGroup(read, name)
    BY <1>2, <1>4, <1>6, <1>9
  <2> QED BY <2>1, <2>3, <2>4 DEF Picked
<1>10. CASE g.layout # None /\ g.list # <<>>
  <2>1. names \cup ({name} \cap Accepted(gs)) = names \cup {name}
    BY <1>10 DEF Accepted
  <2>2. WithSection(read, section, known) = WithGroup(read, name, g)
    BY <1>2, <1>4, <1>6, <1>7, <1>10
  <2>3. WithGroup(read, name, g) = [n \in names \cup {name} |-> gs[n]]
    <3>1. \A n \in names \cup {name} : (IF n = name THEN g ELSE read[n]) = gs[n]
      BY <1>0
    <3> QED BY <1>0, <3>1 DEF WithGroup
  <2> QED BY <2>1, <2>2, <2>3 DEF Picked
<1> QED BY <1>8, <1>9, <1>10

LEMMA GroupsRoundTrip ==
  ASSUME NEW known, known \subseteq InputMethod, NEW gs \in GroupMaps(known), AllFit(gs),
         NEW order, Orders1(gs, order)
  PROVE  LoadedGroups(Saved(gs, order), known) = [name \in Accepted(gs) |-> gs[name]]
<1> DEFINE file == Saved(gs, order)
           sections == file.sections
           n == Len(order)
           some(k) == {order[i] : i \in 1..k} \cap Accepted(gs)
           part(k) == Picked(gs, some(k))
           section(k) == SectionOf(order[k], gs[order[k]])
<1>1. /\ order \in Seq(GroupName) /\ Once(order) /\ Items(order) = DOMAIN gs
      /\ n \in Nat /\ DOMAIN order = 1..n
  BY DEF Orders1
<1>2. sections \in Seq(SectionType)
  BY SavedFacts DEF IsProfile, SectionType
<1>3. Len(sections) = n /\ \A k \in 1..n : sections[k] = section(k)
  <2>1. sections = [k \in 1..n |-> section(k)]
    BY <1>1 DEF Saved, SectionOf
  <2>2. DOMAIN sections = 1..n /\ \A k \in 1..n : sections[k] = section(k)
    BY <2>1
  <2> HIDE DEF sections, n
  <2> QED BY <1>1, <1>2, <2>2, LenProperties
<1> HIDE DEF section
<1>4. PICK g : Reads(g, sections, known) /\ LoadedGroups(file, known) = g[n]
  <2>1. \E g : Reads(g, file.sections, known)
               /\ LoadedGroups(file, known) = g[Len(file.sections)]
    <3> HIDE DEF file
    <3> QED BY <1>2, LoadedSteps
  <2> QED BY <1>3, <2>1
<1> HIDE DEF sections
<1>5. g[0] = part(0)
  <2>1. some(0) = {}
    OBVIOUS
  <2>2. part(0) = [name \in {} |-> None]
    BY <2>1 DEF Picked
  <2> QED BY <1>4, <2>2 DEF Reads
<1>6. ASSUME NEW k \in 1..n, g[k - 1] = part(k - 1)
      PROVE  g[k] = part(k)
  <2> DEFINE name == order[k]
  <2>1. g[k] = WithSection(g[k - 1], sections[k], known)
    BY <1>3, <1>4 DEF Reads
  <2>2. name \in DOMAIN gs
    BY <1>1 DEF Items
  <2>3. name \notin some(k - 1)
    BY <1>1 DEF Once
  <2>4. some(k) = some(k - 1) \cup ({name} \cap Accepted(gs))
    <3>1. {order[i] : i \in 1..k} = {order[i] : i \in 1..(k - 1)} \cup {name}
      <4>1. \A i \in 1..k : i \in 1..(k - 1) \/ i = k
        BY <1>1
      <4> QED BY <1>1, <4>1
    <3> QED BY <3>1
  <2>5. sections[k] = SectionOf(name, gs[name])
    BY <1>3 DEF section
  <2>6. g[k - 1] = Picked(gs, some(k - 1))
    BY <1>6
  <2> HIDE DEF name, some
  <2>7. WithSection(Picked(gs, some(k - 1)), SectionOf(name, gs[name]), known)
          = Picked(gs, some(k - 1) \cup ({name} \cap Accepted(gs)))
    BY <2>2, <2>3, SectionRoundTrip
  <2> QED BY <2>1, <2>4, <2>5, <2>6, <2>7
<1> DEFINE right == [k \in 0..n |-> g[k] = part(k)]
<1>7. right \in [0..n -> BOOLEAN] /\ \A k \in 0..n : right[k] <=> g[k] = part(k)
  <2> HIDE DEF part
  <2> QED OBVIOUS
<1> HIDE DEF right, part
<1>8. right[0]
  BY <1>1, <1>5, <1>7
<1>9. ASSUME NEW k \in 1..n, right[k - 1]
      PROVE  right[k]
  <2>1. k - 1 \in 0..n /\ k \in 0..n
    BY <1>1
  <2> QED BY <1>6, <1>7, <1>9, <2>1
<1>10. \A k \in 0..n : right[k]
  <2>1. right \in [0..n -> BOOLEAN]
    BY <1>7
  <2> HIDE DEF n
  <2> QED BY <1>1, <2>1, <1>8, <1>9, LeastWrong
<1>11. g[n] = part(n)
  BY <1>1, <1>7, <1>10
<1>12. some(n) = Accepted(gs)
  <2>1. {order[i] : i \in 1..n} = DOMAIN gs
    BY <1>1 DEF Items
  <2> QED BY <2>1 DEF Accepted
<1> QED BY <1>4, <1>11, <1>12 DEF part, Picked

\* There is one sequence without items.
LEMMA NoSequence == SetToSeqs({}) = {<<>>}
<1>1. Cardinality({}) = 0
  BY FS_EmptySet
<1>2. 1..0 = {}
  OBVIOUS
<1>3. SetToSeqs({}) = {f \in [1..0 -> {}] : \A i, j \in 1..0 : i # j => f[i] # f[j]}
  BY <1>1 DEF SetToSeqs
<1>4. <<>> \in [1..0 -> {}]
  OBVIOUS
<1>5. \A f \in [1..0 -> {}] : f = <<>>
  OBVIOUS
<1> QED BY <1>2, <1>3, <1>4, <1>5

LEMMA OrderRoundTrip ==
  ASSUME NEW known, known \subseteq InputMethod, NEW gs \in GroupMaps(known),
         NEW order, Orders1(gs, order), NEW read, DOMAIN read = Accepted(gs)
  PROVE  LoadedOrders(Saved(gs, order), read) = {Kept(order, Accepted(gs))}
<1> DEFINE file == Saved(gs, order)
           kept == Kept(order, Accepted(gs))
<1>1. order \in Seq(GroupName) /\ order # <<>> /\ Items(order) = DOMAIN gs
  BY DEF Orders1
<1>2. file.order = order
  BY DEF Saved
<1>3. LoadedOrders(file, read) = Orders(read, order)
  <2> HIDE DEF file
  <2> QED BY <1>1, <1>2 DEF LoadedOrders
<1>4. Accepted(gs) \ ToSet(order) = {}
  <2>1. ToSet(order) = Items(order)
    BY DEF ToSet, Items
  <2> QED BY <1>1, <2>1 DEF Accepted
<1>5. Orders(read, order) = {kept \o rest : rest \in {<<>>}}
  BY <1>4, NoSequence DEF Orders
<1>6. kept \in Seq(GroupName)
  BY <1>1, KeptItems
<1> HIDE DEF kept
<1>7. kept \o <<>> = kept
  BY <1>6, ConcatEmptySeq
<1> QED BY <1>3, <1>5, <1>7 DEF kept

\* Saving and loading again is lossless for the groups that the loader accepts.
THEOREM SavingIsLossless == Spec => []ProfileRoundTrip
<1>1. GroupsOK => ProfileRoundTrip
  <2> SUFFICES ASSUME GroupsOK PROVE ProfileRoundTrip
    OBVIOUS
  <2> DEFINE file == Saved(groups, groupOrder)
             read == LoadedGroups(file, entries)
             kept == {name \in DOMAIN groups : groups[name].list # <<>> /\ groups[name].layout # None}
  <2>1. kept = Accepted(groups)
    BY DEF Accepted
  <2>2. read = [name \in Accepted(groups) |-> groups[name]]
    BY GroupsRoundTrip DEF GroupsOK
  <2> HIDE DEF read
  <2>3. DOMAIN read = Accepted(groups)
    BY <2>2
  <2>4. LoadedOrders(file, read) = {Kept(groupOrder, Accepted(groups))}
    BY <2>3, OrderRoundTrip DEF GroupsOK
  <2> HIDE DEF kept, file
  <2>5. /\ LoadedGroups(file, entries) = [name \in kept |-> groups[name]]
        /\ LoadedOrders(file, LoadedGroups(file, entries)) = {Kept(groupOrder, kept)}
    BY <2>1, <2>2, <2>4 DEF read
  <2> QED BY <2>5 DEF ProfileRoundTrip, file, kept
<1> QED BY <1>1, GroupsInvariant, PTL
=============================================================================
