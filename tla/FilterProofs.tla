----------------------------- MODULE FilterProofs -----------------------------
(***************************************************************************)
(* What Kept returns, for every sequence.  The prover cannot instantiate   *)
(* the library's induction theorems, so both arguments by induction are    *)
(* made by the least counterexample: that the recursive function exists,   *)
(* and that what it returns for the first n items is right.                *)
(***************************************************************************)
EXTENDS Filter, SequenceTheorems, WellFoundedInduction, TLAPS

\* A set of numbers has a least one.
LEMMA HasLeast ==
  ASSUME NEW T, T \subseteq Nat, T # {}
  PROVE  \E x \in T : \A y \in T : x <= y
<1> DEFINE R == OpToRel(<, Nat)
<1>1. IsWellFoundedOn(R, Nat)
  BY NatLessThanWellFounded
<1>2. \A x, y \in Nat : <<y, x>> \in R <=> y < x
  BY DEF OpToRel
<1> HIDE DEF R
<1>3. PICK x \in T : \A y \in T : ~ (<<y, x>> \in R)
  BY <1>1, WFMin
<1>4. \A y \in T : x \in Nat /\ y \in Nat /\ ~(y < x)
  BY <1>2, <1>3
<1> QED BY <1>4

\* What is wrong for some number of 0..n is wrong for a least one.
LEMMA LeastWrong ==
  ASSUME NEW n \in Nat, NEW right \in [0..n -> BOOLEAN],
         right[0], \A k \in 1..n : right[k - 1] => right[k]
  PROVE  \A k \in 0..n : right[k]
<1> DEFINE Wrong == {k \in 0..n : ~right[k]}
<1> SUFFICES ASSUME Wrong # {} PROVE FALSE
  OBVIOUS
<1>1. PICK x \in Wrong : \A y \in Wrong : x <= y
  <2> Wrong \subseteq Nat
    OBVIOUS
  <2> HIDE DEF Wrong
  <2> QED BY HasLeast
<1>2. x \in 1..n /\ x - 1 \in 0..n /\ x - 1 \notin Wrong
  BY <1>1
<1> QED BY <1>1, <1>2

\* g is what n steps make of base.
Iterates(g, base, step, n) ==
  g[0] = base /\ \A k \in 1..n : g[k] = step[<<k, g[k - 1]>>]

\* A function can be defined by its value for 0 and by one step after the other.
LEMMA RecursionExists ==
  ASSUME NEW V, NEW n \in Nat, NEW base \in V,
         NEW step \in [(1..n) \X V -> V]
  PROVE  \E g \in [0..n -> V] : Iterates(g, base, step, n)
<1> DEFINE Exists(k) == \E g \in [0..k -> V] : Iterates(g, base, step, k)
           right == [k \in 0..n |-> Exists(k)]
<1>1. Exists(0)
  <2> DEFINE g == [i \in 0..0 |-> base]
  <2>1. g \in [0..0 -> V] /\ Iterates(g, base, step, 0)
    BY DEF Iterates
  <2> QED BY <2>1
<1>2. ASSUME NEW k \in 1..n, Exists(k - 1)
      PROVE  Exists(k)
  <2>1. PICK g \in [0..(k - 1) -> V] : Iterates(g, base, step, k - 1)
    BY <1>2
  <2> DEFINE h == [i \in 0..k |-> IF i = k THEN step[<<k, g[k - 1]>>] ELSE g[i]]
  <2>2. k - 1 \in 0..(k - 1) /\ g[k - 1] \in V /\ step[<<k, g[k - 1]>>] \in V
    BY <2>1
  <2>3. h \in [0..k -> V]
    BY <2>1, <2>2
  <2>4. h[0] = base
    BY <2>1 DEF Iterates
  <2>5. ASSUME NEW i \in 1..k
        PROVE  h[i] = step[<<i, h[i - 1]>>]
    <3>1. CASE i = k
      <4>1. h[k - 1] = g[k - 1] /\ h[k] = step[<<k, g[k - 1]>>]
        OBVIOUS
      <4> HIDE DEF h
      <4> QED BY <3>1, <4>1
    <3>2. CASE i # k
      BY <3>2, <2>1 DEF Iterates
    <3> QED BY <3>1, <3>2
  <2>6. Iterates(h, base, step, k)
    BY <2>4, <2>5 DEF Iterates
  <2> QED BY <2>3, <2>6
<1> HIDE DEF Exists
<1>3. right \in [0..n -> BOOLEAN]
  <2>1. \A k \in 0..n : Exists(k) \in BOOLEAN
    BY DEF Exists
  <2> QED BY <2>1
<1>4. \A k \in 0..n : right[k] <=> Exists(k)
  OBVIOUS
<1>5. right[0] /\ \A k \in 1..n : right[k - 1] => right[k]
  BY <1>1, <1>2, <1>4
<1> HIDE DEF right
<1>6. right[n]
  BY <1>3, <1>5, LeastWrong
<1> QED BY <1>4, <1>6 DEF Exists

\* g says for each n what is kept of the first n items.
Keeps(g, list, wanted) ==
  /\ g[0] = <<>>
  /\ \A k \in 1..Len(list) :
       g[k] = IF list[k] \in wanted THEN Append(g[k - 1], list[k]) ELSE g[k - 1]

\* The recursive function of Kept exists, and is the one.
LEMMA KeptSteps ==
  ASSUME NEW S, NEW list \in Seq(S), NEW wanted
  PROVE  \E g \in [0..Len(list) -> Seq(S)] :
           Keeps(g, list, wanted) /\ Kept(list, wanted) = g[Len(list)]
<1> DEFINE n == Len(list)
           Steps(f) == [k \in 0..n |->
                          IF k = 0 THEN <<>>
                          ELSE IF list[k] \in wanted THEN Append(f[k - 1], list[k])
                          ELSE f[k - 1]]
           step == [a \in (1..n) \X Seq(S) |->
                      IF list[a[1]] \in wanted THEN Append(a[2], list[a[1]])
                      ELSE a[2]]
           f == CHOOSE h : h = Steps(h)
<1>0. n \in Nat
  OBVIOUS
<1>1. step \in [(1..n) \X Seq(S) -> Seq(S)]
  OBVIOUS
<1>2. PICK g \in [0..n -> Seq(S)] : Iterates(g, <<>>, step, n)
  <2> <<>> \in Seq(S)
    OBVIOUS
  <2> HIDE DEF step, n
  <2> QED BY <1>0, <1>1, RecursionExists
<1>3. ASSUME NEW k \in 1..n
      PROVE  g[k] = IF list[k] \in wanted THEN Append(g[k - 1], list[k]) ELSE g[k - 1]
  <2>1. k - 1 \in 0..n
    BY <1>0
  <2>2. g[k - 1] \in Seq(S)
    BY <2>1
  <2>3. g[k] = step[<<k, g[k - 1]>>]
    BY <1>2 DEF Iterates
  <2> QED BY <2>2, <2>3
<1>4. g = Steps(g)
  <2>1. ASSUME NEW k \in 0..n
        PROVE  g[k] = Steps(g)[k]
    <3>1. CASE k = 0
      BY <1>2, <3>1 DEF Iterates
    <3>2. CASE k # 0
      <4>1. k \in 1..n
        BY <3>2
      <4> QED BY <1>3, <3>2, <4>1
    <3> QED BY <3>1, <3>2
  <2>2. DOMAIN g = 0..n /\ g = [k \in 0..n |-> g[k]]
    OBVIOUS
  <2> QED BY <2>1, <2>2
<1>5. f = Steps(f)
  <2> HIDE DEF Steps
  <2> QED BY <1>4
<1>6. Kept(list, wanted) = f[n]
  BY DEF Kept
<1> HIDE DEF f
<1>7. DOMAIN f = 0..n /\ \A k \in 0..n : f[k] = Steps(f)[k]
  <2> DOMAIN Steps(f) = 0..n
    OBVIOUS
  <2> HIDE DEF Steps
  <2> QED BY <1>5
<1>8. Keeps(f, list, wanted)
  <2>1. f[0] = <<>>
    BY <1>0, <1>7
  <2>2. ASSUME NEW k \in 1..n
        PROVE  f[k] = IF list[k] \in wanted THEN Append(f[k - 1], list[k]) ELSE f[k - 1]
    <3>1. k \in 0..n /\ k # 0
      BY <1>0
    <3> QED BY <1>7, <3>1
  <2> QED BY <2>1, <2>2 DEF Keeps
<1>9. f \in [0..n -> Seq(S)]
  <2> DEFINE right == [k \in 0..n |-> f[k] \in Seq(S)]
  <2>1. right \in [0..n -> BOOLEAN]
    OBVIOUS
  <2>2. \A k \in 0..n : right[k] <=> f[k] \in Seq(S)
    OBVIOUS
  <2>3. right[0]
    <3>1. f[0] \in Seq(S)
      BY <1>8 DEF Keeps
    <3> HIDE DEF right
    <3> QED BY <3>1, <1>0, <2>2
  <2>4. ASSUME NEW k \in 1..n, right[k - 1]
        PROVE  right[k]
    <3>1. k - 1 \in 0..n
      BY <1>0
    <3>2. f[k - 1] \in Seq(S)
      <4> HIDE DEF right
      <4> QED BY <3>1, <2>4, <2>2
    <3>3. list[k] \in S /\ k \in 0..n
      BY <1>0
    <3>4. Append(f[k - 1], list[k]) \in Seq(S)
      BY <3>2, <3>3, AppendProperties
    <3>5. f[k] \in Seq(S)
      BY <3>2, <3>4, <1>8 DEF Keeps
    <3> HIDE DEF right
    <3> QED BY <3>3, <3>5, <2>2
  <2>5. \A k \in 0..n : right[k]
    <3> HIDE DEF right, n
    <3> QED BY <1>0, <2>1, <2>3, <2>4, LeastWrong
  <2>6. f = [k \in 0..n |-> f[k]]
    <3>1. Steps(f) = [k \in 0..n |-> Steps(f)[k]]
      OBVIOUS
    <3> HIDE DEF Steps
    <3> QED BY <3>1, <1>5
  <2> HIDE DEF right
  <2> QED BY <2>2, <2>5, <2>6
<1> QED BY <1>6, <1>8, <1>9

\* What is kept is where place says it was in list: each item that is wanted, once,
\* in the order of list.
Places(place, kept, list, wanted, n) ==
  /\ Len(kept) <= n
  /\ place \in [1..Len(kept) -> 1..n]
  /\ \A i \in 1..Len(kept) : kept[i] = list[place[i]] /\ kept[i] \in wanted
  /\ \A i, j \in 1..Len(kept) : i < j => place[i] < place[j]
  /\ \A k \in 1..n : list[k] \in wanted => \E i \in 1..Len(kept) : place[i] = k

LEMMA KeptPlaces ==
  ASSUME NEW S, NEW list \in Seq(S), NEW wanted
  PROVE  /\ Kept(list, wanted) \in Seq(S)
         /\ \E place : Places(place, Kept(list, wanted), list, wanted, Len(list))
<1> DEFINE n == Len(list)
<1>0. n \in Nat /\ \A k \in 1..n : list[k] \in S
  OBVIOUS
<1>1. PICK g \in [0..n -> Seq(S)] : Keeps(g, list, wanted) /\ Kept(list, wanted) = g[n]
  BY KeptSteps
<1> DEFINE Placed(k) == \E place : Places(place, g[k], list, wanted, k)
           right == [k \in 0..n |-> Placed(k)]
<1>2. Placed(0)
  <2> DEFINE place == [i \in {} |-> 0]
  <2>1. g[0] = <<>> /\ Len(<<>>) = 0 /\ 1..0 = {}
    BY <1>1 DEF Keeps
  <2>2. place \in [1..0 -> 1..0]
    BY <2>1
  <2>3. Places(place, g[0], list, wanted, 0)
    BY <2>1, <2>2 DEF Places
  <2> QED BY <2>3
<1>3. ASSUME NEW k \in 1..n, Placed(k - 1)
      PROVE  Placed(k)
  <2>1. PICK place : Places(place, g[k - 1], list, wanted, k - 1)
    BY <1>3
  <2>0. k - 1 \in 0..n
    BY <1>0
  <2>2. g[k - 1] \in Seq(S) /\ Len(g[k - 1]) \in Nat
    BY <2>0
  <2>3. CASE list[k] \notin wanted
    <3>1. g[k] = g[k - 1]
      BY <1>1, <2>3 DEF Keeps
    <3> DEFINE h == g[k - 1]
    <3>2. place \in [1..Len(h) -> 1..k] /\ Len(h) <= k
      BY <2>1, <2>2 DEF Places
    <3>3. \A j \in 1..k : list[j] \in wanted => \E i \in 1..Len(h) : place[i] = j
      <4> TAKE j \in 1..k
      <4> HAVE list[j] \in wanted
      <4>1. j \in 1..(k - 1)
        BY <2>3
      <4> QED BY <4>1, <2>1 DEF Places
    <3>4. Places(place, h, list, wanted, k)
      BY <2>1, <3>2, <3>3 DEF Places
    <3> QED BY <3>1, <3>4
  <2>4. CASE list[k] \in wanted
    <3> DEFINE m == Len(g[k - 1])
               next == [i \in 1..(m + 1) |-> IF i = m + 1 THEN k ELSE place[i]]
    <3>0. m \in Nat /\ \A i \in 1..(m + 1) : i = m + 1 \/ i \in 1..m
      BY <2>2
    <3>1. /\ Len(g[k]) = m + 1
          /\ g[k][m + 1] = list[k]
          /\ \A i \in 1..m : g[k][i] = g[k - 1][i]
      <4>1. g[k] = Append(g[k - 1], list[k])
        BY <1>1, <2>4 DEF Keeps
      <4>2. list[k] \in S
        BY <1>0
      <4> QED BY <4>1, <4>2, <2>2, AppendProperties
    <3>2. /\ next[m + 1] = k
          /\ \A i \in 1..m : next[i] = place[i]
      BY <2>2
    <3>3. \A i \in 1..m : place[i] \in 1..(k - 1)
      BY <2>1 DEF Places
    <3>4. next \in [1..(m + 1) -> 1..k]
      BY <3>3, <2>2
    <3> HIDE DEF next, m
    <3>5. \A i \in 1..(m + 1) : g[k][i] = list[next[i]] /\ g[k][i] \in wanted
      <4> TAKE i \in 1..(m + 1)
      <4>1. CASE i = m + 1
        BY <4>1, <3>1, <3>2, <2>4
      <4>2. CASE i \in 1..m
        BY <4>2, <3>1, <3>2, <2>1 DEF Places, m
      <4> QED BY <4>1, <4>2, <3>0
    <3>6. \A i, j \in 1..(m + 1) : i < j => next[i] < next[j]
      <4> TAKE i, j \in 1..(m + 1)
      <4> HAVE i < j
      <4>1. i \in 1..m /\ next[i] \in 1..(k - 1)
        BY <3>0, <3>2, <3>3
      <4>2. CASE j = m + 1
        BY <4>1, <4>2, <3>2
      <4>3. CASE j \in 1..m
        BY <4>1, <4>3, <3>2, <2>1 DEF Places, m
      <4> QED BY <4>2, <4>3, <3>0
    <3>7. \A j \in 1..k : list[j] \in wanted => \E i \in 1..(m + 1) : next[i] = j
      <4> TAKE j \in 1..k
      <4> HAVE list[j] \in wanted
      <4>1. CASE j = k
        BY <4>1, <3>0, <3>2
      <4>2. CASE j \in 1..(k - 1)
        <5>1. PICK i \in 1..m : place[i] = j
          BY <4>2, <2>1 DEF Places, m
        <5> QED BY <5>1, <3>0, <3>2
      <4> QED BY <4>1, <4>2
    <3>8. m + 1 <= k
      BY <2>1, <3>0 DEF Places, m
    <3>9. Places(next, g[k], list, wanted, k)
      BY <3>1, <3>4, <3>5, <3>6, <3>7, <3>8 DEF Places
    <3> QED BY <3>9
  <2> QED BY <2>3, <2>4
<1>4. \A k \in 0..n : right[k] <=> Placed(k)
  OBVIOUS
<1>5. right \in [0..n -> BOOLEAN]
  <2>1. \A k \in 0..n : Placed(k) \in BOOLEAN
    OBVIOUS
  <2> HIDE DEF Placed
  <2> QED BY <2>1
<1> HIDE DEF Placed, right
<1>6. right[0]
  BY <1>0, <1>2, <1>4
<1>7. ASSUME NEW k \in 1..n, right[k - 1]
      PROVE  right[k]
  BY <1>0, <1>3, <1>4, <1>7
<1>8. right[n]
  <2>1. \A k \in 0..n : right[k]
    <3> HIDE DEF n
    <3> QED BY <1>0, <1>5, <1>6, <1>7, LeastWrong
  <2> QED BY <2>1, <1>0
<1> QED BY <1>0, <1>1, <1>4, <1>8 DEF Placed

\* The items of a sequence; each of them once.
Items(list) == {list[i] : i \in 1..Len(list)}
Once(list) == \A i, j \in 1..Len(list) : list[i] = list[j] => i = j

\* Kept returns the items that are wanted, each as often as it was there.
LEMMA KeptItems ==
  ASSUME NEW S, NEW list \in Seq(S), NEW wanted
  PROVE  /\ Kept(list, wanted) \in Seq(S)
         /\ Items(Kept(list, wanted)) = Items(list) \cap wanted
         /\ Once(list) => Once(Kept(list, wanted))
         /\ Len(Kept(list, wanted)) <= Len(list)
<1> DEFINE kept == Kept(list, wanted)
<1>1. kept \in Seq(S) /\ \E place : Places(place, kept, list, wanted, Len(list))
  BY KeptPlaces
<1> HIDE DEF kept
<1>2. PICK place : Places(place, kept, list, wanted, Len(list))
  BY <1>1
<1>3. Len(kept) \in Nat
  BY <1>1
<1>4. Items(kept) \subseteq Items(list) \cap wanted
  BY <1>2 DEF Places, Items
<1>5. ASSUME NEW item \in Items(list), item \in wanted
      PROVE  item \in Items(kept)
  <2>1. PICK k \in 1..Len(list) : list[k] = item
    BY DEF Items
  <2>2. PICK i \in 1..Len(kept) : place[i] = k
    BY <1>2, <1>5, <2>1 DEF Places
  <2>3. kept[i] = item
    BY <1>2, <2>1, <2>2 DEF Places
  <2> QED BY <2>3 DEF Items
<1>6. ASSUME Once(list) PROVE Once(kept)
  <2> SUFFICES ASSUME NEW i \in 1..Len(kept), NEW j \in 1..Len(kept),
                      kept[i] = kept[j], i < j
               PROVE  FALSE
    BY <1>3 DEF Once
  <2>1. place[i] \in 1..Len(list) /\ place[j] \in 1..Len(list) /\ place[i] < place[j]
    BY <1>2 DEF Places
  <2>2. list[place[i]] = list[place[j]]
    BY <1>2 DEF Places
  <2>3. place[i] = place[j]
    BY <1>6, <2>1, <2>2 DEF Once
  <2> QED BY <2>1, <2>3
<1>7. Len(kept) <= Len(list)
  BY <1>2 DEF Places
<1> QED BY <1>1, <1>4, <1>5, <1>6, <1>7 DEF kept

\* What comes first of the items that are kept is the first one that is wanted.
LEMMA KeptHead ==
  ASSUME NEW S, NEW list \in Seq(S), NEW wanted
  PROVE  /\ Kept(list, wanted) = <<>> <=> \A k \in 1..Len(list) : list[k] \notin wanted
         /\ Kept(list, wanted) # <<>> =>
              \E k \in 1..Len(list) :
                /\ Head(Kept(list, wanted)) = list[k] /\ list[k] \in wanted
                /\ \A j \in 1..(k - 1) : list[j] \notin wanted
<1> DEFINE kept == Kept(list, wanted)
<1>1. kept \in Seq(S) /\ \E place : Places(place, kept, list, wanted, Len(list))
  BY KeptPlaces
<1> HIDE DEF kept
<1>2. PICK place : Places(place, kept, list, wanted, Len(list))
  BY <1>1
<1>3. Len(kept) \in Nat /\ (kept = <<>> <=> Len(kept) = 0)
  BY <1>1, EmptySeq
<1>4. ASSUME kept = <<>>
      PROVE  \A k \in 1..Len(list) : list[k] \notin wanted
  BY <1>2, <1>3, <1>4 DEF Places
<1>5. ASSUME kept # <<>>
      PROVE  \E k \in 1..Len(list) :
               /\ Head(kept) = list[k] /\ list[k] \in wanted
               /\ \A j \in 1..(k - 1) : list[j] \notin wanted
  <2>1. 1 \in 1..Len(kept) /\ Head(kept) = kept[1]
    BY <1>1, <1>3, <1>5
  <2>2. place[1] \in 1..Len(list) /\ kept[1] = list[place[1]] /\ kept[1] \in wanted
    BY <1>2, <2>1 DEF Places
  <2>3. ASSUME NEW j \in 1..(place[1] - 1)
        PROVE  list[j] \notin wanted
    <3> SUFFICES ASSUME list[j] \in wanted PROVE FALSE
      OBVIOUS
    <3>1. j \in 1..Len(list) /\ j < place[1]
      BY <2>2
    <3>2. PICK i \in 1..Len(kept) : place[i] = j
      BY <1>2, <3>1 DEF Places
    <3>3. i = 1 \/ 1 < i
      BY <1>3
    <3>4. 1 < i => place[1] < place[i]
      BY <1>2, <2>1 DEF Places
    <3> QED BY <2>2, <3>1, <3>2, <3>3, <3>4
  <2> QED BY <2>1, <2>2, <2>3
<1> QED BY <1>4, <1>5 DEF kept

\* Nothing is lost when everything is wanted.
LEMMA KeptAll ==
  ASSUME NEW S, NEW list \in Seq(S), NEW wanted, \A k \in 1..Len(list) : list[k] \in wanted
  PROVE  Kept(list, wanted) = list
<1> DEFINE n == Len(list)
           Same(seq, k) == Len(seq) = k /\ \A i \in 1..k : seq[i] = list[i]
<1>0. n \in Nat /\ \A k \in 1..n : list[k] \in S /\ list[k] \in wanted
  OBVIOUS
<1>1. PICK g \in [0..n -> Seq(S)] : Keeps(g, list, wanted) /\ Kept(list, wanted) = g[n]
  BY KeptSteps
<1> DEFINE right == [k \in 0..n |-> Same(g[k], k)]
<1>2. Same(g[0], 0)
  BY <1>1 DEF Keeps
<1>3. ASSUME NEW k \in 1..n, Same(g[k - 1], k - 1)
      PROVE  Same(g[k], k)
  <2>1. k - 1 \in 0..n
    BY <1>0
  <2>2. g[k - 1] \in Seq(S)
    BY <2>1
  <2>3. g[k] = Append(g[k - 1], list[k])
    BY <1>0, <1>1 DEF Keeps
  <2>4. /\ Len(g[k]) = k
        /\ g[k][k] = list[k]
        /\ \A i \in 1..(k - 1) : g[k][i] = g[k - 1][i]
    <3> DEFINE h == g[k - 1]
    <3>1. h \in Seq(S) /\ Len(h) = k - 1 /\ list[k] \in S
      BY <1>0, <1>3, <2>2
    <3> HIDE DEF h
    <3>2. /\ Len(Append(h, list[k])) = k
          /\ Append(h, list[k])[k] = list[k]
          /\ \A i \in 1..(k - 1) : Append(h, list[k])[i] = h[i]
      BY <3>1, AppendProperties, <1>0
    <3> QED BY <2>3, <3>2 DEF h
  <2> QED BY <1>3, <2>4
<1>4. right \in [0..n -> BOOLEAN] /\ \A k \in 0..n : right[k] <=> Same(g[k], k)
  <2>1. \A k \in 0..n : Same(g[k], k) \in BOOLEAN
    OBVIOUS
  <2> HIDE DEF Same
  <2> QED BY <2>1
<1> HIDE DEF right, Same
<1>5. right[0]
  BY <1>0, <1>2, <1>4
<1>6. ASSUME NEW k \in 1..n, right[k - 1]
      PROVE  right[k]
  <2>1. k - 1 \in 0..n /\ k \in 0..n
    BY <1>0
  <2> QED BY <1>3, <1>4, <1>6, <2>1
<1>7. \A k \in 0..n : right[k]
  <2>1. right \in [0..n -> BOOLEAN]
    BY <1>4
  <2> HIDE DEF n
  <2> QED BY <1>0, <2>1, <1>5, <1>6, LeastWrong
<1>8. Same(g[n], n)
  BY <1>0, <1>4, <1>7
<1>9. g[n] \in Seq(S)
  BY <1>0
<1>10. g[n] = list
  BY <1>8, <1>9, SeqEqual DEF Same
<1> QED BY <1>1, <1>10
=============================================================================
