-------------------------- MODULE ServicesProofs --------------------------
(***************************************************************************)
(* What AddonManager, UserInterfaceManager, ServiceWatcher,                *)
(* WaylandKeyboard, InputBuffer and CandidateList promise, for any addons, *)
(* preferences, watchers, keys, applications, texts and words.             *)
(***************************************************************************)
EXTENDS AddonManager, UserInterfaceManager, ServiceWatcher, WaylandKeyboard,
        InputBuffer, CandidateList,
        FilterProofs, SequenceTheorems, FiniteSetTheorems, TLAPS

(***************************************************************************)
(* AddonManager: DependenciesOutlive, for any addons, any order of the table *)
(* and any dependencies.  What can be done without and was not there when an *)
(* addon was loaded must never come later: it has failed, and failures stay. *)
(***************************************************************************)

AddonTypes ==
  /\ catalog \in Catalogs
  /\ known \subseteq Addon
  /\ failed \subseteq Addon
  /\ loadOrder \in Seq(Addon)
  /\ at \in 0..Len(Table)
  /\ unloading \in BOOLEAN

Distinct == \A i, j \in DOMAIN loadOrder : loadOrder[i] = loadOrder[j] => i = j

\* What is loaded is known and has not failed, and passes see all addons.
LoadedWell ==
  /\ \A i \in DOMAIN loadOrder : loadOrder[i] \in known \ failed
  /\ at # 0 => known = Addon /\ ~unloading

\* The strengthening: where DependenciesOutlive speaks of what is loaded, this
\* speaks of what can still be loaded.
Outlived ==
  \A i \in DOMAIN loadOrder :
    /\ catalog.requires[loadOrder[i]] \subseteq Before(i)
    /\ catalog.optional[loadOrder[i]] \ catalog.onDemand \subseteq Before(i) \cup failed

AddonInv == AddonTypes /\ Distinct /\ LoadedWell /\ Outlived

-----------------------------------------------------------------------------

LEMMA CatalogTypes ==
  ASSUME NEW c \in Catalogs
  PROVE  /\ c.requires \in [Addon -> SUBSET Addon]
         /\ c.optional \in [Addon -> SUBSET Addon]
         /\ c.onDemand \subseteq Addon
  BY CatalogAssumption

\* The strengthened invariant says enough.
LEMMA InvImplies == AddonInv => DependenciesOutlive
<1> SUFFICES ASSUME AddonInv, NEW i \in DOMAIN loadOrder
             PROVE  /\ catalog.requires[loadOrder[i]] \subseteq Before(i)
                    /\ (catalog.optional[loadOrder[i]] \cap Loaded) \ catalog.onDemand
                         \subseteq Before(i)
  BY DEF DependenciesOutlive
<1>1. Loaded \cap failed = {}
  BY DEF AddonInv, LoadedWell, Loaded
<1>2. QED
  BY <1>1 DEF AddonInv, Outlived

LEMMA InitHolds == AddonInit => AddonInv
<1> SUFFICES ASSUME AddonInit PROVE AddonInv
  OBVIOUS
<1>1. loadOrder \in Seq(Addon) /\ DOMAIN loadOrder = {}
  BY DEF AddonInit
<1>2. at \in 0..Len(Table)
  BY TableAssumption DEF AddonInit
<1>3. QED
  BY <1>1, <1>2 DEF AddonInit, AddonInv, AddonTypes, Distinct, LoadedWell, Outlived

\* Steps that load and unload nothing: failures may only be of what is not loaded.
LEMMA Untouched ==
  ASSUME AddonInv, AddonTypes', LoadedWell',
         loadOrder' = loadOrder, catalog' = catalog, failed \subseteq failed'
  PROVE  AddonInv'
<1>1. Distinct'
  BY DEF AddonInv, Distinct
<1>2. \A i : Before(i)' = Before(i)
  BY DEF Before
<1>3. Outlived'
  BY <1>2 DEF AddonInv, Outlived
<1>4. QED
  BY <1>1, <1>3 DEF AddonInv

-----------------------------------------------------------------------------

LEMMA AdvanceTypes ==
  ASSUME at \in 0..Len(Table), at # 0, NEW b \in BOOLEAN, Advance(b)
  PROVE  at' \in 0..Len(Table)
  BY TableAssumption DEF Advance

\* An addon that is loaded finds all that it requires before it.
LEMMA LoadAddonHolds == AddonInv /\ LoadAddon => AddonInv'
<1> SUFFICES ASSUME AddonInv, LoadAddon PROVE AddonInv'
  OBVIOUS
<1> DEFINE a == Table[at]
<1>1. /\ at # 0 /\ at \in DOMAIN Table /\ a \in Addon
      /\ known = Addon /\ ~unloading
      /\ catalog' = catalog /\ known' = known /\ unloading' = unloading
  BY TableAssumption DEF AddonInv, AddonTypes, LoadedWell, LoadAddon, Addon
<1>2. CASE ~Considers(a)
  <2>1. /\ Advance(FALSE) /\ failed' = failed /\ loadOrder' = loadOrder
    BY <1>2 DEF LoadAddon
  <2>2. AddonTypes' /\ LoadedWell'
    BY <1>1, <2>1, AdvanceTypes DEF AddonInv, AddonTypes, LoadedWell
  <2>3. QED
    BY <1>1, <2>1, <2>2, Untouched
<1>3. CASE Considers(a)
  <2>1. PICK check \in CheckDependencies(a) :
          LET loads == check.result = "Satisfied" /\ catalog.status[a] = "works"
          IN  /\ failed' = IF \/ check.result = "Failed"
                              \/ check.result = "Satisfied" /\ ~loads
                           THEN failed \cup {a} ELSE failed
              /\ loadOrder' = IF loads THEN Append(loadOrder, a) ELSE loadOrder
              /\ \/ Advance(loads \/ check.result = "PendingUpdateRequest")
                 \/ at' = 0
    BY <1>3 DEF LoadAddon
  <2>2. at' \in 0..Len(Table)
    <3>1. Len(Table) \in Nat /\ at \in 0..Len(Table)
      BY TableAssumption DEF AddonInv, AddonTypes
    <3>2. CASE at' = 0
      BY <3>1, <3>2
    <3>3. ASSUME NEW b, Advance(b) PROVE at' \in 0..Len(Table)
      BY <1>1, <3>1, <3>3 DEF Advance
    <3>4. QED
      BY <2>1, <3>2, <3>3
  <2>3. a \notin Loaded /\ a \notin failed
    BY <1>3 DEF Considers, Loadable
  <2>4. CASE ~(check.result = "Satisfied" /\ catalog.status[a] = "works")
    <3>1. loadOrder' = loadOrder /\ failed \subseteq failed' /\ failed' \subseteq failed \cup {a}
      BY <2>1, <2>4
    <3>2. AddonTypes'
      BY <1>1, <2>2, <3>1 DEF AddonInv, AddonTypes
    <3>3. LoadedWell'
      BY <1>1, <2>3, <3>1 DEF AddonInv, LoadedWell, Loaded
    <3>4. QED
      BY <1>1, <3>1, <3>2, <3>3, Untouched
  <2>5. CASE check.result = "Satisfied" /\ catalog.status[a] = "works"
    <3>1. loadOrder' = Append(loadOrder, a) /\ failed' = failed
      BY <2>1, <2>5
    <3>2. Missing(a) = {} /\ OptionalReady(a)
      BY <2>5 DEF CheckDependencies
    <3> DEFINE n == Len(loadOrder)
    <3>3. /\ n \in Nat /\ DOMAIN loadOrder = 1..n /\ DOMAIN loadOrder' = 1..(n + 1)
          /\ \A i \in 1..n : loadOrder'[i] = loadOrder[i]
          /\ loadOrder'[n + 1] = a
          /\ loadOrder' \in Seq(Addon)
      BY <1>1, <3>1 DEF AddonInv, AddonTypes
    <3>4. AddonTypes'
      BY <1>1, <2>2, <3>1, <3>3 DEF AddonInv, AddonTypes
    <3>5. Distinct'
      BY <2>3, <3>3 DEF AddonInv, Distinct, Loaded
    <3>6. LoadedWell'
      BY <1>1, <2>3, <3>1, <3>3 DEF AddonInv, LoadedWell
    <3>7. \A i \in 1..(n + 1) : Before(i)' = {loadOrder[j] : j \in 1..(i - 1)}
      BY <3>3 DEF Before
    <3>8. \A i \in 1..(n + 1) : i = n + 1 => Before(i)' = Loaded
      <4>1. (n + 1) - 1 = n
        BY <3>3
      <4>2. {loadOrder[j] : j \in 1..n} = Loaded
        BY <3>3 DEF Loaded
      <4>3. QED
        BY <3>7, <4>1, <4>2
    <3>9. /\ catalog.requires[a] \subseteq Loaded
          /\ catalog.optional[a] \ catalog.onDemand \subseteq Loaded \cup failed
      <4>1. catalog.optional[a] \subseteq Addon
        BY <1>1, CatalogTypes DEF AddonInv, AddonTypes
      <4>2. QED
        BY <1>1, <3>2, <4>1 DEF Missing, OptionalReady, Loadable
    <3>10. Outlived'
      <4> SUFFICES ASSUME NEW i \in 1..(n + 1)
                   PROVE  /\ catalog.requires[loadOrder'[i]] \subseteq Before(i)'
                          /\ catalog.optional[loadOrder'[i]] \ catalog.onDemand
                               \subseteq Before(i)' \cup failed
        BY <1>1, <3>1, <3>3 DEF Outlived
      <4>1. CASE i = n + 1
        <5>1. loadOrder'[i] = a
          BY <3>3, <4>1
        <5>2. Before(i)' = Loaded
          BY <3>8, <4>1
        <5>3. QED
          BY <3>9, <5>1, <5>2
      <4>2. CASE i # n + 1
        <5>1. i \in 1..n /\ loadOrder'[i] = loadOrder[i]
          BY <3>3, <4>2
        <5>2. Before(i)' = Before(i)
          BY <3>7 DEF Before
        <5>3. QED
          BY <3>3, <5>1, <5>2 DEF AddonInv, Outlived
      <4>3. QED
        BY <4>1, <4>2
    <3>11. QED
      BY <3>4, <3>5, <3>6, <3>10 DEF AddonInv
  <2>6. QED
    BY <2>4, <2>5
<1>4. QED
  BY <1>2, <1>3

\* The addon that is unloaded is the last: nothing that is left needs it.
LEMMA UnloadHolds == AddonInv /\ UnloadNext => AddonInv'
<1> SUFFICES ASSUME AddonInv, UnloadNext PROVE AddonInv'
  OBVIOUS
<1> DEFINE n == Len(loadOrder)
<1>1. /\ n \in Nat /\ n # 0 /\ DOMAIN loadOrder = 1..n
      /\ loadOrder' = SubSeq(loadOrder, 1, n - 1)
      /\ known' = known \ {loadOrder[n]}
      /\ catalog' = catalog /\ failed' = failed /\ at' = at /\ unloading' = unloading
      /\ at = 0
  BY DEF AddonInv, AddonTypes, LoadedWell, UnloadNext
<1>2. /\ loadOrder' \in Seq(Addon) /\ DOMAIN loadOrder' = 1..(n - 1)
      /\ \A i \in 1..(n - 1) : loadOrder'[i] = loadOrder[i]
  BY <1>1 DEF AddonInv, AddonTypes
<1>3. AddonTypes'
  BY <1>1, <1>2 DEF AddonInv, AddonTypes
<1>4. Distinct'
  BY <1>1, <1>2 DEF AddonInv, Distinct
<1>5. LoadedWell'
  BY <1>1, <1>2 DEF AddonInv, LoadedWell, Distinct
<1>6. ASSUME NEW i \in 1..(n - 1) PROVE Before(i)' = Before(i)
  <2>1. \A j \in 1..(i - 1) : j \in 1..(n - 1)
    BY <1>1
  <2>2. \A j \in 1..(i - 1) : loadOrder'[j] = loadOrder[j]
    BY <1>2, <2>1
  <2> QED BY <2>2 DEF Before
<1>7. Outlived'
  BY <1>1, <1>2, <1>6 DEF AddonInv, Outlived
<1>8. QED
  BY <1>3, <1>4, <1>5, <1>7 DEF AddonInv

LEMMA StepHolds == AddonInv /\ [AddonNext]_addonVars => AddonInv'
<1> SUFFICES ASSUME AddonInv, [AddonNext]_addonVars PROVE AddonInv'
  OBVIOUS
<1>1. CASE UNCHANGED addonVars
  <2>1. AddonTypes' /\ LoadedWell'
    BY <1>1 DEF AddonInv, AddonTypes, LoadedWell, addonVars
  <2>2. QED
    BY <1>1, <2>1, Untouched DEF addonVars
<1>2. ASSUME StartLoading, at = 0, known' = Addon
      PROVE  at' \in 0..Len(Table)
  BY <1>2, TableAssumption DEF StartLoading
<1>3. CASE Exit
  <2>1. AddonTypes' /\ LoadedWell'
    BY <1>3 DEF AddonInv, AddonTypes, LoadedWell, Exit
  <2>2. QED
    BY <1>3, <2>1, Untouched DEF Exit
<1>4. CASE Load
  <2>1. at' \in 0..Len(Table)
    BY <1>2, <1>4 DEF Load
  <2>2. /\ failed \subseteq failed' /\ failed' \subseteq Addon
        /\ failed' \cap known \subseteq failed
    BY <1>4 DEF Load, AddonInv, AddonTypes
  <2>3. AddonTypes' /\ LoadedWell'
    BY <1>4, <2>1, <2>2 DEF AddonInv, AddonTypes, LoadedWell, Load
  <2>4. QED
    BY <1>4, <2>2, <2>3, Untouched DEF Load
<1>5. ASSUME NEW a \in Addon, Request(a) PROVE AddonInv'
  <2>1. at' \in 0..Len(Table) /\ (at' # 0 => known = Addon /\ ~unloading)
    BY <1>5, TableAssumption DEF AddonInv, AddonTypes, Request, StartLoading
  <2>2. AddonTypes' /\ LoadedWell'
    BY <1>5, <2>1 DEF AddonInv, AddonTypes, LoadedWell, Request
  <2>3. QED
    BY <1>5, <2>2, Untouched DEF Request
<1>6. CASE StartUnloading
  <2>1. AddonTypes' /\ LoadedWell'
    BY <1>6 DEF AddonInv, AddonTypes, LoadedWell, StartUnloading
  <2>2. QED
    BY <1>6, <2>1, Untouched DEF StartUnloading
<1>7. CASE EndUnloading
  <2>1. AddonTypes' /\ LoadedWell'
    BY <1>7 DEF AddonInv, AddonTypes, LoadedWell, EndUnloading
  <2>2. QED
    BY <1>7, <2>1, Untouched DEF EndUnloading
<1>8. QED
  BY <1>1, <1>3, <1>4, <1>5, <1>6, <1>7, LoadAddonHolds, UnloadHolds DEF AddonNext

\* Whatever the files say, whatever the order of the table, and whenever addons are
\* requested: an addon is loaded after and unloaded before what it depends on.
THEOREM DependenciesOutliveAlways == AddonSpec => []DependenciesOutlive
<1>1. AddonInit => AddonInv
  BY InitHolds
<1>2. AddonInv /\ [AddonNext]_addonVars => AddonInv'
  BY StepHolds
<1>3. AddonInv => DependenciesOutlive
  BY InvImplies
<1>4. QED
  BY <1>1, <1>2, <1>3, PTL DEF AddonSpec

-----------------------------------------------------------------------------

(***************************************************************************)
(* LoadingCompletes.  What a pass has passed over waits for somebody, and   *)
(* as long as the pass changes nothing it goes on waiting: only failures    *)
(* are added, and what has failed cannot be what is left to be asked for.   *)
(***************************************************************************)

\* a is not for this pass, or waits for one that was neither loaded nor asked for.
Waits(a) ==
  Considers(a) =>
    \/ /\ Missing(a) = {}
       /\ \E dep \in catalog.optional[a] : dep \in known /\ dep \notin Loaded \cup catalog.onDemand
    \/ \E dep \in Missing(a) : dep \notin catalog.onDemand \ (requested \cup failed)

PassInv ==
  /\ changed \in BOOLEAN
  /\ settled => ~unloading /\ ~quitting /\ at = 0 /\ \A a \in Addon : Waits(a)
  /\ at # 0 /\ ~changed => \A i \in 1..(at - 1) : Waits(Table[i])

\* Failures keep nobody from waiting.
LEMMA WaitsStays ==
  ASSUME NEW a, Waits(a), loadOrder' = loadOrder, requested' = requested, known' = known,
         catalog' = catalog, failed \subseteq failed'
  PROVE  Waits(a)'
<1>1. Loaded' = Loaded
  BY DEF Loaded
<1>2. Missing(a)' = Missing(a)
  BY <1>1 DEF Missing
<1>3. Considers(a)' => Considers(a)
  BY <1>1 DEF Considers, Loadable
<1> QED BY <1>1, <1>2, <1>3 DEF Waits

\* An addon that is neither loaded nor has anyone asked for waits.
LEMMA PassedOverWaits ==
  ASSUME AddonInv, NEW a \in Addon, known = Addon, Considers(a),
         NEW check \in CheckDependencies(a), check.result = "Pending"
  PROVE  Waits(a) /\ check.asks = {}
<1>1. catalog.requires[a] \subseteq Addon /\ catalog.optional[a] \subseteq Addon
  BY CatalogTypes DEF AddonInv, AddonTypes
<1>2. CASE Missing(a) = {}
  <2>1. ~OptionalReady(a) /\ check.asks = {}
    BY <1>2 DEF CheckDependencies
  <2>2. PICK dep \in catalog.optional[a] : Loadable(dep) /\ dep \notin Loaded \cup catalog.onDemand
    BY <2>1 DEF OptionalReady
  <2> QED BY <1>2, <2>1, <2>2 DEF Waits, Loadable
<1>3. CASE Missing(a) # {}
  <2>1. PICK dep \in Missing(a) :
          check = IF ~Loadable(dep) THEN [result |-> "Failed", asks |-> {}]
                  ELSE IF dep \in catalog.onDemand \ requested
                  THEN [result |-> "PendingUpdateRequest", asks |-> {dep}]
                  ELSE [result |-> "Pending", asks |-> {}]
    BY <1>3 DEF CheckDependencies
  <2>2. dep \notin catalog.onDemand \ requested /\ check.asks = {}
    BY <2>1
  <2> QED BY <2>1, <2>2 DEF Waits
<1> QED BY <1>2, <1>3

\* One iteration that changes nothing.
LEMMA IterationWaits ==
  ASSUME AddonInv, LoadAddon, NEW a, a = Table[at],
         Considers(a) =>
           \E check \in CheckDependencies(a) :
             /\ ~(check.result = "Satisfied" /\ catalog.status[a] = "works")
             /\ check.result # "PendingUpdateRequest"
             /\ failed' = IF check.result \in {"Failed", "Satisfied"}
                          THEN failed \cup {a} ELSE failed
             /\ loadOrder' = loadOrder
             /\ requested' = requested \cup check.asks,
         ~Considers(a) => failed' = failed /\ loadOrder' = loadOrder
                                  /\ requested' = requested
  PROVE  /\ \A b : Waits(b) => Waits(b)'
         /\ Waits(a)'
<1>1. a \in Addon /\ known = Addon /\ known' = known /\ catalog' = catalog
  BY TableAssumption DEF AddonInv, AddonTypes, LoadedWell, LoadAddon, Addon
<1>2. CASE ~Considers(a)
  <2>1. Waits(a)
    BY <1>2 DEF Waits
  <2> QED BY <1>1, <1>2, <2>1, WaitsStays
<1>3. CASE Considers(a)
  <2>1. PICK check \in CheckDependencies(a) :
          /\ ~(check.result = "Satisfied" /\ catalog.status[a] = "works")
          /\ check.result # "PendingUpdateRequest"
          /\ failed' = IF check.result \in {"Failed", "Satisfied"}
                       THEN failed \cup {a} ELSE failed
          /\ loadOrder' = loadOrder
          /\ requested' = requested \cup check.asks
    BY <1>3
  <2>2. check.result \in {"Satisfied", "Failed", "Pending"}
    BY <2>1 DEF CheckDependencies
  <2>3. check.asks = {}
    BY <2>1 DEF CheckDependencies
  <2>4. failed \subseteq failed' /\ requested' = requested
    BY <2>1, <2>3
  <2>5. \A b : Waits(b) => Waits(b)'
    BY <1>1, <2>1, <2>4, WaitsStays
  <2>6. CASE check.result = "Pending"
    <3>1. Waits(a)
      BY <1>1, <1>3, <2>6, PassedOverWaits
    <3> QED BY <2>5, <3>1
  <2>7. CASE check.result # "Pending"
    <3>1. a \in failed'
      BY <2>1, <2>2, <2>7
    <3> QED BY <2>5, <3>1 DEF Waits, Considers, Loadable
  <2> QED BY <2>6, <2>7
<1> QED BY <1>2, <1>3

LEMMA PassGoesOn ==
  ASSUME AddonInv, PassInv, LoadAddon
  PROVE  PassInv'
<1> DEFINE n == Len(Table)
<1>1. /\ at \in 1..n /\ n \in Nat /\ unloading' = unloading /\ ~unloading
      /\ \A b \in Addon : \E i \in 1..n : b = Table[i]
      /\ settled' = (at' = 0 /\ ~quitting')
      /\ changed \in BOOLEAN /\ Addon' = Addon
  BY TableAssumption DEF AddonInv, AddonTypes, LoadedWell, LoadAddon, Addon, PassInv
<1> PICK a : a = Table[at]
  OBVIOUS
<1> HIDE DEF n
<1>2. ASSUME quitting', at' = 0, changed' \in BOOLEAN PROVE PassInv'
  BY <1>1, <1>2 DEF PassInv
<1>3. ASSUME at' = 1, changed' \in BOOLEAN PROVE PassInv'
  <2>1. 1..(at' - 1) = {} /\ at' # 0
    BY <1>3
  <2>2. settled' = FALSE
    BY <1>1, <2>1
  <2> QED BY <1>3, <2>1, <2>2 DEF PassInv
<1>4. ASSUME at' # 0, changed' = TRUE PROVE PassInv'
  <2>1. settled' = FALSE
    BY <1>1, <1>4
  <2> QED BY <1>4, <2>1 DEF PassInv
<1>5. CASE Advance(TRUE)
  <2>1. CASE at < n
    <3>1. at' = at + 1 /\ changed' = TRUE
      BY <1>1, <1>5, <2>1 DEF Advance, n
    <3> QED BY <1>1, <1>4, <3>1
  <2>2. CASE ~(at < n)
    <3>1. at' = 1 /\ changed' = FALSE
      BY <1>1, <1>5, <2>2 DEF Advance, n
    <3> QED BY <1>3, <3>1
  <2> QED BY <2>1, <2>2
<1>6. ASSUME Advance(FALSE), \A b : Waits(b) => Waits(b)', Waits(a)', quitting' = quitting
      PROVE  PassInv'
  <2>1. CASE changed = TRUE
    <3>1. CASE at < n
      <4>1. at' = at + 1 /\ changed' = TRUE
        BY <1>1, <1>6, <2>1, <3>1 DEF Advance, n
      <4> QED BY <1>1, <1>4, <4>1
    <3>2. CASE ~(at < n)
      <4>1. at' = 1 /\ changed' = FALSE
        BY <1>1, <1>6, <2>1, <3>2 DEF Advance, n
      <4> QED BY <1>3, <4>1
    <3> QED BY <3>1, <3>2
  <2>2. CASE changed = FALSE
    <3>1. ASSUME NEW b, NEW i \in 1..at, b = Table[i] PROVE Waits(b)'
      <4>1. CASE i = at
        BY <1>6, <3>1, <4>1
      <4>2. CASE i # at
        <5>1. i \in 1..(at - 1) /\ at # 0
          BY <1>1, <4>2
        <5>2. Waits(b)
          BY <2>2, <3>1, <5>1 DEF PassInv
        <5> QED BY <1>6, <5>2
      <4> QED BY <4>1, <4>2
    <3>2. CASE at < n
      <4>1. at' = at + 1 /\ at' # 0 /\ at' - 1 = at /\ changed' = FALSE
        BY <1>1, <1>6, <2>2, <3>2 DEF Advance, n
      <4>2. settled' = FALSE
        BY <1>1, <4>1
      <4>3. \A i \in 1..at : Waits(Table[i])'
        BY <3>1
      <4>4. 1..(at' - 1) = 1..at
        BY <4>1
      <4> QED BY <4>1, <4>2, <4>3, <4>4 DEF PassInv
    <3>3. CASE ~(at < n)
      <4>1. at' = 0 /\ at = n /\ changed' = FALSE
        BY <1>1, <1>6, <2>2, <3>3 DEF Advance, n
      <4>2. \A b \in Addon : Waits(b)'
        BY <1>1, <3>1, <4>1
      <4>3. settled' => ~quitting'
        BY <1>1
      <4> QED BY <1>1, <4>1, <4>2, <4>3 DEF PassInv
    <3> QED BY <3>2, <3>3
  <2> QED BY <1>1, <2>1, <2>2
<1>7. CASE ~Considers(a)
  <2>1. /\ Advance(FALSE) /\ failed' = failed /\ loadOrder' = loadOrder
        /\ requested' = requested /\ quitting' = quitting
    BY <1>7 DEF LoadAddon
  <2>2. (\A b : Waits(b) => Waits(b)') /\ Waits(a)'
    BY <1>7, <2>1, IterationWaits
  <2> QED BY <1>6, <2>1, <2>2
<1>8. CASE Considers(a)
  <2>1. PICK check \in CheckDependencies(a) :
          LET loads == check.result = "Satisfied" /\ catalog.status[a] = "works"
          IN  /\ failed' = IF \/ check.result = "Failed"
                              \/ check.result = "Satisfied" /\ ~loads
                           THEN failed \cup {a} ELSE failed
              /\ loadOrder' = IF loads THEN Append(loadOrder, a) ELSE loadOrder
              /\ requested' = requested \cup check.asks
              /\ \/ /\ Advance(loads \/ check.result = "PendingUpdateRequest")
                    /\ UNCHANGED quitting
                 \/ loads /\ quitting' = TRUE /\ at' = 0 /\ changed' = FALSE
    BY <1>8 DEF LoadAddon
  <2> DEFINE loads == check.result = "Satisfied" /\ catalog.status[a] = "works"
             changes == loads \/ check.result = "PendingUpdateRequest"
  <2>2. CASE ~changes
    <3>1. /\ failed' = IF check.result \in {"Failed", "Satisfied"}
                       THEN failed \cup {a} ELSE failed
          /\ loadOrder' = loadOrder /\ Advance(FALSE) /\ quitting' = quitting
          /\ check.result # "PendingUpdateRequest"
      <4>1. changes = FALSE /\ loads = FALSE
        BY <2>2
      <4>2. Advance(changes) /\ quitting' = quitting
        BY <2>1, <4>1
      <4> QED BY <2>1, <4>1, <4>2
    <3>2. (\A b : Waits(b) => Waits(b)') /\ Waits(a)'
      BY <1>8, <2>1, <2>2, <3>1, IterationWaits
    <3> QED BY <1>6, <3>1, <3>2
  <2>3. CASE changes
    <3>1. changes = TRUE
      BY <2>3
    <3>2. Advance(TRUE) \/ (quitting' /\ at' = 0 /\ changed' \in BOOLEAN)
      <4>1. Advance(changes) \/ (quitting' /\ at' = 0 /\ changed' \in BOOLEAN)
        BY <2>1
      <4> HIDE DEF changes
      <4> QED BY <3>1, <4>1
    <3> QED BY <1>2, <1>5, <3>2
  <2> QED BY <2>2, <2>3
<1> QED BY <1>7, <1>8

LEMMA PassHolds == AddonInv /\ PassInv /\ [AddonNext]_addonVars => PassInv'
<1> SUFFICES ASSUME AddonInv, PassInv, [AddonNext]_addonVars PROVE PassInv'
  OBVIOUS
<1>0. 1..(1 - 1) = {} /\ Len(Table) \in Nat
  BY TableAssumption
<1>1. CASE UNCHANGED addonVars
  <2>1. \A a : Waits(a)' <=> Waits(a)
    BY <1>1 DEF Waits, Considers, Missing, Loaded, Loadable, addonVars
  <2> QED BY <1>1, <2>1 DEF PassInv, addonVars
<1>2. ASSUME at = 0, StartLoading, changed' = changed, quitting' = quitting,
             unloading' = unloading
      PROVE  PassInv'
  <2>1. CASE quitting
    BY <1>2, <2>1 DEF StartLoading, PassInv
  <2>2. CASE ~quitting
    <3>1. /\ settled' = FALSE /\ (at' = 0 \/ at' = 1)
          /\ changed' \in BOOLEAN
      BY <1>2, <2>2 DEF StartLoading, PassInv
    <3>2. CASE at' = 0
      BY <3>1, <3>2 DEF PassInv
    <3>3. CASE at' = 1
      <4>1. 1..(at' - 1) = {}
        BY <1>0, <3>3
      <4> QED BY <3>1, <3>3, <4>1 DEF PassInv
    <3> QED BY <3>1, <3>2, <3>3
  <2> QED BY <2>1, <2>2
<1>3. CASE Load
  BY <1>2, <1>3 DEF Load
<1>4. CASE Exit
  BY <1>4 DEF Exit, PassInv
<1>5. ASSUME NEW a \in Addon, Request(a) PROVE PassInv'
  <2>1. CASE unloading
    BY <1>5, <2>1 DEF Request, PassInv
  <2>2. CASE ~unloading
    BY <1>2, <1>5, <2>2 DEF Request
  <2> QED BY <2>1, <2>2
<1>6. CASE StartUnloading
  BY <1>6 DEF StartUnloading, PassInv
<1>7. CASE UnloadNext
  BY <1>7 DEF UnloadNext, PassInv, AddonInv, LoadedWell
<1>8. CASE EndUnloading
  BY <1>8 DEF EndUnloading, PassInv, AddonInv, LoadedWell
<1> QED BY <1>1, <1>3, <1>4, <1>5, <1>6, <1>7, <1>8, PassGoesOn DEF AddonNext

\* Whatever the files say and whatever the order of the table, loading does not
\* end while an addon could be loaded, except for one that waited for an optional
\* one that failed, nor before what is on demand was requested.
THEOREM LoadingCompletesAlways == AddonSpec => []LoadingCompletes
<1>1. AddonInit => PassInv
  BY DEF AddonInit, PassInv
<1>2. AddonInv /\ PassInv => LoadingCompletes
  <2> SUFFICES ASSUME AddonInv, PassInv, settled
               PROVE  /\ \A a \in LeftOut : catalog.optional[a] \cap failed # {}
                      /\ \A a \in Addon :
                           Considers(a) /\ Missing(a) # {}
                             => ~(Missing(a) \subseteq catalog.onDemand \ (requested \cup failed))
    BY DEF LoadingCompletes
  <2>1. ASSUME NEW a \in LeftOut PROVE catalog.optional[a] \cap failed # {}
    <3>1. a \in Addon /\ Considers(a) /\ Missing(a) = {} /\ OptionalReady(a)
      BY DEF LeftOut
    <3>2. Waits(a)
      BY <3>1 DEF PassInv
    <3>3. PICK dep \in catalog.optional[a] :
            dep \in known /\ dep \notin Loaded \cup catalog.onDemand
      BY <3>1, <3>2 DEF Waits
    <3>4. ~Loadable(dep)
      BY <3>1, <3>3 DEF OptionalReady
    <3> QED BY <3>3, <3>4 DEF Loadable
  <2>2. ASSUME NEW a \in Addon, Considers(a), Missing(a) # {}
        PROVE  ~(Missing(a) \subseteq catalog.onDemand \ (requested \cup failed))
    BY <2>2 DEF PassInv, Waits
  <2> QED BY <2>1, <2>2
<1>3. AddonInit => AddonInv
  BY InitHolds
<1>4. AddonInv /\ [AddonNext]_addonVars => AddonInv'
  BY StepHolds
<1> QED BY <1>1, <1>2, <1>3, <1>4, PassHolds, PTL DEF AddonSpec

(***************************************************************************)
(* UserInterfaceManager: UIAgrees.  Handlers hand the state on; after each of *)
(* them the UI is the best there is, because it depends on nothing but the *)
(* mode and what is available, and the flag is what the addon says.  The   *)
(* addon in turn knows how its service stands once it has read the news.   *)
(***************************************************************************)

Modes == {"PhysicalKeyboard", "OnScreenKeyboard"}

Managers ==
  [mode : Modes, ui : UserInterfaces \cup {NoUI}, flag : BOOLEAN,
   available : SUBSET UserInterfaces, visible : BOOLEAN, resumed : SUBSET UserInterfaces]

\* What handlers hand on.
UIStates == [m : Managers, s : {"absent", "hidden", "shown"}]

\* One UI is not suspended.
OneResumed(now) == now.m.resumed = {now.m.ui} \ {NoUI}

\* What the manager says to be visible is what the virtual keyboard says.
FlagIsRight(now) == now.m.flag = (now.m.ui = "virtualkeyboard" /\ now.m.visible)

Chosen(now, order) ==
  OneResumed(now) /\ FlagIsRight(now) /\ now.m.ui = BestUI(now.m, order)

\* The addon knows how its service stands.
Informed(now) ==
  /\ "virtualkeyboard" \in now.m.available <=> now.s # "absent"
  /\ now.m.visible => now.s = "shown"

UITypes ==
  /\ uis \in Seq(UserInterfaces)
  /\ UINow \in UIStates
  /\ news \in Seq(BOOLEAN)

\* The last of the news is true, and with none left the addon is informed.
NewsAreTrue ==
  /\ news = <<>> => Informed(UINow)
  /\ news # <<>> => news[Len(news)] = (service # "absent")

UIInv == UITypes /\ Chosen(UINow, uis) /\ NewsAreTrue

-----------------------------------------------------------------------------

\* What can be chosen depends on the mode and on what is available alone.
LEMMA BestIsOne ==
  ASSUME NEW m \in Managers, NEW order \in Seq(UserInterfaces)
  PROVE  BestUI(m, order) \in UserInterfaces \cup {NoUI}
<1> DEFINE valid == Kept(order, {ui \in UserInterfaces : Valid(m, ui)})
<1>1. valid \in Seq(UserInterfaces)
  BY KeptItems
<1>2. valid # <<>> => Head(valid) \in UserInterfaces
  <2> HIDE DEF valid
  <2> QED BY <1>1
<1> QED BY <1>2 DEF BestUI

LEMMA BestStays ==
  ASSUME NEW m, NEW n, NEW order, m.mode = n.mode, m.available = n.available
  PROVE  BestUI(m, order) = BestUI(n, order)
  BY DEF BestUI, Valid

\* What each step of a handler leaves as it is: the choice and who may be chosen.
SameChoice(was, now) ==
  /\ now.m.mode = was.m.mode
  /\ now.m.available = was.m.available
  /\ now.m.ui = was.m.ui

\* The service does not begin or end, and who was informed stays so.
Harmless(was, now) ==
  /\ now.s = "absent" <=> was.s = "absent"
  /\ Informed(was) => Informed(now)

LEMMA UpdateVisibilityFacts ==
  ASSUME NEW now \in UIStates
  PROVE  LET new == UpdateVisibility(now)
         IN  /\ new \in UIStates /\ SameChoice(now, new) /\ Harmless(now, new)
             /\ FlagIsRight(new)
             /\ new.m.resumed = now.m.resumed /\ new.m.visible = now.m.visible
             /\ new.s = now.s
  BY DEF UpdateVisibility, UIStates, Managers, SameChoice, Harmless, FlagIsRight, Informed

LEMMA SetVisibleFacts ==
  ASSUME NEW now \in UIStates, NEW visible \in BOOLEAN
  PROVE  LET new == SetVisible(now, visible)
         IN  /\ new \in UIStates /\ SameChoice(now, new)
             /\ FlagIsRight(now) => FlagIsRight(new)
             /\ new.m.resumed = now.m.resumed /\ new.m.visible = visible
             /\ new.s = now.s
<1> DEFINE moved == [now EXCEPT !.m.visible = visible]
<1>1. /\ moved \in UIStates /\ SameChoice(now, moved)
      /\ moved.m.resumed = now.m.resumed /\ moved.m.visible = visible
      /\ moved.s = now.s
  BY DEF UIStates, Managers, SameChoice
<1>2. CASE now.m.visible = visible
  BY <1>2 DEF SetVisible, SameChoice
<1>3. CASE now.m.visible # visible
  <2>1. SetVisible(now, visible) = UpdateVisibility(moved)
    BY <1>3 DEF SetVisible
  <2> HIDE DEF moved
  <2> QED BY <2>1, <1>1, UpdateVisibilityFacts DEF SameChoice
<1> QED BY <1>2, <1>3

LEMMA ShowFacts ==
  ASSUME NEW now \in UIStates
  PROVE  LET new == Show(now)
         IN  /\ new \in UIStates /\ SameChoice(now, new) /\ Harmless(now, new)
             /\ FlagIsRight(now) => FlagIsRight(new)
             /\ new.m.resumed = now.m.resumed
<1> DEFINE set == SetVisible(now, TRUE)
           new == [set EXCEPT !.s = IF @ = "absent" THEN @ ELSE "shown"]
<1>1. /\ set \in UIStates /\ SameChoice(now, set)
      /\ FlagIsRight(now) => FlagIsRight(set)
      /\ set.m.resumed = now.m.resumed /\ set.m.visible = TRUE /\ set.s = now.s
  BY SetVisibleFacts
<1>2. CASE "virtualkeyboard" \notin now.m.available
  BY <1>2 DEF Show, SameChoice, Harmless
<1>3. CASE "virtualkeyboard" \in now.m.available
  <2>1. Show(now) = new
    BY <1>3 DEF Show
  <2> HIDE DEF set
  <2>2. new \in UIStates /\ new.m = set.m /\ new.s = IF set.s = "absent" THEN "absent" ELSE "shown"
    BY <1>1 DEF UIStates
  <2> HIDE DEF new
  <2> QED BY <2>1, <2>2, <1>1, <1>3 DEF SameChoice, Harmless, Informed, FlagIsRight, UIStates
<1> QED BY <1>2, <1>3

LEMMA HideFacts ==
  ASSUME NEW now \in UIStates
  PROVE  LET new == Hide(now)
         IN  /\ new \in UIStates /\ SameChoice(now, new) /\ Harmless(now, new)
             /\ FlagIsRight(now) => FlagIsRight(new)
             /\ new.m.resumed = now.m.resumed
<1> DEFINE set == SetVisible(now, FALSE)
           new == [set EXCEPT !.s = IF @ = "absent" THEN @ ELSE "hidden"]
<1>1. /\ set \in UIStates /\ SameChoice(now, set)
      /\ FlagIsRight(now) => FlagIsRight(set)
      /\ set.m.resumed = now.m.resumed /\ set.m.visible = FALSE /\ set.s = now.s
  BY SetVisibleFacts
<1>2. CASE "virtualkeyboard" \notin now.m.available
  BY <1>2 DEF Hide, SameChoice, Harmless
<1>3. CASE "virtualkeyboard" \in now.m.available
  <2>1. Hide(now) = new
    BY <1>3 DEF Hide
  <2> HIDE DEF set
  <2>2. new \in UIStates /\ new.m = set.m /\ new.s = IF set.s = "absent" THEN "absent" ELSE "hidden"
    BY <1>1 DEF UIStates
  <2> HIDE DEF new
  <2> QED BY <2>1, <2>2, <1>1, <1>3 DEF SameChoice, Harmless, Informed, FlagIsRight, UIStates
<1> QED BY <1>2, <1>3

LEMMA SuspendFacts ==
  ASSUME NEW now \in UIStates, NEW ui
  PROVE  LET new == Suspend(now, ui)
         IN  /\ new \in UIStates /\ SameChoice(now, new) /\ Harmless(now, new)
             /\ new.m.resumed = now.m.resumed \ {ui}
<1> DEFINE off == [now EXCEPT !.m.resumed = @ \ {ui}]
<1>1. /\ off \in UIStates /\ SameChoice(now, off) /\ Harmless(now, off)
      /\ off.m.resumed = now.m.resumed \ {ui}
  BY DEF UIStates, Managers, SameChoice, Harmless, Informed
<1>2. Suspend(now, ui) = IF ui = "virtualkeyboard" THEN Hide(off) ELSE off
  BY DEF Suspend
<1> HIDE DEF off
<1> QED BY <1>1, <1>2, HideFacts DEF SameChoice, Harmless

\* Whatever was the UI before, the best is afterwards, and alone.
LEMMA UpdateAvailabilityFacts ==
  ASSUME NEW now \in UIStates, NEW order \in Seq(UserInterfaces), OneResumed(now)
  PROVE  LET new == UpdateAvailability(now, order)
         IN  /\ new \in UIStates /\ Harmless(now, new) /\ Chosen(new, order)
             /\ new.m.mode = now.m.mode /\ new.m.available = now.m.available
<1> DEFINE newUI == BestUI(now.m, order)
           off == Suspend(now, now.m.ui)
           moved == [off EXCEPT !.m.resumed = (@ \cup {newUI}) \ {NoUI}, !.m.ui = newUI]
           switched == IF newUI = now.m.ui THEN now ELSE moved
<1>1. newUI \in UserInterfaces \cup {NoUI} /\ now.m \in Managers
  BY BestIsOne DEF UIStates
<1>2. /\ off \in UIStates /\ SameChoice(now, off) /\ Harmless(now, off)
      /\ off.m.resumed = {}
  BY SuspendFacts DEF OneResumed
<1>3. UpdateAvailability(now, order) = UpdateVisibility(switched)
  BY DEF UpdateAvailability
<1> HIDE DEF newUI, off
<1>4. /\ moved \in UIStates /\ Harmless(now, moved)
      /\ moved.m.mode = now.m.mode /\ moved.m.available = now.m.available
      /\ moved.m.ui = newUI /\ moved.m.resumed = {newUI} \ {NoUI}
  BY <1>1, <1>2 DEF UIStates, Managers, SameChoice, Harmless, Informed, UserInterfaces, NoUI
<1> HIDE DEF moved
<1>5. /\ switched \in UIStates /\ Harmless(now, switched)
      /\ switched.m.mode = now.m.mode /\ switched.m.available = now.m.available
      /\ switched.m.ui = newUI /\ OneResumed(switched)
  BY <1>4 DEF OneResumed, Harmless
<1> HIDE DEF switched
<1> DEFINE new == UpdateVisibility(switched)
<1>6. /\ new \in UIStates /\ SameChoice(switched, new) /\ Harmless(switched, new)
      /\ FlagIsRight(new) /\ new.m.resumed = switched.m.resumed
  BY <1>5, UpdateVisibilityFacts
<1> HIDE DEF new
<1>7. BestUI(new.m, order) = newUI
  <2>1. new.m.mode = now.m.mode /\ new.m.available = now.m.available
    BY <1>5, <1>6 DEF SameChoice
  <2> QED BY <2>1, BestStays DEF newUI
<1>8. Harmless(now, new)
  BY <1>5, <1>6 DEF Harmless
<1>9. Chosen(new, order)
  BY <1>5, <1>6, <1>7 DEF Chosen, SameChoice, OneResumed
<1>10. new.m.mode = now.m.mode /\ new.m.available = now.m.available
  BY <1>5, <1>6 DEF SameChoice
<1> QED BY <1>3, <1>6, <1>8, <1>9, <1>10 DEF new

LEMMA SetModeFacts ==
  ASSUME NEW now \in UIStates, NEW mode \in Modes,
         uis \in Seq(UserInterfaces), Chosen(now, uis)
  PROVE  LET new == SetMode(now, mode)
         IN  /\ new \in UIStates /\ Harmless(now, new) /\ Chosen(new, uis)
             /\ new.m.available = now.m.available
<1> DEFINE moved == [now EXCEPT !.m.mode = mode]
<1>1. /\ moved \in UIStates /\ Harmless(now, moved) /\ OneResumed(moved)
      /\ moved.m.available = now.m.available
  BY DEF UIStates, Managers, Harmless, Informed, OneResumed, Chosen
<1>2. SetMode(now, mode) = IF now.m.mode = mode THEN now ELSE UpdateAvailability(moved, uis)
  BY DEF SetMode
<1> HIDE DEF moved
<1> QED BY <1>1, <1>2, UpdateAvailabilityFacts DEF Harmless

LEMMA SetAvailableFacts ==
  ASSUME NEW now \in UIStates, NEW ui \in UserInterfaces, NEW available \in BOOLEAN,
         uis \in Seq(UserInterfaces), Chosen(now, uis)
  PROVE  LET new == SetAvailable(now, ui, available)
         IN  /\ new \in UIStates /\ Chosen(new, uis)
             /\ new.s = "absent" <=> now.s = "absent"
             /\ ui \in new.m.available <=> available
             /\ ui # "virtualkeyboard" => Harmless(now, new)
<1> DEFINE moved == [now EXCEPT !.m.available =
                       IF available THEN @ \cup {ui} ELSE @ \ {ui}]
<1>1. /\ moved \in UIStates /\ OneResumed(moved) /\ moved.s = now.s
      /\ ui \in moved.m.available <=> available
      /\ ui # "virtualkeyboard" => Harmless(now, moved)
  BY DEF UIStates, Managers, Harmless, Informed, OneResumed, Chosen
<1>2. SetAvailable(now, ui, available) =
        IF available = (ui \in now.m.available) THEN now ELSE UpdateAvailability(moved, uis)
  BY DEF SetAvailable
<1> HIDE DEF moved
<1>3. CASE available = (ui \in now.m.available)
  BY <1>2, <1>3 DEF Harmless
<1>4. CASE available # (ui \in now.m.available)
  <2> DEFINE new == UpdateAvailability(moved, uis)
  <2>1. /\ new \in UIStates /\ Harmless(moved, new) /\ Chosen(new, uis)
        /\ new.m.available = moved.m.available
    BY <1>1, UpdateAvailabilityFacts
  <2> HIDE DEF new
  <2>2. SetAvailable(now, ui, available) = new
    BY <1>2, <1>4 DEF new
  <2> QED BY <2>1, <2>2, <1>1 DEF Harmless
<1> QED BY <1>3, <1>4

\* A handler that tells nothing new, and leaves a choice, keeps the invariant.
LEMMA HandlerKeeps ==
  ASSUME UIInv, NEW new \in UIStates, Becomes(new), Harmless(UINow, new),
         uis' \in Seq(UserInterfaces), Chosen(new, uis'), UNCHANGED news
  PROVE  UIInv'
<1>1. UINow' = new
  BY DEF Becomes, UINow, UIStates
<1>2. UITypes'
  BY <1>1 DEF UITypes, UIInv
<1>3. Chosen(UINow, uis)'
  <2> UINow' = new /\ Chosen(new, uis')
    BY <1>1
  <2> QED BY DEF Chosen, OneResumed, FlagIsRight, BestUI, Valid
<1>4. NewsAreTrue'
  <2>1. service' = new.s /\ UINow.s = service
    BY DEF Becomes, UINow
  <2>2. (service' = "absent") <=> (service = "absent")
    BY <2>1 DEF Harmless
  <2>3. Informed(UINow) => Informed(new)
    BY DEF Harmless
  <2>4. Informed(UINow)' <=> Informed(new)
    BY <1>1 DEF Informed
  <2> QED BY <2>2, <2>3, <2>4 DEF NewsAreTrue, UIInv
<1> QED BY <1>2, <1>3, <1>4 DEF UIInv

LEMMA UIInitHolds == UIInit => UIInv
<1> SUFFICES ASSUME UIInit PROVE UIInv
  OBVIOUS
<1>1. uis = <<>> /\ news = <<>> /\ uis \in Seq(UserInterfaces) /\ news \in Seq(BOOLEAN)
  BY DEF UIInit
<1>2. UINow \in UIStates
  BY DEF UIInit, UINow, UIStates, Managers, Modes, UserInterfaces, NoUI
<1>3. BestUI(manager, uis) = NoUI
  <2> DEFINE wanted == {ui \in UserInterfaces : Valid(manager, ui)}
  <2> HIDE DEF wanted
  <2>1. Len(uis) = 0
    BY <1>1
  <2>2. Kept(uis, wanted) = <<>> <=> \A k \in 1..Len(uis) : uis[k] \notin wanted
    BY <1>1, KeptHead
  <2>3. Kept(uis, wanted) = <<>>
    BY <2>1, <2>2
  <2> QED BY <2>3 DEF BestUI, wanted
<1>4. manager.ui = NoUI /\ manager.resumed = {} /\ manager.flag = FALSE
      /\ manager.visible = FALSE /\ manager.available = {"classicui"} /\ service = "absent"
  BY DEF UIInit
<1>5. Chosen(UINow, uis)
  BY <1>3, <1>4 DEF Chosen, OneResumed, FlagIsRight, UINow, NoUI
<1>6. NewsAreTrue
  BY <1>1, <1>4 DEF NewsAreTrue, Informed, UINow
<1> QED BY <1>1, <1>2, <1>5, <1>6 DEF UIInv, UITypes

LEMMA LoadUIKeeps == ASSUME UIInv, LoadUI PROVE UIInv'
<1>1. PICK order \in Preferences :
        /\ uis' = order /\ Becomes(UpdateAvailability(UINow, order)) /\ UNCHANGED news
  BY DEF LoadUI
<1> DEFINE new == UpdateAvailability(UINow, order)
<1>2. order \in Seq(UserInterfaces)
  BY PreferenceAssumption
<1>3. new \in UIStates /\ Harmless(UINow, new) /\ Chosen(new, order)
  BY <1>2, UpdateAvailabilityFacts DEF UIInv, UITypes, Chosen
<1> HIDE DEF new
<1>4. Becomes(new)
  BY <1>1 DEF new
<1> QED BY <1>1, <1>2, <1>3, <1>4, HandlerKeeps

LEMMA PanelKeeps == ASSUME UIInv, PanelChanges PROVE UIInv'
<1>1. PICK available \in BOOLEAN :
        /\ Becomes(SetAvailable(UINow, "kimpanel", available)) /\ UNCHANGED <<uis, news>>
  BY DEF PanelChanges
<1> DEFINE new == SetAvailable(UINow, "kimpanel", available)
<1>2. new \in UIStates /\ Harmless(UINow, new) /\ Chosen(new, uis)
  BY SetAvailableFacts DEF UIInv, UITypes, UserInterfaces
<1> HIDE DEF new
<1>3. Becomes(new) /\ uis' = uis /\ news' = news
  BY <1>1 DEF new
<1>4. uis' \in Seq(UserInterfaces) /\ Chosen(new, uis')
  BY <1>2, <1>3 DEF UIInv, UITypes
<1> QED BY <1>2, <1>3, <1>4, HandlerKeeps

\* The addon may believe the old; what is on its way is true.
LEMMA ServiceKeeps == ASSUME UIInv, ServiceChanges PROVE UIInv'
<1>1. PICK owned \in BOOLEAN :
        /\ service' = IF owned THEN "hidden" ELSE "absent"
        /\ news' = Append(news, owned)
        /\ uis' = uis /\ manager' = manager
  BY DEF ServiceChanges
<1>2. news \in Seq(BOOLEAN) /\ news' \in Seq(BOOLEAN) /\ news' # <<>>
      /\ news'[Len(news')] = owned
  BY <1>1 DEF UIInv, UITypes
<1>3. UITypes'
  BY <1>1, <1>2 DEF UIInv, UITypes, UINow, UIStates
<1>4. Chosen(UINow, uis)'
  BY <1>1 DEF UIInv, Chosen, OneResumed, FlagIsRight, UINow, BestUI, Valid
<1>5. NewsAreTrue'
  BY <1>1, <1>2 DEF NewsAreTrue
<1> QED BY <1>3, <1>4, <1>5 DEF UIInv

LEMMA ToldKeeps == ASSUME UIInv, ServiceTold PROVE UIInv'
<1> DEFINE owned == Head(news)
           set == SetAvailable(UINow, "virtualkeyboard", owned)
           new == SetVisible(set, FALSE)
<1>1. /\ news # <<>> /\ news' = Tail(news) /\ Becomes(new) /\ uis' = uis
      /\ news \in Seq(BOOLEAN) /\ owned \in BOOLEAN
  <2>1. news # <<>> /\ news' = Tail(news) /\ Becomes(new) /\ uis' = uis
    BY DEF ServiceTold
  <2>2. news \in Seq(BOOLEAN)
    BY DEF UIInv, UITypes
  <2>3. owned \in BOOLEAN
    BY <2>1, <2>2
  <2> HIDE DEF owned, new
  <2> QED BY <2>1, <2>2, <2>3
<1>2. /\ set \in UIStates /\ Chosen(set, uis)
      /\ set.s = "absent" <=> UINow.s = "absent"
      /\ "virtualkeyboard" \in set.m.available <=> owned
  <2> HIDE DEF owned
  <2> QED BY <1>1, SetAvailableFacts DEF UIInv, UITypes, UserInterfaces, set
<1> HIDE DEF owned, set
<1>3. /\ new \in UIStates /\ SameChoice(set, new)
      /\ FlagIsRight(set) => FlagIsRight(new)
      /\ new.m.resumed = set.m.resumed /\ new.m.visible = FALSE /\ new.s = set.s
  BY <1>2, SetVisibleFacts
<1> HIDE DEF new
<1>4. Chosen(new, uis)
  <2>1. BestUI(new.m, uis) = BestUI(set.m, uis)
    BY <1>3, BestStays DEF SameChoice
  <2> QED BY <2>1, <1>2, <1>3 DEF Chosen, OneResumed, SameChoice
<1>5. UINow' = new /\ UINow.s = service
  BY <1>1, <1>3 DEF Becomes, UINow, UIStates
<1>6. UITypes'
  BY <1>1, <1>3, <1>5 DEF UITypes, UIInv
<1>7. Chosen(UINow, uis)'
  <2> UINow' = new /\ uis' = uis
    BY <1>1, <1>5
  <2> QED BY <1>4 DEF Chosen, OneResumed, FlagIsRight, BestUI, Valid
<1>8. service' = new.s /\ (service' = "absent" <=> service = "absent")
  BY <1>1, <1>2, <1>3, <1>5 DEF Becomes
<1>9. NewsAreTrue'
  <2>1. CASE news' = <<>>
    <3>1. owned = (service # "absent")
      <4>1. Len(news) = 1
        <5>1. Tail(news) = <<>>
          BY <1>1, <2>1
        <5>2. Len(Tail(news)) = Len(news) - 1 /\ Len(news) \in Nat
          BY <1>1
        <5>3. Tail(news) \in Seq(BOOLEAN)
          BY <1>1
        <5>4. Len(Tail(news)) = 0
          BY <5>1, <5>3, EmptySeq
        <5> QED BY <5>2, <5>4
      <4> QED BY <4>1, <1>1 DEF NewsAreTrue, UIInv, owned
    <3>2. Informed(new)
      BY <3>1, <1>2, <1>3, <1>5, <1>8 DEF Informed, SameChoice
    <3>3. Informed(UINow)'
      BY <3>2, <1>5 DEF Informed
    <3> QED BY <3>3, <2>1 DEF NewsAreTrue
  <2>2. CASE news' # <<>>
    <3>1. news'[Len(news')] = news[Len(news)]
      BY <1>1, <2>2
    <3> QED BY <3>1, <1>1, <1>8, <2>2 DEF NewsAreTrue, UIInv
  <2> QED BY <2>1, <2>2
<1> QED BY <1>6, <1>7, <1>9 DEF UIInv

LEMMA ShownKeeps ==
  ASSUME NEW now \in UIStates, NEW show \in BOOLEAN,
         uis \in Seq(UserInterfaces), Chosen(now, uis)
  PROVE  LET new == IF show THEN Show(now) ELSE Hide(now)
         IN  new \in UIStates /\ Harmless(now, new) /\ Chosen(new, uis)
<1> DEFINE new == IF show THEN Show(now) ELSE Hide(now)
<1>1. /\ new \in UIStates /\ SameChoice(now, new) /\ Harmless(now, new)
      /\ FlagIsRight(now) => FlagIsRight(new)
      /\ new.m.resumed = now.m.resumed
  BY ShowFacts, HideFacts
<1> HIDE DEF new
<1>2. BestUI(new.m, uis) = BestUI(now.m, uis)
  BY <1>1, BestStays DEF SameChoice
<1>3. Chosen(new, uis)
  BY <1>1, <1>2 DEF Chosen, OneResumed, SameChoice
<1> QED BY <1>1, <1>3 DEF new

LEMMA AsksKeeps == ASSUME UIInv, ContextAsks PROVE UIInv'
<1>1. PICK show \in BOOLEAN :
        /\ Becomes(IF show THEN Show(UINow) ELSE Hide(UINow)) /\ UNCHANGED <<uis, news>>
  BY DEF ContextAsks
<1> DEFINE new == IF show THEN Show(UINow) ELSE Hide(UINow)
<1>2. new \in UIStates /\ Harmless(UINow, new) /\ Chosen(new, uis)
  BY ShownKeeps DEF UIInv, UITypes
<1>3. Becomes(new) /\ uis' = uis /\ news' = news
  BY <1>1
<1> HIDE DEF new
<1>4. uis' \in Seq(UserInterfaces) /\ Chosen(new, uis')
  BY <1>2, <1>3 DEF UIInv, UITypes
<1> QED BY <1>2, <1>3, <1>4, HandlerKeeps

LEMMA ForceKeeps == ASSUME UIInv, ForceKeyboard PROVE UIInv'
<1> DEFINE shown == Show(SetMode(UINow, "OnScreenKeyboard"))
           hidden == Hide(UINow)
           typed == SetMode(Hide(UINow), "PhysicalKeyboard")
<1>1. /\ Becomes(shown) \/ Becomes(hidden) \/ Becomes(typed)
      /\ uis' = uis /\ news' = news
  BY DEF ForceKeyboard
<1>2. UINow \in UIStates /\ uis \in Seq(UserInterfaces) /\ Chosen(UINow, uis)
  BY DEF UIInv, UITypes
<1>3. hidden \in UIStates /\ Harmless(UINow, hidden) /\ Chosen(hidden, uis)
  BY <1>2, ShownKeeps
<1>4. typed \in UIStates /\ Harmless(UINow, typed) /\ Chosen(typed, uis)
  <2> HIDE DEF hidden
  <2> SUFFICES LET new == SetMode(hidden, "PhysicalKeyboard")
               IN  new \in UIStates /\ Harmless(UINow, new) /\ Chosen(new, uis)
    BY DEF hidden
  <2> QED BY <1>2, <1>3, SetModeFacts DEF Modes, Harmless
<1>5. shown \in UIStates /\ Harmless(UINow, shown) /\ Chosen(shown, uis)
  <2> DEFINE moded == SetMode(UINow, "OnScreenKeyboard")
  <2>1. moded \in UIStates /\ Harmless(UINow, moded) /\ Chosen(moded, uis)
    BY <1>2, SetModeFacts DEF Modes
  <2> HIDE DEF moded
  <2>2. Show(moded) \in UIStates /\ Harmless(moded, Show(moded)) /\ Chosen(Show(moded), uis)
    BY <1>2, <2>1, ShownKeeps
  <2> QED BY <2>1, <2>2 DEF Harmless, moded
<1> HIDE DEF shown, hidden, typed
<1>6. ASSUME NEW new \in UIStates, Becomes(new), Harmless(UINow, new), Chosen(new, uis)
      PROVE  UIInv'
  <2>1. uis' \in Seq(UserInterfaces) /\ Chosen(new, uis')
    BY <1>1, <1>2, <1>6
  <2> QED BY <1>1, <1>6, <2>1, HandlerKeeps
<1> QED BY <1>1, <1>3, <1>4, <1>5, <1>6

LEMMA RealKeyKeeps == ASSUME UIInv, RealKey PROVE UIInv'
<1> DEFINE new == SetMode(UINow, "PhysicalKeyboard")
<1>1. Becomes(new) /\ uis' = uis /\ news' = news
  BY DEF RealKey
<1>2. new \in UIStates /\ Harmless(UINow, new) /\ Chosen(new, uis)
  BY SetModeFacts DEF UIInv, UITypes, Modes
<1> HIDE DEF new
<1>3. uis' \in Seq(UserInterfaces) /\ Chosen(new, uis')
  BY <1>1, <1>2 DEF UIInv, UITypes
<1> QED BY <1>1, <1>2, <1>3, HandlerKeeps

LEMMA UIStepHolds == UIInv /\ [UINext]_uiVars => UIInv'
<1> SUFFICES ASSUME UIInv, [UINext]_uiVars PROVE UIInv'
  OBVIOUS
<1>1. CASE UNCHANGED uiVars
  BY <1>1 DEF UIInv, UITypes, UINow, Chosen, OneResumed, FlagIsRight, NewsAreTrue, Informed,
              uiVars, BestUI, Valid
<1> QED BY <1>1, LoadUIKeeps, PanelKeeps, ServiceKeeps, ToldKeeps, AsksKeeps, ForceKeeps,
           RealKeyKeeps DEF UINext

\* The UI that is updated is the best there is and the only one not suspended, and
\* what the manager says to be visible is shown: for any preferences and any number
\* of news.
THEOREM UIAgreesAlways == UISpec => []UIAgrees
<1>1. UIInv => UIAgrees
  <2> SUFFICES ASSUME UIInv PROVE UIAgrees
    OBVIOUS
  <2>1. UINow.m = manager /\ UINow.s = service
    BY DEF UINow
  <2>2. manager.resumed = {manager.ui} \ {NoUI} /\ manager.ui = BestUI(manager, uis)
        /\ manager.flag = (manager.ui = "virtualkeyboard" /\ manager.visible)
    BY <2>1 DEF UIInv, Chosen, OneResumed, FlagIsRight
  <2>3. news = <<>> /\ manager.visible => service = "shown"
    BY <2>1 DEF UIInv, NewsAreTrue, Informed
  <2>4. news = <<>> /\ manager.flag => service = "shown"
    BY <2>2, <2>3
  <2> QED BY <2>2, <2>4 DEF UIAgrees
<1> QED BY <1>1, UIInitHolds, UIStepHolds, PTL DEF UISpec

(***************************************************************************)
(* ServiceWatcher: WatchersKnowOwner.  With no signal on its way, whoever  *)
(* watches knows the owner or waits for an answer; and the last signal and *)
(* the answers behind it are true, since the match is there while anybody  *)
(* watches and removing answers does not change which signal is the last.  *)
(***************************************************************************)

Known == Owners \cup {NoOwner}
Messages == Signals \cup Replies
Requests == {"GetNameOwner", "RemoveMatch"}

\* What is in a channel.
Asks(reqs) == \E i \in 1..Len(reqs) : reqs[i] = "GetNameOwner"
Removes(reqs) == \E i \in 1..Len(reqs) : reqs[i] = "RemoveMatch"
Replied(msgs) == \E i \in 1..Len(msgs) : IsReply(msgs[i])
Signalled(msgs) == \E i \in 1..Len(msgs) : ~IsReply(msgs[i])

\* No signal comes after the i-th.
LastWord(msgs, i) == \A j \in 1..Len(msgs) : j > i => IsReply(msgs[j])

\* The last signal, and the answers behind it, tell the owner.
Truthful(msgs, o) ==
  \A i \in 1..Len(msgs) : LastWord(msgs, i) => msgs[i].owner = o

WatcherTypes ==
  /\ owner \in Known
  /\ requests \in Seq(Requests)
  /\ incoming \in Seq(Messages)
  /\ watching \subseteq Watchers
  /\ toldOwner \in [Watchers -> Known \cup {Untold}]

\* Nobody watches: no question is open.
Idle == watching = {} => ~Asks(requests) /\ ~Replied(incoming)

\* Somebody does: the match is there and stays, and what comes is true.
Matched ==
  watching # {} => matched /\ ~Removes(requests) /\ Truthful(incoming, owner)

Open == Asks(requests) \/ Replied(incoming)

\* With no signal on its way, who watches knows or will be answered.
Knows ==
  ~Signalled(incoming) =>
    \A w \in watching :
      Open \/ toldOwner[w] = owner \/ (w \in late /\ toldOwner[w] = Untold)

WatcherInv == WatcherTypes /\ Idle /\ Matched /\ Knows

-----------------------------------------------------------------------------

LEMMA MessageFacts ==
  ASSUME NEW m \in Messages
  PROVE  /\ m.owner \in Known
         /\ m \in Signals <=> ~IsReply(m)
         /\ m \in Replies <=> IsReply(m)
  BY DEF Messages, Signals, Replies, Known, IsReply

LEMMA WithoutQueryFacts ==
  ASSUME NEW reqs \in Seq(Requests)
  PROVE  /\ WithoutQuery(reqs) \in Seq(Requests)
         /\ ~Asks(WithoutQuery(reqs))
         /\ ~Removes(reqs) => ~Removes(WithoutQuery(reqs))
<1> DEFINE kept == Kept(reqs, {"RemoveMatch"})
<1>1. kept \in Seq(Requests) /\ Items(kept) = Items(reqs) \cap {"RemoveMatch"}
  BY KeptItems
<1> HIDE DEF kept
<1> QED BY <1>1 DEF Asks, Removes, Items, WithoutQuery, kept

\* Without the answers the last signal is still the last.
LEMMA WithoutReplyFacts ==
  ASSUME NEW msgs \in Seq(Messages), NEW o
  PROVE  LET kept == WithoutReply(msgs)
         IN  /\ kept \in Seq(Messages) /\ ~Replied(kept)
             /\ Signalled(msgs) => Signalled(kept)
             /\ Truthful(msgs, o) => Truthful(kept, o)
<1> DEFINE kept == Kept(msgs, Signals)
<1>1. kept \in Seq(Messages) /\ \E place : Places(place, kept, msgs, Signals, Len(msgs))
  BY KeptPlaces
<1>2. WithoutReply(msgs) = kept
  BY DEF WithoutReply
<1> HIDE DEF kept
<1>3. PICK place : Places(place, kept, msgs, Signals, Len(msgs))
  BY <1>1
<1> DEFINE n == Len(msgs)
           k == Len(kept)
<1>4. /\ n \in Nat /\ k \in Nat
      /\ \A i \in 1..n : msgs[i] \in Messages
      /\ \A i \in 1..k : kept[i] \in Messages
  BY <1>1
<1>5. /\ \A i \in 1..k : place[i] \in 1..n /\ kept[i] = msgs[place[i]] /\ kept[i] \in Signals
      /\ \A i, j \in 1..k : i < j => place[i] < place[j]
      /\ \A j \in 1..n : msgs[j] \in Signals => \E i \in 1..k : place[i] = j
  BY <1>3 DEF Places
<1>6. ~Replied(kept)
  BY <1>4, <1>5, MessageFacts DEF Replied
<1>7. ASSUME Signalled(msgs) PROVE Signalled(kept)
  <2>1. PICK j \in 1..n : ~IsReply(msgs[j])
    BY <1>7 DEF Signalled
  <2>2. PICK i \in 1..k : place[i] = j
    BY <1>4, <1>5, <2>1, MessageFacts
  <2> QED BY <1>5, <2>1, <2>2 DEF Signalled
<1>8. ASSUME Truthful(msgs, o) PROVE Truthful(kept, o)
  <2> SUFFICES ASSUME NEW i \in 1..k, LastWord(kept, i) PROVE kept[i].owner = o
    BY DEF Truthful
  <2>1. i = k
    <3> SUFFICES ASSUME i # k PROVE FALSE
      OBVIOUS
    <3>1. i + 1 \in 1..k /\ i + 1 > i
      BY <1>4
    <3>2. IsReply(kept[i + 1])
      BY <3>1 DEF LastWord
    <3> QED BY <1>6, <3>1, <3>2 DEF Replied
  <2>2. LastWord(msgs, place[i])
    <3> SUFFICES ASSUME NEW j \in 1..n, j > place[i], ~IsReply(msgs[j]) PROVE FALSE
      BY DEF LastWord
    <3>1. PICK h \in 1..k : place[h] = j
      BY <1>4, <1>5, MessageFacts
    <3>2. h # i => h < i
      BY <1>4, <2>1
    <3>3. h # i => place[h] < place[i]
      BY <1>5, <3>2
    <3>4. place[i] \in Nat /\ j \in Nat
      BY <1>4, <1>5
    <3> QED BY <3>1, <3>3, <3>4
  <2> QED BY <1>5, <1>8, <2>2 DEF Truthful
<1> QED BY <1>1, <1>2, <1>6, <1>7, <1>8

LEMMA TailFacts ==
  ASSUME NEW msgs \in Seq(Messages), msgs # <<>>, NEW o
  PROVE  /\ Tail(msgs) \in Seq(Messages) /\ Head(msgs) \in Messages
         /\ Replied(Tail(msgs)) => Replied(msgs)
         /\ Truthful(msgs, o) => Truthful(Tail(msgs), o)
         /\ Truthful(msgs, o) /\ ~Signalled(Tail(msgs)) => Head(msgs).owner = o
<1> DEFINE rest == Tail(msgs)
           n == Len(msgs)
<1>1. /\ n \in Nat /\ n # 0 /\ Len(rest) = n - 1 /\ Head(msgs) = msgs[1]
      /\ rest \in Seq(Messages) /\ Head(msgs) \in Messages
      /\ \A i \in 1..(n - 1) : rest[i] = msgs[i + 1]
  OBVIOUS
<1> HIDE DEF rest
<1>2. Replied(rest) => Replied(msgs)
  <2> SUFFICES ASSUME NEW i \in 1..(n - 1), IsReply(rest[i]) PROVE Replied(msgs)
    BY <1>1 DEF Replied
  <2>1. i + 1 \in 1..n /\ IsReply(msgs[i + 1])
    BY <1>1
  <2> QED BY <2>1 DEF Replied
<1>3. ASSUME NEW j \in 1..n, j > 1 PROVE j - 1 \in 1..(n - 1) /\ rest[j - 1] = msgs[j]
  <2>1. j - 1 \in 1..(n - 1) /\ (j - 1) + 1 = j
    BY <1>1, <1>3
  <2> QED BY <1>1, <2>1
<1>4. ASSUME Truthful(msgs, o) PROVE Truthful(rest, o)
  <2> SUFFICES ASSUME NEW i \in 1..(n - 1), LastWord(rest, i) PROVE rest[i].owner = o
    BY <1>1 DEF Truthful
  <2>1. i + 1 \in 1..n
    BY <1>1
  <2>2. LastWord(msgs, i + 1)
    <3> SUFFICES ASSUME NEW j \in 1..n, j > i + 1 PROVE IsReply(msgs[j])
      BY DEF LastWord
    <3>1. j > 1 /\ j - 1 > i
      BY <1>1
    <3>2. j - 1 \in 1..(n - 1) /\ rest[j - 1] = msgs[j]
      BY <1>3, <3>1
    <3> QED BY <1>1, <3>1, <3>2 DEF LastWord
  <2> QED BY <1>1, <1>4, <2>1, <2>2 DEF Truthful
<1>5. ASSUME Truthful(msgs, o), ~Signalled(rest) PROVE Head(msgs).owner = o
  <2>1. 1 \in 1..n
    BY <1>1
  <2>2. LastWord(msgs, 1)
    <3> SUFFICES ASSUME NEW j \in 1..n, j > 1 PROVE IsReply(msgs[j])
      BY DEF LastWord
    <3>1. j - 1 \in 1..(n - 1) /\ rest[j - 1] = msgs[j]
      BY <1>3
    <3> QED BY <1>1, <1>5, <3>1 DEF Signalled
  <2> QED BY <1>1, <1>5, <2>1, <2>2 DEF Truthful
<1> QED BY <1>1, <1>2, <1>4, <1>5 DEF rest

\* What the daemon sends tells the owner of that moment.
LEMMA AppendFacts ==
  ASSUME NEW msgs \in Seq(Messages), NEW m \in Messages
  PROVE  /\ Append(msgs, m) \in Seq(Messages)
         /\ IsReply(m) => Replied(Append(msgs, m))
         /\ ~IsReply(m) => Signalled(Append(msgs, m))
         /\ ~IsReply(m) /\ Replied(Append(msgs, m)) => Replied(msgs)
         /\ Replied(msgs) => Replied(Append(msgs, m))
         /\ Signalled(msgs) => Signalled(Append(msgs, m))
         /\ Truthful(msgs, m.owner) => Truthful(Append(msgs, m), m.owner)
         /\ ~IsReply(m) => Truthful(Append(msgs, m), m.owner)
<1> DEFINE more == Append(msgs, m)
           n == Len(msgs)
<1>1. /\ n \in Nat /\ Len(more) = n + 1 /\ more \in Seq(Messages) /\ more[n + 1] = m
      /\ \A i \in 1..n : more[i] = msgs[i]
      /\ n + 1 \in 1..(n + 1) /\ \A i \in 1..n : i \in 1..(n + 1)
  OBVIOUS
<1> HIDE DEF more
<1>2. \A i \in 1..(n + 1) : i = n + 1 \/ i \in 1..n
  BY <1>1
<1>3. /\ IsReply(m) => Replied(more)
      /\ ~IsReply(m) => Signalled(more)
      /\ ~IsReply(m) /\ Replied(more) => Replied(msgs)
      /\ Replied(msgs) => Replied(more)
      /\ Signalled(msgs) => Signalled(more)
  BY <1>1, <1>2 DEF Replied, Signalled
<1>4. ASSUME NEW i \in 1..(n + 1), LastWord(more, i), i # n + 1
      PROVE  IsReply(m) /\ i \in 1..n /\ LastWord(msgs, i) /\ more[i] = msgs[i]
  <2>1. i \in 1..n /\ n + 1 > i /\ more[i] = msgs[i]
    BY <1>1, <1>2, <1>4
  <2>2. IsReply(m)
    BY <1>1, <1>4, <2>1 DEF LastWord
  <2>3. LastWord(msgs, i)
    BY <1>1, <1>4 DEF LastWord
  <2> QED BY <2>1, <2>2, <2>3
<1>5. ASSUME Truthful(msgs, m.owner) \/ ~IsReply(m) PROVE Truthful(more, m.owner)
  <2> SUFFICES ASSUME NEW i \in 1..(n + 1), LastWord(more, i) PROVE more[i].owner = m.owner
    BY <1>1 DEF Truthful
  <2>1. CASE i = n + 1
    BY <1>1, <2>1
  <2>2. CASE i # n + 1
    BY <1>4, <1>5, <2>2 DEF Truthful
  <2> QED BY <2>1, <2>2
<1> QED BY <1>1, <1>3, <1>5 DEF more

LEMMA RequestFacts ==
  ASSUME NEW reqs \in Seq(Requests)
  PROVE  /\ Append(reqs, "RemoveMatch") \in Seq(Requests)
         /\ Asks(Append(reqs, "RemoveMatch")) => Asks(reqs)
         /\ reqs # <<>> => /\ Tail(reqs) \in Seq(Requests) /\ Head(reqs) \in Requests
                           /\ Asks(Tail(reqs)) => Asks(reqs)
                           /\ Removes(Tail(reqs)) => Removes(reqs)
                           /\ Head(reqs) = "RemoveMatch" => Removes(reqs)
                           /\ Head(reqs) = "GetNameOwner" => Asks(reqs)
                           /\ Asks(reqs) /\ Head(reqs) # "GetNameOwner" => Asks(Tail(reqs))
<1> DEFINE n == Len(reqs)
<1>1. n \in Nat /\ \A i \in 1..n : reqs[i] \in Requests
  OBVIOUS
<1>2. ASSUME Asks(Append(reqs, "RemoveMatch")) PROVE Asks(reqs)
  <2> DEFINE more == Append(reqs, "RemoveMatch")
  <2>1. /\ Len(more) = n + 1 /\ more[n + 1] = "RemoveMatch"
        /\ \A i \in 1..n : more[i] = reqs[i]
    OBVIOUS
  <2>2. PICK i \in 1..Len(more) : more[i] = "GetNameOwner"
    BY <1>2 DEF Asks
  <2> HIDE DEF more
  <2>3. i # n + 1
    BY <2>1, <2>2
  <2>4. i \in 1..n
    BY <1>1, <2>1, <2>3
  <2> QED BY <2>1, <2>2, <2>4 DEF Asks
<1>3. Append(reqs, "RemoveMatch") \in Seq(Requests)
  BY DEF Requests
<1>4. ASSUME reqs # <<>>
      PROVE  /\ Tail(reqs) \in Seq(Requests) /\ Head(reqs) \in Requests
             /\ Asks(Tail(reqs)) => Asks(reqs)
             /\ Removes(Tail(reqs)) => Removes(reqs)
             /\ Head(reqs) = "RemoveMatch" => Removes(reqs)
             /\ Head(reqs) = "GetNameOwner" => Asks(reqs)
             /\ Asks(reqs) /\ Head(reqs) # "GetNameOwner" => Asks(Tail(reqs))
  <2> DEFINE rest == Tail(reqs)
  <2>1. /\ n # 0 /\ Len(rest) = n - 1 /\ Head(reqs) = reqs[1] /\ rest \in Seq(Requests)
        /\ \A i \in 1..(n - 1) : rest[i] = reqs[i + 1]
    BY <1>4
  <2> HIDE DEF rest
  <2>2. 1 \in 1..n /\ \A i \in 1..(n - 1) : i + 1 \in 1..n
    BY <1>1, <2>1
  <2>3. (Asks(rest) => Asks(reqs)) /\ (Removes(rest) => Removes(reqs))
    BY <2>1, <2>2 DEF Asks, Removes
  <2>4. ASSUME Asks(reqs), Head(reqs) # "GetNameOwner" PROVE Asks(rest)
    <3>1. PICK i \in 1..n : reqs[i] = "GetNameOwner"
      BY <2>4 DEF Asks
    <3>2. i - 1 \in 1..(n - 1) /\ (i - 1) + 1 = i
      BY <1>1, <2>1, <2>4, <3>1
    <3>3. rest[i - 1] = "GetNameOwner"
      BY <2>1, <3>1, <3>2
    <3> QED BY <2>1, <3>2, <3>3 DEF Asks
  <2> QED BY <1>1, <2>1, <2>2, <2>3, <2>4 DEF Asks, Removes, rest
<1> QED BY <1>2, <1>3, <1>4

LEMMA QueryOpenIs ==
  ASSUME WatcherTypes
  PROVE  QueryOpen <=> Open
<1>1. DOMAIN requests = 1..Len(requests) /\ DOMAIN incoming = 1..Len(incoming)
  BY DEF WatcherTypes
<1> QED BY <1>1 DEF QueryOpen, Open, Asks, Replied, Range

LEMMA WatcherInitHolds == WatcherInit => WatcherInv
<1> SUFFICES ASSUME WatcherInit PROVE WatcherInv
  OBVIOUS
<1>1. /\ requests = <<>> /\ incoming = <<>> /\ Len(requests) = 0 /\ Len(incoming) = 0
      /\ watching = {} /\ owner \in Known
      /\ toldOwner \in [Watchers -> Known \cup {Untold}]
      /\ requests \in Seq(Requests) /\ incoming \in Seq(Messages)
  BY DEF WatcherInit, Known
<1>2. ~Asks(requests) /\ ~Replied(incoming)
  BY <1>1 DEF Asks, Replied
<1> QED BY <1>1, <1>2 DEF WatcherInv, WatcherTypes, Idle, Matched, Knows

\* The first asks, and hears nothing of before; the others join.
LEMMA WatchHolds ==
  ASSUME WatcherInv, NEW w \in Watchers, WatchService(w)
  PROVE  WatcherInv'
<1>1. /\ w \notin watching /\ watching' = watching \cup {w} /\ owner' = owner
      /\ toldOwner' = [toldOwner EXCEPT ![w] = Untold]
      /\ late' = IF watching = {} \/ QueryOpen THEN late \ {w} ELSE late \cup {w}
  BY DEF WatchService
<1>2. /\ toldOwner' \in [Watchers -> Known \cup {Untold}] /\ watching' \subseteq Watchers
      /\ owner' \in Known /\ watching' # {}
      /\ toldOwner'[w] = Untold /\ \A v \in watching : toldOwner'[v] = toldOwner[v]
  BY <1>1 DEF WatcherInv, WatcherTypes
<1>3. CASE watching = {}
  <2>1. /\ matched' = TRUE /\ requests' = <<"GetNameOwner">>
        /\ incoming' = Kept(incoming, Replies)
    BY <1>3 DEF WatchService, Heard
  <2>2. Kept(incoming, Replies) = <<>>
    <3>1. incoming \in Seq(Messages) /\ ~Replied(incoming)
      BY <1>3 DEF WatcherInv, WatcherTypes, Idle
    <3>2. \A i \in 1..Len(incoming) : incoming[i] \notin Replies
      BY <3>1, MessageFacts DEF Replied
    <3> QED BY <3>1, <3>2, KeptHead
  <2>3. Len(incoming') = 0 /\ incoming' \in Seq(Messages)
    BY <2>1, <2>2
  <2>4. /\ requests' \in Seq(Requests) /\ Len(requests') = 1 /\ requests'[1] = "GetNameOwner"
    BY <2>1 DEF Requests
  <2>5. /\ 1..0 = {} /\ 1 \in 1..1 /\ \A i \in 1..1 : i = 1
    OBVIOUS
  <2>6. Asks(requests') /\ ~Removes(requests') /\ Truthful(incoming', owner')
    BY <2>3, <2>4, <2>5 DEF Asks, Removes, Truthful
  <2>7. WatcherTypes'
    BY <1>2, <2>3, <2>4 DEF WatcherTypes
  <2>8. Knows'
    BY <2>6 DEF Knows, Open
  <2> QED BY <1>2, <2>1, <2>6, <2>7, <2>8 DEF WatcherInv, Idle, Matched
<1>4. CASE watching # {}
  <2>1. matched' = matched /\ requests' = requests /\ incoming' = incoming
    BY <1>4 DEF WatchService
  <2>2. WatcherTypes'
    BY <1>2, <2>1 DEF WatcherInv, WatcherTypes
  <2>3. Matched' /\ Idle'
    BY <1>1, <1>2, <1>4, <2>1 DEF WatcherInv, Matched, Idle
  <2>4. Knows'
    <3> SUFFICES ASSUME ~Signalled(incoming), NEW v \in watching', ~Open
                 PROVE  toldOwner'[v] = owner \/ (v \in late' /\ toldOwner'[v] = Untold)
      BY <1>1, <2>1 DEF Knows, Open
    <3>1. ~QueryOpen
      BY QueryOpenIs DEF WatcherInv
    <3>2. late' = late \cup {w}
      BY <1>1, <1>4, <3>1
    <3>3. CASE v = w
      BY <1>2, <3>2, <3>3
    <3>4. CASE v # w
      <4>1. v \in watching /\ toldOwner'[v] = toldOwner[v]
        BY <1>1, <1>2, <3>4
      <4> QED BY <3>2, <4>1 DEF WatcherInv, Knows
    <3> QED BY <3>3, <3>4
  <2> QED BY <2>2, <2>3, <2>4 DEF WatcherInv
<1> QED BY <1>3, <1>4

\* What is left when somebody leaves.
LEMMA LeaveFacts ==
  ASSUME NEW leaving \in SUBSET watching, NEW reqs \in Seq(Requests), NEW msgs \in Seq(Messages),
         Leave(leaving, reqs, msgs)
  PROVE  /\ requests' \in Seq(Requests) /\ incoming' \in Seq(Messages)
         /\ watching' \subseteq watching
         /\ watching' = {} => \/ ~Asks(requests') /\ ~Replied(incoming')
                              \/ watching = {} /\ requests' = reqs /\ incoming' = msgs
         /\ watching' # {} => requests' = reqs /\ incoming' = msgs
<1>1. watching' = watching \ leaving
  BY DEF Leave
<1>2. CASE leaving # {} /\ leaving = watching
  <2>1. requests' = Append(WithoutQuery(reqs), "RemoveMatch") /\ incoming' = WithoutReply(msgs)
    BY <1>2 DEF Leave
  <2>2. WithoutQuery(reqs) \in Seq(Requests) /\ ~Asks(WithoutQuery(reqs))
    BY WithoutQueryFacts
  <2>3. incoming' \in Seq(Messages) /\ ~Replied(incoming')
    BY <2>1, WithoutReplyFacts
  <2>4. requests' \in Seq(Requests) /\ ~Asks(requests')
    BY <2>1, <2>2, RequestFacts
  <2> QED BY <1>1, <1>2, <2>3, <2>4
<1>3. CASE ~(leaving # {} /\ leaving = watching)
  <2>1. requests' = reqs /\ incoming' = msgs
    BY <1>3 DEF Leave
  <2> QED BY <1>1, <1>3, <2>1
<1> QED BY <1>2, <1>3

LEMMA UnwatchHolds ==
  ASSUME WatcherInv, NEW w \in Watchers, Unwatch(w)
  PROVE  WatcherInv'
<1>1. /\ w \in watching /\ Leave({w}, requests, incoming)
      /\ owner' = owner /\ matched' = matched /\ toldOwner' = toldOwner /\ late' = late
  BY DEF Unwatch
<1>2. /\ requests' \in Seq(Requests) /\ incoming' \in Seq(Messages)
      /\ watching' \subseteq watching
      /\ watching' = {} => ~Asks(requests') /\ ~Replied(incoming')
      /\ watching' # {} => requests' = requests /\ incoming' = incoming
  <2>1. {w} \in SUBSET watching /\ requests \in Seq(Requests) /\ incoming \in Seq(Messages)
        /\ watching # {}
    BY <1>1 DEF WatcherInv, WatcherTypes
  <2> QED BY <1>1, <2>1, LeaveFacts
<1>3. WatcherTypes'
  BY <1>1, <1>2 DEF WatcherInv, WatcherTypes
<1>4. CASE watching' = {}
  BY <1>2, <1>3, <1>4 DEF WatcherInv, Idle, Matched, Knows
<1>5. CASE watching' # {}
  <2>1. watching # {} /\ requests' = requests /\ incoming' = incoming
    BY <1>2, <1>5
  <2>2. Knows' /\ Matched' /\ Idle'
    BY <1>1, <1>2, <1>5, <2>1 DEF WatcherInv, Idle, Matched, Knows, Open
  <2> QED BY <1>3, <2>2 DEF WatcherInv
<1> QED BY <1>4, <1>5

\* Everyone is told, and what is told is true when nothing newer is on its way.
LEMMA TellHolds ==
  ASSUME WatcherInv, watching # {}, NEW newOwner \in Known,
         NEW reqs \in Seq(Requests), NEW msgs \in Seq(Messages),
         Tell(newOwner, reqs, msgs), owner' = owner, matched' = matched, late' = late,
         ~Removes(reqs), Truthful(msgs, owner),
         ~Signalled(msgs) => newOwner = owner
  PROVE  WatcherInv'
<1>1. /\ toldOwner' =
           [w \in Watchers |-> IF w \in watching THEN newOwner ELSE toldOwner[w]]
      /\ \E leaving \in SUBSET watching : Leave(leaving, reqs, msgs)
  BY DEF Tell
<1>2. /\ requests' \in Seq(Requests) /\ incoming' \in Seq(Messages)
      /\ watching' \subseteq watching
      /\ watching' = {} => ~Asks(requests') /\ ~Replied(incoming')
      /\ watching' # {} => requests' = reqs /\ incoming' = msgs
  BY <1>1, LeaveFacts
<1>3. /\ toldOwner' \in [Watchers -> Known \cup {Untold}]
      /\ \A w \in watching : toldOwner'[w] = newOwner
      /\ watching \subseteq Watchers
  BY <1>1 DEF WatcherInv, WatcherTypes
<1>4. WatcherTypes'
  BY <1>2, <1>3 DEF WatcherInv, WatcherTypes
<1>5. CASE watching' = {}
  BY <1>2, <1>4, <1>5 DEF WatcherInv, Idle, Matched, Knows
<1>6. CASE watching' # {}
  <2>1. Knows' /\ Matched' /\ Idle'
    BY <1>2, <1>3, <1>6 DEF WatcherInv, Idle, Matched, Knows, Open
  <2> QED BY <1>4, <2>1 DEF WatcherInv
<1> QED BY <1>5, <1>6

LEMMA SignalHolds == ASSUME WatcherInv, DispatchSignal PROVE WatcherInv'
<1>1. /\ incoming # <<>> /\ ~IsReply(Head(incoming))
      /\ owner' = owner /\ matched' = matched /\ late' = late
      /\ incoming \in Seq(Messages) /\ requests \in Seq(Requests)
  BY DEF DispatchSignal, WatcherInv, WatcherTypes
<1> DEFINE rest == Tail(incoming)
<1>2. /\ rest \in Seq(Messages) /\ Head(incoming) \in Messages
      /\ Replied(rest) => Replied(incoming)
      /\ Truthful(incoming, owner) => Truthful(rest, owner)
      /\ Truthful(incoming, owner) /\ ~Signalled(rest) => Head(incoming).owner = owner
  BY <1>1, TailFacts
<1>3. CASE watching = {}
  <2>1. incoming' = rest /\ UNCHANGED <<requests, watching, toldOwner>>
    BY <1>3 DEF DispatchSignal
  <2> HIDE DEF rest
  <2> QED BY <1>1, <1>2, <1>3, <2>1 DEF WatcherInv, WatcherTypes, Idle, Matched, Knows
<1>4. CASE watching # {}
  <2> DEFINE reqs == WithoutQuery(requests)
             msgs == WithoutReply(rest)
             newOwner == Head(incoming).owner
  <2>1. Tell(newOwner, reqs, msgs)
    BY <1>4 DEF DispatchSignal
  <2>2. ~Removes(requests) /\ Truthful(incoming, owner)
    BY <1>4 DEF WatcherInv, Matched
  <2>3. newOwner \in Known
    BY <1>2, MessageFacts
  <2> HIDE DEF rest
  <2>4. /\ msgs \in Seq(Messages)
        /\ Signalled(rest) => Signalled(msgs)
        /\ Truthful(rest, owner) => Truthful(msgs, owner)
    BY <1>2, WithoutReplyFacts
  <2>5. reqs \in Seq(Requests) /\ ~Removes(reqs)
    BY <1>1, <2>2, WithoutQueryFacts
  <2>6. Truthful(msgs, owner) /\ (~Signalled(msgs) => newOwner = owner)
    BY <1>2, <2>2, <2>4
  <2> HIDE DEF reqs, msgs, newOwner
  <2> QED BY <1>1, <1>4, <2>1, <2>3, <2>4, <2>5, <2>6, TellHolds
<1> QED BY <1>3, <1>4

LEMMA ReplyHolds == ASSUME WatcherInv, DispatchReply PROVE WatcherInv'
<1> DEFINE msgs == Tail(incoming)
           newOwner == Head(incoming).owner
<1>1. /\ incoming # <<>> /\ IsReply(Head(incoming))
      /\ owner' = owner /\ matched' = matched /\ late' = late
      /\ incoming \in Seq(Messages) /\ requests \in Seq(Requests)
      /\ Tell(newOwner, requests, msgs)
  BY DEF DispatchReply, WatcherInv, WatcherTypes
<1>2. watching # {}
  <2>1. 1 \in 1..Len(incoming) /\ Head(incoming) = incoming[1]
    BY <1>1
  <2>2. Replied(incoming)
    BY <1>1, <2>1 DEF Replied
  <2> QED BY <2>2 DEF WatcherInv, Idle
<1>3. /\ msgs \in Seq(Messages) /\ Head(incoming) \in Messages
      /\ Truthful(incoming, owner) => Truthful(msgs, owner)
      /\ Truthful(incoming, owner) /\ ~Signalled(msgs) => Head(incoming).owner = owner
  BY <1>1, TailFacts
<1>4. ~Removes(requests) /\ Truthful(incoming, owner)
  BY <1>2 DEF WatcherInv, Matched
<1>5. newOwner \in Known
  BY <1>3, MessageFacts
<1>6. Truthful(msgs, owner) /\ (~Signalled(msgs) => newOwner = owner)
  BY <1>3, <1>4
<1> HIDE DEF msgs, newOwner
<1> QED BY <1>1, <1>2, <1>3, <1>4, <1>5, <1>6, TellHolds

LEMMA ServeHolds == ASSUME WatcherInv, Serve PROVE WatcherInv'
<1>1. /\ requests # <<>> /\ requests' = Tail(requests)
      /\ owner' = owner /\ watching' = watching /\ toldOwner' = toldOwner /\ late' = late
      /\ incoming \in Seq(Messages) /\ requests \in Seq(Requests) /\ owner \in Known
  BY DEF Serve, WatcherInv, WatcherTypes
<1>2. /\ requests' \in Seq(Requests) /\ Head(requests) \in Requests
      /\ Asks(requests') => Asks(requests)
      /\ Removes(requests') => Removes(requests)
      /\ Head(requests) = "RemoveMatch" => Removes(requests)
      /\ Head(requests) = "GetNameOwner" => Asks(requests)
      /\ Asks(requests) /\ Head(requests) # "GetNameOwner" => Asks(requests')
  BY <1>1, RequestFacts
<1>3. CASE Head(requests) = "RemoveMatch"
  <2>1. incoming' = incoming /\ watching = {}
    BY <1>2, <1>3 DEF Serve, WatcherInv, Matched
  <2> QED BY <1>1, <1>2, <2>1 DEF WatcherInv, WatcherTypes, Idle, Matched, Knows
<1>4. CASE Head(requests) = "GetNameOwner"
  <2> DEFINE m == [kind |-> "reply", owner |-> owner]
  <2>1. incoming' = Append(incoming, m) /\ matched' = matched
    BY <1>4 DEF Serve
  <2>2. m \in Messages /\ IsReply(m) /\ m.owner = owner
    BY <1>1 DEF Messages, Replies, Known, IsReply
  <2> HIDE DEF m
  <2>3. /\ incoming' \in Seq(Messages) /\ Replied(incoming')
        /\ Truthful(incoming, owner) => Truthful(incoming', owner)
    BY <1>1, <2>1, <2>2, AppendFacts
  <2>4. watching # {}
    BY <1>2, <1>4 DEF WatcherInv, Idle
  <2> QED BY <1>1, <1>2, <2>1, <2>3, <2>4
        DEF WatcherInv, WatcherTypes, Idle, Matched, Knows, Open
<1> QED BY <1>2, <1>3, <1>4 DEF Requests

LEMMA OwnerHolds == ASSUME WatcherInv, OwnerChanges PROVE WatcherInv'
<1> DEFINE m == [kind |-> "signal", owner |-> owner']
<1>1. /\ owner' \in Known /\ incoming' = IF matched THEN Append(incoming, m) ELSE incoming
      /\ UNCHANGED <<matched, requests, watching, toldOwner, late>>
      /\ incoming \in Seq(Messages)
  BY DEF OwnerChanges, WatcherInv, WatcherTypes, Known
<1>2. m \in Messages /\ ~IsReply(m) /\ m.owner = owner'
  BY <1>1 DEF Messages, Signals, Known, IsReply
<1> HIDE DEF m
<1>3. /\ Append(incoming, m) \in Seq(Messages)
      /\ Signalled(Append(incoming, m))
      /\ Replied(Append(incoming, m)) => Replied(incoming)
      /\ Truthful(Append(incoming, m), owner')
  BY <1>1, <1>2, AppendFacts
<1>4. CASE watching = {}
  BY <1>1, <1>3, <1>4 DEF WatcherInv, WatcherTypes, Idle, Matched, Knows
<1>5. CASE watching # {}
  <2>1. matched
    BY <1>5 DEF WatcherInv, Matched
  <2> QED BY <1>1, <1>3, <1>5, <2>1 DEF WatcherInv, WatcherTypes, Idle, Matched, Knows
<1> QED BY <1>4, <1>5

LEMMA WatcherStepHolds == WatcherInv /\ [WatcherNext]_watcherVars => WatcherInv'
<1> SUFFICES ASSUME WatcherInv, [WatcherNext]_watcherVars PROVE WatcherInv'
  OBVIOUS
<1>1. CASE UNCHANGED watcherVars
  BY <1>1 DEF WatcherInv, WatcherTypes, Idle, Matched, Knows, Open, watcherVars
<1> QED BY <1>1, WatchHolds, UnwatchHolds, SignalHolds, ReplyHolds, ServeHolds, OwnerHolds
        DEF WatcherNext

\* However many watch, come and go while the owner changes: when the bus is quiet
\* all of them know the owner, except who came too late to be answered.
THEOREM WatchersKnowOwnerAlways == WatcherSpec => []WatchersKnowOwner
<1>1. WatcherInv => WatchersKnowOwner
  <2> SUFFICES ASSUME WatcherInv, Quiet, NEW w \in watching
               PROVE  toldOwner[w] = owner \/ (w \in late /\ toldOwner[w] = Untold)
    BY DEF WatchersKnowOwner
  <2>1. Len(requests) = 0 /\ Len(incoming) = 0 /\ 1..0 = {}
    BY DEF Quiet
  <2>2. ~Signalled(incoming) /\ ~Open
    BY <2>1 DEF Signalled, Open, Asks, Replied
  <2> QED BY <2>2 DEF WatcherInv, Knows
<1> QED BY <1>1, WatcherInitHolds, WatcherStepHolds, PTL DEF WatcherSpec

(***************************************************************************)
(* KeysFollowUser and DelegateHasFocus, for any keys and any applications.  *)
(***************************************************************************)

KeyboardStates ==
  [activate : BOOLEAN, deactivate : BOOLEAN, grab : BOOLEAN, mapped : BOOLEAN,
   ready : BOOLEAN, pressed : SUBSET GrabbedKeys, timer : BOOLEAN,
   repeatKey : GrabbedKeys \cup {NoRepeat}, serverRepeats : BOOLEAN,
   down : SUBSET GrabbedKeys]

Histories ==
  [held : SUBSET GrabbedKeys, taken : SUBSET GrabbedKeys, left : SUBSET GrabbedKeys]

\* pressedVKKey_ has what a deactivation needs to release.
Noted(s) ==
  /\ ~s.ready => s.down = {}
  /\ s.down \cap RepeatingKeys \subseteq s.pressed

\* A key that the engine takes is down only if it was left so before: its release
\* may be taken too.
TakenIsUp == user.taken \cap wl.down \cap RepeatingKeys \subseteq user.left

KeysInv ==
  /\ wl \in KeyboardStates
  /\ user \in Histories
  /\ Noted(wl)
  /\ TakenIsUp
  /\ KeysFollowUser

-----------------------------------------------------------------------------

LEMMA KeysInit == WaylandInit => KeysInv
  BY DEF WaylandInit, KeysInv, KeyboardStates, Histories, Noted, TakenIsUp,
         KeysFollowUser

\* What sendKeyToVK does to the keys that are down, for a press, which may become
\* text, and for a release.
LEMMA PressSent ==
  ASSUME NEW s \in KeyboardStates, NEW key \in GrabbedKeys,
         NEW t, t = s \/ t = SendKeyToVK(s, key, TRUE, FALSE), Noted(s)
  PROVE  /\ t \in KeyboardStates
         /\ Noted(t)
         /\ t.timer = s.timer /\ t.repeatKey = s.repeatKey
         /\ t.down \subseteq s.down \cup {key}
<1>1. CASE t = s
  BY <1>1
<1>2. CASE ~s.ready
  BY <1>2 DEF SendKeyToVK
<1>3. CASE s.ready /\ t = SendKeyToVK(s, key, TRUE, FALSE)
  <2>1. t = [s EXCEPT !.pressed = IF key \in RepeatingKeys THEN @ \cup {key}
                                  ELSE @ \ {key},
                      !.down = @ \cup {key}]
    BY <1>3 DEF SendKeyToVK
  <2>2. /\ t \in KeyboardStates
        /\ t.ready = s.ready /\ t.timer = s.timer /\ t.repeatKey = s.repeatKey
        /\ t.pressed = (IF key \in RepeatingKeys THEN s.pressed \cup {key}
                        ELSE s.pressed \ {key})
        /\ t.down = s.down \cup {key}
    BY <2>1 DEF KeyboardStates
  <2>3. Noted(t)
    BY <1>3, <2>2 DEF Noted
  <2>4. QED
    BY <2>2, <2>3
<1>4. QED
  BY <1>1, <1>2, <1>3

LEMMA ReleaseSent ==
  ASSUME NEW s \in KeyboardStates, NEW key \in GrabbedKeys,
         NEW t, t = SendKeyToVK(s, key, FALSE, FALSE), Noted(s)
  PROVE  /\ t \in KeyboardStates
         /\ Noted(t)
         /\ t.timer = s.timer /\ t.repeatKey = s.repeatKey
         /\ t.down \subseteq s.down /\ key \notin t.down
<1>1. CASE ~s.ready
  BY <1>1 DEF SendKeyToVK, Noted
<1>2. CASE s.ready
  <2>1. /\ t \in KeyboardStates
        /\ t.ready = s.ready /\ t.timer = s.timer /\ t.repeatKey = s.repeatKey
        /\ t.pressed = s.pressed \ {key}
        /\ t.down = s.down \ {key}
    BY <1>2 DEF SendKeyToVK, KeyboardStates
  <2>2. QED
    BY <1>2, <2>1 DEF Noted
<1>3. QED
  BY <1>1, <1>2

\* NewKeyboard lets go of all keys or of none.
LEMMA NewKeyboardFacts ==
  ASSUME NEW s \in KeyboardStates, Noted(s)
  PROVE  LET t == NewKeyboard(s)
         IN  /\ t \in KeyboardStates
             /\ Noted(t)
             /\ t.timer = s.timer /\ t.repeatKey = s.repeatKey
             /\ t.down \subseteq s.down
  BY DEF NewKeyboard, KeyboardStates, Noted

\* A deactivation leaves no key down that repeats, if the field still has focus.
LEMMA DeactivatedFacts ==
  ASSUME KeysInv
  PROVE  /\ Deactivated \in KeyboardStates
         /\ Noted(Deactivated)
         /\ Deactivated.timer = FALSE
         /\ RealFocus(field) => Deactivated.down \cap RepeatingKeys = {}
         /\ Deactivated.down \cap RepeatingKeys \subseteq wl.pressed
<1> DEFINE released == IF RealFocus(field) /\ wl.ready
                       THEN [wl EXCEPT !.down = @ \ wl.pressed, !.pressed = {}] ELSE wl
           off == [released EXCEPT !.deactivate = FALSE, !.grab = FALSE,
                     !.mapped = FALSE, !.timer = FALSE, !.serverRepeats = FALSE]
<1>1. /\ released \in KeyboardStates
      /\ Noted(released)
      /\ released.down \subseteq wl.down
      /\ RealFocus(field) => released.down \cap RepeatingKeys = {}
  BY DEF KeysInv, Noted, KeyboardStates
<1>2. /\ off \in KeyboardStates
      /\ Noted(off)
      /\ off.timer = FALSE /\ off.down = released.down
  <2> HIDE DEF released
  <2>1. QED
    BY <1>1 DEF Noted, KeyboardStates
<1>3. Deactivated = NewKeyboard(off)
  BY DEF Deactivated
<1> HIDE DEF released, off
<1>4. /\ NewKeyboard(off) \in KeyboardStates
      /\ Noted(NewKeyboard(off))
      /\ NewKeyboard(off).timer = FALSE
      /\ NewKeyboard(off).down \subseteq released.down
  BY <1>2, NewKeyboardFacts
<1>5. QED
  BY <1>1, <1>3, <1>4 DEF KeysInv, Noted

LEMMA DoneHolds == KeysInv /\ Done => KeysInv'
<1> SUFFICES ASSUME KeysInv, Done PROVE KeysInv'
  OBVIOUS
<1> DEFINE off == IF wl.deactivate THEN Deactivated ELSE wl
<1>1. /\ off \in KeyboardStates
      /\ Noted(off)
      /\ ~wl.deactivate => off = wl
      /\ wl.deactivate => /\ off.timer = FALSE
                          /\ RealFocus(field) => off.down \cap RepeatingKeys = {}
                          /\ off.down \cap RepeatingKeys \subseteq wl.pressed
  BY DeactivatedFacts DEF KeysInv
<1> DEFINE on == [off EXCEPT !.activate = FALSE, !.grab = TRUE, !.mapped = FALSE]
<1>2. /\ on \in KeyboardStates
      /\ Noted(on)
      /\ on.timer = off.timer /\ on.repeatKey = off.repeatKey /\ on.down = off.down
  <2> HIDE DEF off
  <2>1. QED
    BY <1>1 DEF KeyboardStates, Noted
<1>3. wl' = IF wl.activate THEN NewKeyboard(on) ELSE off
  BY DEF Done, Uses, Activated
<1> HIDE DEF off, on
<1>4. /\ wl' \in KeyboardStates
      /\ Noted(wl')
      /\ wl'.timer = off.timer /\ wl'.repeatKey = off.repeatKey
      /\ wl'.down \subseteq off.down
  BY <1>1, <1>2, <1>3, NewKeyboardFacts
<1>5. user' = IF ~wl.deactivate THEN user
              ELSE [held |-> {}, taken |-> {},
                    left |-> IF RealFocus(field) THEN user.left
                             ELSE user.left \cup wl.pressed]
  BY DEF Done
<1>6. CASE ~wl.deactivate
  BY <1>1, <1>4, <1>5, <1>6 DEF KeysInv, TakenIsUp, KeysFollowUser
<1>7. CASE wl.deactivate
  <2>1. user' \in Histories
    BY <1>5, <1>7 DEF KeysInv, Histories, KeyboardStates
  <2>2. user'.taken = {} /\ wl'.timer = FALSE
    BY <1>1, <1>4, <1>5, <1>7
  <2>3. wl'.down \cap RepeatingKeys \subseteq user'.left
    BY <1>1, <1>4, <1>5, <1>7
  <2>4. QED
    BY <1>4, <2>1, <2>2, <2>3 DEF KeysInv, TakenIsUp, KeysFollowUser
<1>8. QED
  BY <1>6, <1>7

LEMMA PressHolds ==
  ASSUME KeysInv, NEW key \in GrabbedKeys, NEW repeats \in BOOLEAN,
         NEW handled \in BOOLEAN, NEW asText \in BOOLEAN,
         Press(key, repeats, handled, asText)
  PROVE  KeysInv'
<1> DEFINE noted == IF repeats THEN [wl EXCEPT !.serverRepeats = TRUE]
                    ELSE IF key \in RepeatingKeys /\ ~wl.serverRepeats
                    THEN [wl EXCEPT !.repeatKey = key, !.timer = TRUE] ELSE wl
<1>1. /\ noted \in KeyboardStates
      /\ Noted(noted)
      /\ noted.down = wl.down
      /\ noted.timer => noted.repeatKey \in user.held \cup {key}
  BY DEF KeysInv, KeyboardStates, Noted, KeysFollowUser
<1>2. wl' = IF handled THEN noted ELSE SendKeyToVK(noted, key, TRUE, asText)
  BY DEF Press, Uses
<1> HIDE DEF noted
<1>3. /\ wl' \in KeyboardStates
      /\ Noted(wl')
      /\ wl'.timer = noted.timer /\ wl'.repeatKey = noted.repeatKey
      /\ wl'.down \subseteq wl.down \cup (IF handled THEN {} ELSE {key})
  <2>1. CASE handled
    BY <1>1, <1>2, <2>1
  <2>2. CASE ~handled
    <3>1. wl' = noted \/ wl' = SendKeyToVK(noted, key, TRUE, FALSE)
      BY <1>2, <2>2 DEF SendKeyToVK
    <3>2. /\ wl' \in KeyboardStates
          /\ Noted(wl')
          /\ wl'.timer = noted.timer /\ wl'.repeatKey = noted.repeatKey
          /\ wl'.down \subseteq noted.down \cup {key}
      BY <1>1, <3>1, PressSent
    <3>3. QED
      BY <1>1, <2>2, <3>2
  <2>3. QED
    BY <2>1, <2>2
<1>4. user' = [held |-> user.held \cup {key},
               left |-> IF handled THEN user.left ELSE user.left \ {key},
               taken |-> IF handled /\ (repeats => key \in user.taken)
                         THEN user.taken \cup {key} ELSE user.taken \ {key}]
  BY DEF Press
<1>5. user' \in Histories
  BY <1>4 DEF KeysInv, Histories
<1>6. KeysFollowUser'
  BY <1>1, <1>3, <1>4 DEF KeysInv, KeysFollowUser
<1>7. TakenIsUp'
  <2>1. repeats = (key \in user.held)
    BY DEF Press
  <2>2. QED
    BY <1>3, <1>4, <2>1 DEF KeysInv, TakenIsUp, KeysFollowUser
<1>8. QED
  BY <1>3, <1>5, <1>6, <1>7 DEF KeysInv

LEMMA ReleaseHolds ==
  ASSUME KeysInv, NEW key \in GrabbedKeys, NEW handled \in BOOLEAN,
         Release(key, handled)
  PROVE  KeysInv'
<1> DEFINE stopped == [wl EXCEPT !.timer = @ /\ key # wl.repeatKey]
<1>1. /\ stopped \in KeyboardStates
      /\ Noted(stopped)
      /\ stopped.down = wl.down
      /\ stopped.timer => stopped.repeatKey \in user.held \ {key}
  BY DEF KeysInv, KeyboardStates, Noted, KeysFollowUser
<1>2. wl' = IF handled THEN stopped ELSE SendKeyToVK(stopped, key, FALSE, FALSE)
  BY DEF Release, Uses
<1> HIDE DEF stopped
<1>3. /\ wl' \in KeyboardStates
      /\ Noted(wl')
      /\ wl'.timer = stopped.timer /\ wl'.repeatKey = stopped.repeatKey
      /\ wl'.down \subseteq wl.down \cup {key}
      /\ handled => wl'.down = wl.down
      /\ ~handled => key \notin wl'.down
  BY <1>1, <1>2, ReleaseSent
<1>4. user' = [held |-> user.held \ {key}, taken |-> user.taken \ {key},
               left |-> IF handled THEN user.left ELSE user.left \ {key}]
  BY DEF Release
<1>5. user' \in Histories
  BY <1>4 DEF KeysInv, Histories
<1>6. KeysFollowUser'
  <2>1. handled => key \in user.taken
    BY DEF Release
  <2>2. QED
    BY <1>1, <1>3, <1>4, <2>1 DEF KeysInv, KeysFollowUser, TakenIsUp
<1>7. TakenIsUp'
  BY <1>3, <1>4 DEF KeysInv, TakenIsUp
<1>8. QED
  BY <1>3, <1>5, <1>6, <1>7 DEF KeysInv

LEMMA TimerHolds ==
  ASSUME KeysInv, NEW handled \in BOOLEAN, NEW asText \in BOOLEAN,
         TimerFires(handled, asText)
  PROVE  KeysInv'
<1> DEFINE key == wl.repeatKey
           stopped == [wl EXCEPT !.timer = FALSE]
           up == SendKeyToVK(stopped, key, FALSE, FALSE)
           typed == IF handled THEN up ELSE SendKeyToVK(up, key, TRUE, asText)
<1>1. /\ stopped \in KeyboardStates
      /\ Noted(stopped)
      /\ stopped.down = wl.down /\ stopped.repeatKey = key /\ stopped.timer = FALSE
  BY DEF KeysInv, KeyboardStates, Noted
<1>2. key \in user.held /\ key \in GrabbedKeys
  BY DEF TimerFires, KeysInv, KeysFollowUser, Histories
<1>3. CASE ~RealFocus(field) \/ wl.serverRepeats
  <2>1. wl' = stopped /\ user' = user
    BY <1>3 DEF TimerFires, Uses
  <2>2. QED
    BY <1>1, <2>1 DEF KeysInv, KeysFollowUser, TakenIsUp
<1>4. CASE ~(~RealFocus(field) \/ wl.serverRepeats)
  <2>1. /\ wl' = [typed EXCEPT !.timer = TRUE]
        /\ user' = [user EXCEPT !.taken = IF handled THEN @ ELSE @ \ {key}]
    BY <1>4 DEF TimerFires, Uses
  <2> HIDE DEF stopped, key
  <2>2. /\ up \in KeyboardStates
        /\ Noted(up)
        /\ up.repeatKey = key /\ up.timer = FALSE
        /\ up.down \subseteq wl.down \cup {key} /\ key \notin up.down
    BY <1>1, <1>2, ReleaseSent
  <2> HIDE DEF up
  <2>3. /\ typed \in KeyboardStates
        /\ Noted(typed)
        /\ typed.repeatKey = key
        /\ typed.down \subseteq up.down \cup (IF handled THEN {} ELSE {key})
    <3>1. CASE handled
      BY <2>2, <3>1
    <3>2. CASE ~handled
      <4>1. typed = up \/ typed = SendKeyToVK(up, key, TRUE, FALSE)
        BY <3>2 DEF SendKeyToVK
      <4> HIDE DEF typed
      <4>2. /\ typed \in KeyboardStates
            /\ Noted(typed)
            /\ typed.repeatKey = up.repeatKey
            /\ typed.down \subseteq up.down \cup {key}
        <5>1. key \in GrabbedKeys /\ up \in KeyboardStates /\ Noted(up)
          BY <1>2, <2>2
        <5> HIDE DEF key
        <5>2. CASE typed = up
          BY <2>2, <5>1, <5>2
        <5>3. CASE typed = SendKeyToVK(up, key, TRUE, FALSE)
          BY <5>1, <5>3, PressSent
        <5>4. QED
          BY <4>1, <5>2, <5>3
      <4>3. QED
        BY <2>2, <3>2, <4>2
    <3>3. QED
      BY <3>1, <3>2
  <2> HIDE DEF typed
  <2>4. /\ wl' \in KeyboardStates
        /\ Noted(wl')
        /\ wl'.repeatKey = key
        /\ wl'.down = typed.down
    BY <2>1, <2>3 DEF KeyboardStates, Noted
  <2>5. /\ user' \in Histories
        /\ user'.held = user.held /\ user'.left = user.left
        /\ user'.taken = (IF handled THEN user.taken ELSE user.taken \ {key})
    BY <2>1 DEF KeysInv, Histories
  <2>6. KeysFollowUser' /\ TakenIsUp'
    BY <1>2, <2>2, <2>3, <2>4, <2>5 DEF KeysInv, KeysFollowUser, TakenIsUp
  <2>7. QED
    BY <2>4, <2>5, <2>6 DEF KeysInv
<1>5. QED
  BY <1>3, <1>4

LEMMA ForwardHolds ==
  ASSUME KeysInv, NEW key \in GrabbedKeys, NEW asText \in BOOLEAN,
         ForwardKey(key, asText)
  PROVE  KeysInv'
<1> DEFINE typed == SendKeyToVK(wl, key, TRUE, asText)
<1>1. /\ typed \in KeyboardStates
      /\ Noted(typed)
      /\ typed.timer = wl.timer /\ typed.repeatKey = wl.repeatKey
      /\ typed.down \subseteq wl.down \cup {key}
  <2>1. typed = wl \/ typed = SendKeyToVK(wl, key, TRUE, FALSE)
    BY DEF SendKeyToVK
  <2> HIDE DEF typed
  <2>2. QED
    BY <2>1, PressSent DEF KeysInv
<1>2. wl' = SendKeyToVK(typed, key, FALSE, FALSE)
  BY DEF ForwardKey, Uses
<1> HIDE DEF typed
<1>3. /\ wl' \in KeyboardStates
      /\ Noted(wl')
      /\ wl'.timer = wl.timer /\ wl'.repeatKey = wl.repeatKey
      /\ wl'.down \subseteq wl.down \cup {key} /\ key \notin wl'.down
  BY <1>1, <1>2, ReleaseSent
<1>4. /\ user' \in Histories
      /\ user'.held = user.held /\ user'.taken = user.taken
      /\ user'.left = user.left \ {key}
  BY DEF ForwardKey, KeysInv, Histories
<1>5. QED
  BY <1>3, <1>4 DEF KeysInv, KeysFollowUser, TakenIsUp

LEMMA KeysStep == KeysInv /\ [WaylandNext]_waylandVars => KeysInv'
<1> SUFFICES ASSUME KeysInv, [WaylandNext]_waylandVars PROVE KeysInv'
  OBVIOUS
<1>1. CASE wl' = wl /\ user' = user
  BY <1>1 DEF KeysInv, Noted, TakenIsUp, KeysFollowUser
<1>2. CASE Activate \/ Deactivate \/ Keymap
  <2>1. user' = user /\ wl' \in {[wl EXCEPT !.activate = TRUE],
                                 [wl EXCEPT !.deactivate = TRUE],
                                 [wl EXCEPT !.mapped = TRUE, !.ready = TRUE]}
    BY <1>2 DEF Activate, Deactivate, Keymap, Uses
  <2>2. /\ wl' \in KeyboardStates
        /\ wl'.pressed = wl.pressed /\ wl'.down = wl.down
        /\ wl'.timer = wl.timer /\ wl'.repeatKey = wl.repeatKey
        /\ wl.ready => wl'.ready
    BY <2>1 DEF KeysInv, KeyboardStates
  <2>3. QED
    BY <2>1, <2>2 DEF KeysInv, Noted, TakenIsUp, KeysFollowUser
<1>3. CASE Done
  BY <1>3, DoneHolds
<1>4. ASSUME NEW key \in GrabbedKeys, NEW asText \in BOOLEAN,
             \/ \E repeats, handled \in BOOLEAN : Press(key, repeats, handled, asText)
             \/ ForwardKey(key, asText)
      PROVE  KeysInv'
  BY <1>4, PressHolds, ForwardHolds
<1>5. ASSUME NEW key \in GrabbedKeys, NEW handled \in BOOLEAN, Release(key, handled)
      PROVE  KeysInv'
  BY <1>5, ReleaseHolds
<1>6. ASSUME NEW handled \in BOOLEAN, NEW asText \in BOOLEAN, TimerFires(handled, asText)
      PROVE  KeysInv'
  BY <1>6, TimerHolds
<1>7. CASE UNCHANGED waylandVars
  BY <1>1, <1>7 DEF waylandVars
<1>8. QED
  BY <1>1, <1>2, <1>3, <1>4, <1>5, <1>6, <1>7 DEF WaylandNext

(***************************************************************************)
(* Whatever falls between a press and its release: the virtual keyboard     *)
(* holds down no key that repeats but those that the user holds, or that    *)
(* were down when another context took the focus, and the timer types none  *)
(* but those.                                                              *)
(***************************************************************************)
THEOREM KeysFollowUserAlways == WaylandSpec => []KeysFollowUser
<1>1. KeysInv => KeysFollowUser
  BY DEF KeysInv
<1>2. QED
  BY KeysInit, KeysStep, <1>1, PTL DEF WaylandSpec
-----------------------------------------------------------------------------

Contexts == Applications \cup {Parent}

Fields ==
  [front : Applications \cup {Nobody}, managed : SUBSET Applications, real : BOOLEAN,
   focus : Contexts \cup {Elsewhere, Nobody}, flags : [Contexts -> SomeFlags],
   robbed : BOOLEAN]

\* DelegateHasFocus of a state of the field that an operation passes through
Sound(s) ==
  /\ s.focus \notin {Nobody, Elsewhere} =>
       /\ RealFocus(s) /\ s.focus = Delegated(s)
       /\ s.flags[s.focus] = s.flags[Parent]
  /\ RealFocus(s) /\ ~s.robbed => s.focus = Delegated(s)

FieldInv == monitored \in BOOLEAN /\ field \in Fields /\ Sound(field)

LEMMA DelegatedIsContext ==
  ASSUME NEW s \in Fields
  PROVE  Delegated(s) \in Contexts
BY DEF Delegated, Fields, Contexts

\* updateFocus repairs whatever it finds.
LEMMA UpdateSound ==
  ASSUME monitored, NEW s \in Fields
  PROVE  UpdateFocus(s) \in Fields /\ Sound(UpdateFocus(s))
<1> DEFINE t == UpdateFocus(s)
<1>1. /\ t \in Fields
      /\ t.front = s.front /\ t.real = s.real /\ t.robbed = FALSE
      /\ t.managed = (IF s.front = Nobody THEN s.managed ELSE s.managed \cup {s.front})
      /\ s.real => t.focus = Delegated(t)
      /\ ~s.real => t.focus \in {Nobody, Elsewhere}
      /\ s.real /\ s.front # Nobody => t.flags[s.front] = t.flags[Parent]
  BY ContextsAssumption DEF UpdateFocus, Delegated, Fields, Contexts
<1> HIDE DEF t
<1>2. s.real => Delegated(t) = Parent \/ (Delegated(t) = s.front /\ s.front # Nobody)
  BY <1>1, ContextsAssumption DEF Delegated, Fields
<1>3. Sound(t)
  BY <1>1, <1>2 DEF Sound, RealFocus
<1>4. QED
  BY <1>1, <1>3 DEF t

LEMMA FocusInSound ==
  ASSUME FieldInv, NEW s \in Fields
  PROVE  FocusInWrapper(s) \in Fields /\ Sound(FocusInWrapper(s))
<1>1. CASE monitored
  <2>1. [s EXCEPT !.real = TRUE] \in Fields
    BY DEF Fields
  <2>2. QED
    BY <1>1, <2>1, UpdateSound DEF FocusInWrapper
<1>2. CASE ~monitored
  <2>1. FocusInWrapper(s) = [s EXCEPT !.focus = Parent, !.robbed = FALSE]
    BY <1>2 DEF FocusInWrapper
  <2>2. QED
    BY <1>2, <2>1 DEF Sound, RealFocus, Delegated, Fields, Contexts
<1>3. QED
  BY <1>1, <1>2

LEMMA FocusOutSound ==
  ASSUME FieldInv
  PROVE  FocusOutWrapper(field) \in Fields /\ Sound(FocusOutWrapper(field))
<1>1. CASE monitored
  <2>1. [field EXCEPT !.real = FALSE] \in Fields
    BY DEF FieldInv, Fields
  <2>2. QED
    BY <1>1, <2>1, UpdateSound DEF FocusOutWrapper
<1>2. CASE ~monitored
  <2>1. FocusOutWrapper(field)
          = [field EXCEPT !.focus = IF field.focus = Parent THEN Nobody ELSE field.focus,
                          !.robbed = FALSE]
    BY <1>2 DEF FocusOutWrapper, FieldInv, Fields
  <2>2. QED
    BY <1>2, <2>1, ContextsAssumption
    DEF FieldInv, Sound, RealFocus, Delegated, Fields, Contexts
<1>3. QED
  BY <1>1, <1>2

LEMMA FlagsSound ==
  ASSUME FieldInv, NEW flags \in SomeFlags
  PROVE  SetCapabilityFlags(field, flags) \in Fields
         /\ Sound(SetCapabilityFlags(field, flags))
<1> DEFINE t == SetCapabilityFlags(field, flags)
<1>1. Delegated(field) \in Contexts /\ Parent \in Contexts
  BY DelegatedIsContext DEF FieldInv, Contexts
<1>2. /\ t \in Fields
      /\ t.front = field.front /\ t.real = field.real /\ t.robbed = field.robbed
      /\ t.managed = field.managed /\ t.focus = field.focus
      /\ t.flags[Parent] = flags /\ t.flags[Delegated(field)] = flags
  BY <1>1 DEF SetCapabilityFlags, FieldInv, Fields
<1> HIDE DEF t
<1>3. Sound(t)
  BY <1>2 DEF FieldInv, Sound, RealFocus, Delegated
<1>4. QED
  BY <1>2, <1>3 DEF t

LEMMA VirtualHolds ==
  ASSUME FieldInv, VirtualNext
  PROVE  FieldInv'
<1>1. ASSUME NEW apps \in SUBSET Applications, NEW front \in Applications \cup {Nobody},
             AppUpdated(apps, front)
      PROVE  FieldInv'
  <2> DEFINE s == [field EXCEPT !.managed = field.managed \cap apps, !.front = front,
                                !.focus = IF field.focus \in Applications \ apps
                                          THEN Nobody ELSE field.focus]
  <2>1. s \in Fields
    BY DEF FieldInv, Fields
  <2>2. monitored /\ monitored' = monitored /\ field' = UpdateFocus(s)
    BY <1>1 DEF AppUpdated
  <2> HIDE DEF s
  <2>3. field' \in Fields /\ Sound(field')
    BY <2>1, <2>2, UpdateSound
  <2>4. QED
    BY <2>2, <2>3 DEF FieldInv, Sound, RealFocus, Delegated
<1>2. ASSUME NEW flags \in SomeFlags, ContentType(flags)
      PROVE  FieldInv'
  <2>1. field' \in Fields /\ Sound(field') /\ monitored' = monitored
    BY <1>2, FlagsSound DEF ContentType
  <2>2. QED
    BY <2>1 DEF FieldInv, Sound, RealFocus, Delegated
<1>3. CASE FocusTaken
  <2>1. /\ monitored' = monitored
        /\ field' = [field EXCEPT !.focus = Elsewhere,
                                  !.robbed = field.robbed \/ field.focus # Nobody]
    BY <1>3 DEF FocusTaken
  <2>2. Delegated(field) # Nobody
    BY DelegatedIsContext, ContextsAssumption DEF FieldInv, Contexts
  <2>3. QED
    BY <2>1, <2>2, ContextsAssumption
    DEF FieldInv, Fields, Sound, RealFocus, Delegated, Parent, Elsewhere
<1>4. CASE FocusGiven
  <2>1. /\ monitored' = monitored /\ field.focus = Elsewhere
        /\ field' = [field EXCEPT !.focus = Nobody]
    BY <1>4 DEF FocusGiven
  <2>2. Delegated(field) # Elsewhere /\ Parent # Nobody
    BY DelegatedIsContext, ContextsAssumption DEF FieldInv, Contexts, Parent, Elsewhere
  <2>3. QED
    BY <2>1, <2>2 DEF FieldInv, Fields, Sound, RealFocus, Delegated
<1>5. QED
  BY <1>1, <1>2, <1>3, <1>4 DEF VirtualNext

\* What the actions of the keyboard may do to the field
LEMMA KeyboardHolds ==
  ASSUME FieldInv, monitored' = monitored,
         \/ field' = field
         \/ field' = SetCapabilityFlags(field, BaseFlags)
         \/ field' = FocusInWrapper(field)
         \/ field' = FocusOutWrapper(field)
         \/ field' = FocusInWrapper(FocusOutWrapper(field))
  PROVE  FieldInv'
<1>1. field' \in Fields /\ Sound(field')
  BY FocusInSound, FocusOutSound, FlagsSound, BaseFlagsAssumption DEF FieldInv
<1>2. QED
  BY <1>1 DEF FieldInv, Sound, RealFocus, Delegated

LEMMA FieldStep == FieldInv /\ [WaylandNext]_waylandVars => FieldInv'
<1> SUFFICES ASSUME FieldInv, [WaylandNext]_waylandVars PROVE FieldInv'
  OBVIOUS
<1>1. CASE UNCHANGED waylandVars
  BY <1>1, KeyboardHolds DEF waylandVars, virtualVars
<1>2. CASE VirtualNext
  BY <1>2, VirtualHolds
<1>3. CASE Activate \/ Deactivate \/ Keymap
  BY <1>3, KeyboardHolds DEF Activate, Deactivate, Keymap, Uses
<1>4. CASE Done
  BY <1>4, KeyboardHolds DEF Done, Uses
<1>5. ASSUME NEW key \in GrabbedKeys, NEW asText \in BOOLEAN,
             \/ \E repeats, handled \in BOOLEAN : Press(key, repeats, handled, asText)
             \/ ForwardKey(key, asText)
      PROVE  FieldInv'
  BY <1>5, KeyboardHolds DEF Press, ForwardKey, Uses
<1>6. ASSUME NEW key \in GrabbedKeys, NEW handled \in BOOLEAN, Release(key, handled)
      PROVE  FieldInv'
  BY <1>6, KeyboardHolds DEF Release, Uses
<1>7. ASSUME NEW handled \in BOOLEAN, NEW asText \in BOOLEAN, TimerFires(handled, asText)
      PROVE  FieldInv'
  BY <1>7, KeyboardHolds DEF TimerFires, Uses
<1>8. QED
  BY <1>1, <1>2, <1>3, <1>4, <1>5, <1>6, <1>7 DEF WaylandNext

(***************************************************************************)
(* However applications come and go in front of the compositor's text       *)
(* field: a context of the field has focus if and only if the field does,   *)
(* unless another took it, and it is the one that gets the keys, with the   *)
(* capabilities of the field.                                              *)
(***************************************************************************)
THEOREM DelegateHasFocusAlways == WaylandSpec => []DelegateHasFocus
<1>1. WaylandInit => FieldInv
  BY ContextsAssumption, BaseFlagsAssumption
  DEF WaylandInit, VirtualInit, FieldInv, Fields, Contexts, Sound, RealFocus, Parent
<1>2. FieldInv => DelegateHasFocus
  BY DEF FieldInv, Sound, DelegateHasFocus
<1>3. QED
  BY FieldStep, <1>1, <1>2, PTL DEF WaylandSpec

(***************************************************************************)
(* InputBuffer: RangesFit, for any characters of any widths, any text and  *)
(* any calls.                                                              *)
(***************************************************************************)

Characters == DOMAIN Width
Bytes == Characters \X (1..4)
Texts == Seq(Characters)
Encoded(char) == [k \in 1..Width[char] |-> <<char, k>>]
Widths(text) == [i \in DOMAIN text |-> Width[text[i]]]

\* The bytes in front of the character that follows the first n.
Offset(text, n) == Len(BytesOf(SubSeq(text, 1, n)))

\* A function that follows a recursion is the one that the recursion defines.
LEMMA FollowsRecursion ==
  ASSUME NEW V, NEW n \in Nat, NEW base \in V, NEW step \in [(1..n) \X V -> V],
         NEW f, f = [k \in 0..n |-> f[k]], f[0] = base,
         \A k \in 1..n : f[k - 1] \in V => f[k] = step[<<k, f[k - 1]>>]
  PROVE  f \in [0..n -> V] /\ Iterates(f, base, step, n)
<1> DEFINE right == [k \in 0..n |-> f[k] \in V]
<1>1. \A k \in 0..n : right[k] <=> f[k] \in V
  OBVIOUS
<1>2. right \in [0..n -> BOOLEAN]
  OBVIOUS
<1> HIDE DEF right
<1>3. right[0]
  BY <1>1
<1>4. ASSUME NEW k \in 1..n, right[k - 1] PROVE right[k]
  <2>1. k - 1 \in 0..n /\ k \in 0..n
    OBVIOUS
  <2>2. f[k - 1] \in V
    BY <1>1, <1>4, <2>1
  <2>3. <<k, f[k - 1]>> \in (1..n) \X V
    BY <2>2
  <2>4. f[k] \in V
    BY <2>2, <2>3
  <2> QED BY <1>1, <2>1, <2>4
<1>5. \A k \in 0..n : right[k]
  BY <1>2, <1>3, <1>4, LeastWrong
<1>6. \A k \in 0..n : f[k] \in V
  BY <1>1, <1>5
<1>7. Iterates(f, base, step, n)
  <2> SUFFICES ASSUME NEW k \in 1..n PROVE f[k - 1] \in V
    BY DEF Iterates
  <2>1. k - 1 \in 0..n
    OBVIOUS
  <2> QED BY <1>6, <2>1
<1>8. f \in [0..n -> V]
  <2> DEFINE g == [k \in 0..n |-> f[k]]
  <2>1. g \in [0..n -> V]
    BY <1>6
  <2> QED BY <2>1
<1> QED BY <1>7, <1>8

LEMMA EncodedFacts ==
  ASSUME NEW char \in Characters
  PROVE  /\ Encoded(char) \in Seq(Bytes)
         /\ Len(Encoded(char)) = Width[char]
         /\ Width[char] \in 1..4
<1>1. Width[char] \in 1..4
  BY WidthAssumption DEF Characters
<1> DEFINE w == Width[char]
<1>2. w \in Nat
  BY <1>1
<1>3. \A k \in 1..w : <<char, k>> \in Bytes
  BY <1>1 DEF Bytes
<1>4. Encoded(char) = [k \in 1..w |-> <<char, k>>]
  BY DEF Encoded
<1> HIDE DEF w
<1>5. [k \in 1..w |-> <<char, k>>] \in Seq(Bytes)
  BY <1>2, <1>3
<1>6. Len([k \in 1..w |-> <<char, k>>]) = w
  BY <1>2
<1> QED BY <1>1, <1>4, <1>5, <1>6 DEF w

\* The bytes of a text are those of its characters, one after another.
BytesStep(text) == [a \in (1..Len(text)) \X Seq(Bytes) |-> a[2] \o Encoded(text[a[1]])]

LEMMA BytesSteps ==
  ASSUME NEW text \in Texts
  PROVE  \E f \in [0..Len(text) -> Seq(Bytes)] :
           /\ f[0] = <<>>
           /\ \A k \in 1..Len(text) : f[k] = f[k - 1] \o Encoded(text[k])
           /\ BytesOf(text) = f[Len(text)]
<1> DEFINE n == Len(text)
           Steps(h) == [k \in 0..n |-> IF k = 0 THEN <<>> ELSE h[k - 1] \o Encoded(text[k])]
           f == CHOOSE h : h = Steps(h)
           step == BytesStep(text)
<1>0. n \in Nat /\ \A k \in 1..n : text[k] \in Characters
  BY DEF Texts
<1>1. step \in [(1..n) \X Seq(Bytes) -> Seq(Bytes)]
  <2>1. \A a \in (1..n) \X Seq(Bytes) : a[2] \o Encoded(text[a[1]]) \in Seq(Bytes)
    BY <1>0, EncodedFacts, ConcatProperties
  <2> QED BY <2>1 DEF BytesStep
<1>2. ASSUME NEW k \in 1..n, NEW s \in Seq(Bytes)
      PROVE  step[<<k, s>>] = s \o Encoded(text[k])
  BY DEF BytesStep
<1> HIDE DEF step
<1>3. <<>> \in Seq(Bytes)
  OBVIOUS
<1>4. PICK g \in [0..n -> Seq(Bytes)] : Iterates(g, <<>>, step, n)
  <2> HIDE DEF n
  <2> QED BY <1>0, <1>1, <1>3, RecursionExists
<1>5. g = Steps(g)
  <2>1. ASSUME NEW k \in 0..n PROVE g[k] = Steps(g)[k]
    <3>1. CASE k = 0
      BY <1>4, <3>1 DEF Iterates
    <3>2. CASE k # 0
      <4>1. k \in 1..n /\ k - 1 \in 0..n
        BY <1>0, <3>2
      <4>2. g[k - 1] \in Seq(Bytes)
        BY <4>1
      <4>3. g[k] = step[<<k, g[k - 1]>>]
        BY <1>4, <4>1 DEF Iterates
      <4> QED BY <1>2, <3>2, <4>1, <4>2, <4>3
    <3> QED BY <3>1, <3>2
  <2> QED BY <2>1
<1>6. f = Steps(f)
  <2> HIDE DEF Steps
  <2> QED BY <1>5
<1>7. BytesOf(text) = f[n]
  BY DEF BytesOf, Encoded
<1> HIDE DEF f
<1>8. f = [k \in 0..n |-> f[k]]
  <2>1. Steps(f) = [k \in 0..n |-> Steps(f)[k]]
    OBVIOUS
  <2> HIDE DEF Steps
  <2> QED BY <1>6, <2>1
<1>9. \A k \in 0..n : f[k] = Steps(f)[k]
  <2> HIDE DEF Steps, n
  <2> QED BY <1>6
<1>10. f[0] = <<>>
  BY <1>0, <1>9
<1>11. ASSUME NEW k \in 1..n, f[k - 1] \in Seq(Bytes)
       PROVE  f[k] = step[<<k, f[k - 1]>>]
  <2>1. k \in 0..n /\ k # 0
    BY <1>0
  <2>2. f[k] = f[k - 1] \o Encoded(text[k])
    BY <1>9, <2>1
  <2> QED BY <1>2, <1>11, <2>2
<1>12. f \in [0..n -> Seq(Bytes)] /\ Iterates(f, <<>>, step, n)
  <2> HIDE DEF n
  <2> QED BY <1>0, <1>1, <1>3, <1>8, <1>10, <1>11, FollowsRecursion
<1>13. ASSUME NEW k \in 1..n PROVE f[k] = f[k - 1] \o Encoded(text[k])
  <2>1. k - 1 \in 0..n
    BY <1>0
  <2>2. f[k - 1] \in Seq(Bytes)
    BY <1>12, <2>1
  <2>3. f[k] = step[<<k, f[k - 1]>>]
    BY <1>12 DEF Iterates
  <2> QED BY <1>2, <2>2, <2>3
<1> QED BY <1>7, <1>10, <1>12, <1>13

LEMMA BytesTyped ==
  ASSUME NEW text \in Texts
  PROVE  BytesOf(text) \in Seq(Bytes)
<1>1. Len(text) \in 0..Len(text)
  BY DEF Texts
<1> QED BY <1>1, BytesSteps

LEMMA BytesOfNothing == BytesOf(<<>>) = <<>>
<1>1. <<>> \in Texts /\ Len(<<>>) = 0
  BY DEF Texts
<1> QED BY <1>1, BytesSteps

LEMMA BytesOfOneMore ==
  ASSUME NEW text \in Texts, NEW char \in Characters
  PROVE  BytesOf(Append(text, char)) = BytesOf(text) \o Encoded(char)
<1> DEFINE more == Append(text, char)
           n == Len(text)
<1>1. /\ more \in Texts /\ Len(more) = n + 1 /\ n \in Nat
      /\ \A i \in 1..n : more[i] = text[i]
      /\ more[n + 1] = char
  BY AppendProperties DEF Texts
<1> HIDE DEF more
<1>2. PICK f \in [0..(n + 1) -> Seq(Bytes)] :
        /\ f[0] = <<>>
        /\ \A k \in 1..(n + 1) : f[k] = f[k - 1] \o Encoded(more[k])
        /\ BytesOf(more) = f[n + 1]
  BY <1>1, BytesSteps
<1>3. PICK g \in [0..n -> Seq(Bytes)] :
        /\ g[0] = <<>>
        /\ \A k \in 1..n : g[k] = g[k - 1] \o Encoded(text[k])
        /\ BytesOf(text) = g[n]
  BY BytesSteps
<1> HIDE DEF n
<1> DEFINE right == [k \in 0..n |-> f[k] = g[k]]
<1>4. right \in [0..n -> BOOLEAN] /\ \A k \in 0..n : right[k] <=> f[k] = g[k]
  OBVIOUS
<1> HIDE DEF right
<1>5. right[0]
  BY <1>1, <1>2, <1>3, <1>4
<1>6. ASSUME NEW k \in 1..n, right[k - 1] PROVE right[k]
  <2>1. k - 1 \in 0..n /\ k \in 0..n /\ k \in 1..(n + 1)
    BY <1>1
  <2>2. f[k - 1] = g[k - 1]
    BY <1>4, <1>6, <2>1
  <2>3. f[k] = g[k]
    BY <1>1, <1>2, <1>3, <2>1, <2>2
  <2> QED BY <1>4, <2>1, <2>3
<1>7. \A k \in 0..n : right[k]
  BY <1>1, <1>4, <1>5, <1>6, LeastWrong
<1>8. f[n] = g[n]
  BY <1>1, <1>4, <1>7
<1>9. f[n + 1] = f[n] \o Encoded(char)
  <2>1. n + 1 \in 1..(n + 1) /\ (n + 1) - 1 = n
    BY <1>1
  <2> QED BY <1>1, <1>2, <2>1
<1> QED BY <1>2, <1>3, <1>8, <1>9 DEF more

\* The first characters of a text, one more of them.
LEMMA OneMore ==
  ASSUME NEW S, NEW s \in Seq(S), NEW k \in 1..Len(s)
  PROVE  /\ SubSeq(s, 1, k - 1) \in Seq(S)
         /\ SubSeq(s, 1, k) = Append(SubSeq(s, 1, k - 1), s[k])
<1>0. Len(s) \in Nat /\ \A i \in 1..Len(s) : s[i] \in S
  OBVIOUS
<1>1. SubSeq(s, 1, k - 1) \in Seq(S)
  <2>1. \A i \in 1..(k - 1) : s[i] \in S
    BY <1>0
  <2> QED BY <2>1, SubSeqProperties
<1>2. 1 \in 1..Len(s) /\ k \in 1..Len(s)
  BY <1>0
<1>3. SubSeq(s, 1, k) = SubSeq(s, 1, k - 1) \o <<s[k]>>
  BY <1>2, SubSeqRecursiveSecond
<1>4. Append(SubSeq(s, 1, k - 1), s[k]) = SubSeq(s, 1, k - 1) \o <<s[k]>>
  BY <1>0, <1>1, AppendIsConcat
<1> QED BY <1>1, <1>3, <1>4

LEMMA BytesOfBoth ==
  ASSUME NEW s \in Texts, NEW t \in Texts
  PROVE  BytesOf(s \o t) = BytesOf(s) \o BytesOf(t)
<1> DEFINE n == Len(t)
           part(k) == SubSeq(t, 1, k)
           right == [k \in 0..n |-> BytesOf(s \o part(k)) = BytesOf(s) \o BytesOf(part(k))]
<1>0. n \in Nat /\ \A k \in 1..n : t[k] \in Characters
  BY DEF Texts
<1>1. right \in [0..n -> BOOLEAN]
      /\ \A k \in 0..n : right[k] <=> BytesOf(s \o part(k)) = BytesOf(s) \o BytesOf(part(k))
  OBVIOUS
<1> HIDE DEF right
<1>2. right[0]
  <2>1. part(0) = <<>>
    BY SubSeqEmpty
  <2>2. s \o <<>> = s /\ BytesOf(s) \o <<>> = BytesOf(s)
    BY BytesTyped, ConcatEmptySeq DEF Texts
  <2>3. BytesOf(s \o part(0)) = BytesOf(s) \o BytesOf(part(0))
    BY <2>1, <2>2, BytesOfNothing
  <2> QED BY <1>0, <1>1, <2>3
<1>3. ASSUME NEW k \in 1..n, right[k - 1] PROVE right[k]
  <2> DEFINE u == part(k - 1)
  <2>1. k - 1 \in 0..n /\ k \in 0..n
    BY <1>0
  <2>2. u \in Texts /\ part(k) = Append(u, t[k]) /\ t[k] \in Characters
    BY <1>0, OneMore DEF Texts
  <2>3. BytesOf(s \o u) = BytesOf(s) \o BytesOf(u)
    BY <1>1, <1>3, <2>1
  <2> HIDE DEF u, part
  <2>4. s \o part(k) = Append(s \o u, t[k]) /\ s \o u \in Texts
    <3> DEFINE one == <<t[k]>>
    <3>1. one \in Texts /\ Append(u, t[k]) = u \o one
      BY <2>2, AppendIsConcat DEF Texts
    <3>2. s \o u \in Texts
      BY <2>2, ConcatProperties DEF Texts
    <3>4. Append(s \o u, t[k]) = (s \o u) \o one
      BY <2>2, <3>2, AppendIsConcat DEF Texts
    <3> HIDE DEF one
    <3>3. (s \o u) \o one = s \o (u \o one)
      <4>1. s \in Seq(Characters) /\ u \in Seq(Characters) /\ one \in Seq(Characters)
        BY <2>2, <3>1 DEF Texts
      <4> QED BY ONLY <4>1, ConcatAssociative
    <3> QED BY <2>2, <3>1, <3>2, <3>3, <3>4
  <2> DEFINE e == Encoded(t[k])
  <2>5. e \in Seq(Bytes)
    BY <2>2, EncodedFacts
  <2>6. BytesOf(part(k)) = BytesOf(u) \o e
    BY <2>2, BytesOfOneMore
  <2>7. BytesOf(s \o part(k)) = BytesOf(s \o u) \o e
    BY <2>2, <2>4, BytesOfOneMore
  <2> HIDE DEF e
  <2>8. BytesOf(s) \in Seq(Bytes) /\ BytesOf(u) \in Seq(Bytes)
    BY <2>2, BytesTyped
  <2>9. (BytesOf(s) \o BytesOf(u)) \o e = BytesOf(s) \o (BytesOf(u) \o e)
    BY <2>5, <2>8, ConcatAssociative
  <2>10. BytesOf(s \o part(k)) = BytesOf(s) \o BytesOf(part(k))
    BY <2>3, <2>6, <2>7, <2>9
  <2> QED BY <1>1, <2>1, <2>10
<1>4. \A k \in 0..n : right[k]
  <2> HIDE DEF n
  <2> QED BY <1>0, <1>1, <1>2, <1>3, LeastWrong
<1>5. part(n) = t
  BY SubSeqFull DEF Texts
<1>6. BytesOf(s \o part(n)) = BytesOf(s) \o BytesOf(part(n))
  BY <1>0, <1>1, <1>4
<1> QED BY <1>5, <1>6

LEMMA BytesOfOne ==
  ASSUME NEW char \in Characters
  PROVE  BytesOf(<<char>>) = Encoded(char)
<1>1. <<>> \in Texts /\ Append(<<>>, char) = <<char>>
  BY DEF Texts
<1>2. <<>> \o Encoded(char) = Encoded(char)
  BY EncodedFacts, ConcatEmptySeq
<1> QED BY <1>1, <1>2, BytesOfOneMore, BytesOfNothing

-----------------------------------------------------------------------------

\* A sequence is what is in front of a place and what is behind it.
LEMMA CutInTwo ==
  ASSUME NEW S, NEW s \in Seq(S), NEW k \in 0..Len(s)
  PROVE  /\ SubSeq(s, 1, k) \in Seq(S) /\ Len(SubSeq(s, 1, k)) = k
         /\ SubSeq(s, k + 1, Len(s)) \in Seq(S) /\ Len(SubSeq(s, k + 1, Len(s))) = Len(s) - k
         /\ s = SubSeq(s, 1, k) \o SubSeq(s, k + 1, Len(s))
<1>0. Len(s) \in Nat /\ \A i \in 1..Len(s) : s[i] \in S
  OBVIOUS
<1>1. SubSeq(s, 1, k) \in Seq(S) /\ Len(SubSeq(s, 1, k)) = k
  <2>1. \A i \in 1..k : s[i] \in S
    BY <1>0
  <2>2. Len(SubSeq(s, 1, k)) = IF 1 <= k THEN k - 1 + 1 ELSE 0
    BY <2>1, SubSeqProperties
  <2> QED BY <2>1, <2>2, SubSeqProperties
<1>2. SubSeq(s, k + 1, Len(s)) \in Seq(S) /\ Len(SubSeq(s, k + 1, Len(s))) = Len(s) - k
  <2> DEFINE n == Len(s)
  <2>1. n \in Int /\ k + 1 \in Int /\ \A i \in (k + 1)..n : s[i] \in S
    BY <1>0
  <2>2. Len(SubSeq(s, k + 1, n)) = IF k + 1 <= n THEN n - (k + 1) + 1 ELSE 0
    BY <2>1, SubSeqProperties
  <2>3. SubSeq(s, k + 1, n) \in Seq(S)
    BY <2>1, SubSeqProperties
  <2>4. (IF k + 1 <= n THEN n - (k + 1) + 1 ELSE 0) = n - k
    BY <1>0
  <2> QED BY <2>2, <2>3, <2>4
<1>3. SubSeq(s, 1, k) \o SubSeq(s, k + 1, Len(s)) = SubSeq(s, 1, Len(s))
  <2>1. /\ 1 \in 1..(Len(s) + 1) /\ k \in (1 - 1)..Len(s)
        /\ Len(s) \in k..Len(s)
    BY <1>0
  <2> QED BY <2>1, ConcatAdjacentSubSeq
<1> QED BY <1>1, <1>2, <1>3, SubSeqFull

\* The two parts of a concatenation.
LEMMA PartsOfBoth ==
  ASSUME NEW S, NEW s \in Seq(S), NEW t \in Seq(S)
  PROVE  /\ SubSeq(s \o t, 1, Len(s)) = s
         /\ SubSeq(s \o t, Len(s) + 1, Len(s \o t)) = t
<1> DEFINE u == s \o t
<1>1. /\ u \in Seq(S) /\ Len(u) = Len(s) + Len(t)
      /\ Len(s) \in Nat /\ Len(t) \in Nat
      /\ \A i \in 1..(Len(s) + Len(t)) : u[i] = IF i <= Len(s) THEN s[i] ELSE t[i - Len(s)]
  BY ConcatProperties
<1> HIDE DEF u
<1>2. Len(s) \in 0..Len(u) /\ \A i \in 1..Len(u) : u[i] \in S
  BY <1>1
<1>3. SubSeq(u, 1, Len(s)) = s
  <2> DEFINE v == SubSeq(u, 1, Len(s))
  <2>1. v \in Seq(S) /\ Len(v) = Len(s)
    BY <1>1, <1>2, CutInTwo
  <2>2. \A i \in 1..Len(s) : v[i] = s[i]
    <3>1. \A i \in 1..Len(s) : u[i] \in S
      BY <1>1, <1>2
    <3>2. \A i \in 1..(Len(s) - 1 + 1) : v[i] = u[1 + i - 1]
      BY <1>1, <3>1, SubSeqProperties
    <3> HIDE DEF v
    <3> QED BY <1>1, <3>2
  <2> HIDE DEF v
  <2> QED BY <2>1, <2>2, SeqEqual DEF v
<1>4. SubSeq(u, Len(s) + 1, Len(u)) = t
  <2> DEFINE v == SubSeq(u, Len(s) + 1, Len(u))
             m == Len(s)
             n == Len(u)
  <2>1. v \in Seq(S) /\ Len(v) = Len(t)
    <3>1. v \in Seq(S) /\ Len(v) = Len(u) - Len(s)
      BY <1>1, <1>2, CutInTwo
    <3> QED BY <1>1, <3>1
  <2>2. \A i \in 1..Len(t) : v[i] = t[i]
    <3>1. \A i \in (m + 1)..n : u[i] \in S
      BY <1>1, <1>2
    <3>2. \A i \in 1..(n - (m + 1) + 1) : v[i] = u[m + 1 + i - 1]
      BY <1>1, <3>1, SubSeqProperties
    <3> HIDE DEF v
    <3>3. ASSUME NEW i \in 1..Len(t) PROVE v[i] = t[i]
      <4>1. i \in 1..(n - (m + 1) + 1) /\ m + 1 + i - 1 = m + i
        BY <1>1
      <4>2. m + i \in 1..(Len(s) + Len(t)) /\ ~(m + i <= Len(s)) /\ m + i - Len(s) = i
        BY <1>1
      <4>3. u[m + i] = t[i]
        BY <1>1, <4>2
      <4> QED BY <3>2, <4>1, <4>3
    <3> QED BY <3>3
  <2> HIDE DEF v
  <2> QED BY <2>1, <2>2, SeqEqual DEF v
<1> QED BY <1>3, <1>4 DEF u

LEMMA OffsetFacts ==
  ASSUME NEW text \in Texts
  PROVE  /\ Offset(text, 0) = 0
         /\ \A k \in 0..Len(text) : Offset(text, k) \in Nat
         /\ \A k \in 1..Len(text) : Offset(text, k) = Offset(text, k - 1) + Width[text[k]]
<1>0. Len(text) \in Nat /\ \A i \in 1..Len(text) : text[i] \in Characters
  BY DEF Texts
<1>1. Offset(text, 0) = 0
  <2>1. SubSeq(text, 1, 0) = <<>>
    BY SubSeqEmpty
  <2>2. Len(BytesOf(<<>>)) = 0
    BY BytesOfNothing
  <2> QED BY <2>1, <2>2 DEF Offset
<1>2. ASSUME NEW k \in 0..Len(text) PROVE Offset(text, k) \in Nat
  <2>1. SubSeq(text, 1, k) \in Texts
    BY CutInTwo DEF Texts
  <2>2. BytesOf(SubSeq(text, 1, k)) \in Seq(Bytes)
    BY <2>1, BytesTyped
  <2> QED BY <2>2 DEF Offset
<1>3. ASSUME NEW k \in 1..Len(text)
      PROVE  Offset(text, k) = Offset(text, k - 1) + Width[text[k]]
  <2> DEFINE u == SubSeq(text, 1, k - 1)
             e == Encoded(text[k])
  <2>1. u \in Texts /\ SubSeq(text, 1, k) = Append(u, text[k])
    BY OneMore DEF Texts
  <2> HIDE DEF u
  <2>2. BytesOf(SubSeq(text, 1, k)) = BytesOf(u) \o e
    BY <1>0, <2>1, BytesOfOneMore
  <2>3. e \in Seq(Bytes) /\ Len(e) = Width[text[k]] /\ BytesOf(u) \in Seq(Bytes)
    BY <1>0, <2>1, EncodedFacts, BytesTyped
  <2> HIDE DEF e
  <2>4. Len(BytesOf(u) \o e) = Len(BytesOf(u)) + Len(e)
    BY <2>3, ConcatProperties
  <2> QED BY <2>2, <2>3, <2>4 DEF Offset, u
<1> QED BY <1>1, <1>2, <1>3

\* What is in front of a place depends on nothing behind it.
LEMMA OffsetOfPrefix ==
  ASSUME NEW s \in Texts, NEW t \in Texts
  PROVE  /\ Offset(s \o t, Len(s)) = Len(BytesOf(s))
         /\ \A k \in 0..Len(s) : Offset(s \o t, k) = Offset(s, k)
<1>1. SubSeq(s \o t, 1, Len(s)) = s
  BY PartsOfBoth DEF Texts
<1>2. ASSUME NEW k \in 0..Len(s) PROVE SubSeq(s \o t, 1, k) = SubSeq(s, 1, k)
  <2>0. Len(s) \in Nat
    BY DEF Texts
  <2>1. CASE k = 0
    BY <2>1, SubSeqEmpty
  <2>2. CASE k # 0
    <3>1. 1 \in 1..Len(s) /\ k \in 1..Len(s)
      BY <2>0, <2>2
    <3> QED BY <3>1, SubSeqOfConcat1 DEF Texts
  <2> QED BY <2>1, <2>2
<1> QED BY <1>1, <1>2 DEF Offset

LEMMA WidthsFacts ==
  ASSUME NEW text \in Texts
  PROVE  /\ Widths(text) \in Seq(Nat) /\ Len(Widths(text)) = Len(text)
         /\ \A i \in 1..Len(text) : Widths(text)[i] = Width[text[i]] /\ Width[text[i]] \in Nat
<1>0. /\ DOMAIN text = 1..Len(text) /\ Len(text) \in Nat
      /\ \A i \in 1..Len(text) : text[i] \in Characters
  BY DEF Texts
<1>1. \A i \in 1..Len(text) : Width[text[i]] \in Nat
  BY <1>0, EncodedFacts
<1> DEFINE n == Len(text)
<1>2. Widths(text) = [i \in 1..n |-> Width[text[i]]]
  BY <1>0 DEF Widths
<1> HIDE DEF n
<1>3. n \in Nat /\ \A i \in 1..n : Width[text[i]] \in Nat
  BY <1>0, <1>1 DEF n
<1>4. [i \in 1..n |-> Width[text[i]]] \in Seq(Nat) /\ Len([i \in 1..n |-> Width[text[i]]]) = n
  BY <1>3
<1>5. \A i \in 1..n : [j \in 1..n |-> Width[text[j]]][i] = Width[text[i]]
  OBVIOUS
<1> QED BY <1>1, <1>2, <1>4, <1>5 DEF n

LEMMA WidthsOfBoth ==
  ASSUME NEW s \in Texts, NEW t \in Texts
  PROVE  Widths(s \o t) = Widths(s) \o Widths(t)
<1> DEFINE u == s \o t
           v == Widths(s) \o Widths(t)
<1>1. /\ u \in Texts /\ Len(u) = Len(s) + Len(t)
      /\ Len(s) \in Nat /\ Len(t) \in Nat
      /\ \A i \in 1..(Len(s) + Len(t)) : u[i] = IF i <= Len(s) THEN s[i] ELSE t[i - Len(s)]
  BY ConcatProperties DEF Texts
<1> HIDE DEF u
<1>2. /\ Widths(s) \in Seq(Nat) /\ Len(Widths(s)) = Len(s)
      /\ Widths(t) \in Seq(Nat) /\ Len(Widths(t)) = Len(t)
      /\ Widths(u) \in Seq(Nat) /\ Len(Widths(u)) = Len(u)
  BY <1>1, WidthsFacts
<1>3. /\ v \in Seq(Nat) /\ Len(v) = Len(s) + Len(t)
      /\ \A i \in 1..(Len(s) + Len(t)) :
           v[i] = IF i <= Len(s) THEN Widths(s)[i] ELSE Widths(t)[i - Len(s)]
  <2> DEFINE ws == Widths(s)
             wt == Widths(t)
  <2>1. ws \in Seq(Nat) /\ wt \in Seq(Nat) /\ Len(ws) = Len(s) /\ Len(wt) = Len(t)
    BY <1>2
  <2> HIDE DEF ws, wt
  <2>2. /\ ws \o wt \in Seq(Nat) /\ Len(ws \o wt) = Len(ws) + Len(wt)
        /\ \A i \in 1..(Len(ws) + Len(wt)) :
             (ws \o wt)[i] = IF i <= Len(ws) THEN ws[i] ELSE wt[i - Len(ws)]
    BY <2>1, ConcatProperties
  <2>3. v = ws \o wt
    BY DEF ws, wt
  <2> HIDE DEF v
  <2>4. \A i \in 1..(Len(s) + Len(t)) :
          v[i] = IF i <= Len(s) THEN ws[i] ELSE wt[i - Len(s)]
    BY <2>1, <2>2, <2>3
  <2> QED BY <2>1, <2>2, <2>3, <2>4 DEF ws, wt
<1> HIDE DEF v
<1>4. ASSUME NEW i \in 1..Len(Widths(u)) PROVE Widths(u)[i] = v[i]
  <2>1. i \in 1..(Len(s) + Len(t)) /\ i \in 1..Len(u)
    BY <1>1, <1>2
  <2>2. Widths(u)[i] = Width[u[i]]
    BY <1>1, <2>1, WidthsFacts
  <2>3. CASE i <= Len(s)
    <3>1. i \in 1..Len(s)
      BY <1>1, <2>1, <2>3
    <3>2. Widths(s)[i] = Width[s[i]]
      BY <3>1, WidthsFacts
    <3> QED BY <1>1, <1>3, <2>1, <2>2, <2>3, <3>2
  <2>4. CASE ~(i <= Len(s))
    <3>1. i - Len(s) \in 1..Len(t)
      BY <1>1, <2>1, <2>4
    <3>2. Widths(t)[i - Len(s)] = Width[t[i - Len(s)]]
      BY <3>1, WidthsFacts
    <3> QED BY <1>1, <1>3, <2>1, <2>2, <2>4, <3>2
  <2> QED BY <2>3, <2>4
<1>5. Widths(u) = v
  <2>1. Len(Widths(u)) = Len(v)
    BY <1>1, <1>2, <1>3
  <2> QED BY <1>2, <1>3, <1>4, <2>1, SeqEqual
<1> QED BY <1>5 DEF u, v

-----------------------------------------------------------------------------

Sums == UNION {[0..n -> Nat] : n \in Nat}

BufferType ==
  [input : Seq(Bytes), sz : Seq(Nat), cursor : Nat, acc : Sums, accDirty : Nat]

\* The sums in front of the first invalid one are right.
CacheFits(b, text) ==
  /\ b.sz = Widths(text)
  /\ b.acc \in [0..Len(text) -> Nat]
  /\ b.acc[0] = 0
  /\ \A k \in 0..Len(text) : k < b.accDirty => b.acc[k] = Offset(text, k)

AllNarrow(text) == \A i \in 1..Len(text) : Width[text[i]] = 1

Holds(b, text) ==
  /\ b \in BufferType
  /\ b.input = BytesOf(text)
  /\ IF AsciiOnly THEN AllNarrow(text) ELSE CacheFits(b, text)

\* The inductive invariant.
BufferInv ==
  /\ before \in Texts /\ after \in Texts
  /\ Holds(buf, before \o after)
  /\ buf.cursor = Len(before)

\* A query makes the sums right up to where it needs them, and nothing else.
LEMMA EnsureFacts ==
  ASSUME NEW text \in Texts, NEW b \in BufferType, CacheFits(b, text),
         NEW i \in 0..Len(text)
  PROVE  LET e == EnsureAccTill(b, i)
         IN  /\ e \in BufferType /\ CacheFits(e, text)
             /\ e.input = b.input /\ e.cursor = b.cursor
             /\ \A k \in 0..i : e.acc[k] = Offset(text, k)
<1> DEFINE n == Len(text)
           Steps(h) == [k \in 0..i |-> IF k < b.accDirty \/ k = 0 THEN b.acc[k]
                                       ELSE h[k - 1] + b.sz[k]]
           sum == CHOOSE h : h = Steps(h)
           acc == [k \in DOMAIN b.acc |-> IF k <= i THEN sum[k] ELSE b.acc[k]]
           e == EnsureAccTill(b, i)
<1>0. n \in Nat /\ i \in Nat /\ i <= n
  BY DEF Texts
<1>1. /\ Offset(text, 0) = 0
      /\ \A k \in 0..n : Offset(text, k) \in Nat
      /\ \A k \in 1..n : Offset(text, k) = Offset(text, k - 1) + b.sz[k]
  <2>1. b.sz = Widths(text)
    BY DEF CacheFits
  <2>2. \A k \in 1..n : b.sz[k] = Width[text[k]]
    BY <2>1, WidthsFacts
  <2> QED BY <2>2, OffsetFacts
<1>2. \A k \in 0..i : k < b.accDirty \/ k = 0 => b.acc[k] = Offset(text, k)
  BY <1>0, <1>1 DEF CacheFits
<1>3. \E h : h = Steps(h)
  <2> DEFINE g == [k \in 0..i |-> Offset(text, k)]
  <2>1. ASSUME NEW k \in 0..i PROVE g[k] = Steps(g)[k]
    <3>1. CASE k < b.accDirty \/ k = 0
      BY <1>2, <3>1
    <3>2. CASE ~(k < b.accDirty \/ k = 0)
      <4>1. k - 1 \in 0..i /\ k \in 1..n
        BY <1>0, <3>2
      <4>2. g[k - 1] = Offset(text, k - 1)
        BY <4>1
      <4>3. Offset(text, k) = Offset(text, k - 1) + b.sz[k]
        BY <1>1, <4>1
      <4>4. Steps(g)[k] = g[k - 1] + b.sz[k]
        BY <3>2
      <4>5. g[k] = Offset(text, k)
        OBVIOUS
      <4> HIDE DEF g, Steps
      <4> QED BY <4>2, <4>3, <4>4, <4>5
    <3> QED BY <3>1, <3>2
  <2>2. g = Steps(g)
    BY <2>1
  <2> HIDE DEF g, Steps
  <2> QED BY <2>2
<1>4. sum = Steps(sum)
  <2> HIDE DEF Steps
  <2> QED BY <1>3
<1>5. e = IF b.accDirty > i THEN b ELSE [b EXCEPT !.accDirty = i + 1, !.acc = acc]
  BY DEF EnsureAccTill
<1> HIDE DEF sum, e
<1>6. \A k \in 0..i : sum[k] = IF k < b.accDirty \/ k = 0 THEN b.acc[k]
                               ELSE sum[k - 1] + b.sz[k]
  <2>1. \A k \in 0..i : sum[k] = Steps(sum)[k]
    <3> HIDE DEF Steps
    <3> QED BY <1>4
  <2> QED BY <2>1
<1>7. \A k \in 0..i : sum[k] = Offset(text, k)
  <2> DEFINE right == [k \in 0..i |-> sum[k] = Offset(text, k)]
  <2>1. right \in [0..i -> BOOLEAN] /\ \A k \in 0..i : right[k] <=> sum[k] = Offset(text, k)
    OBVIOUS
  <2> HIDE DEF right
  <2>2. right[0]
    <3>1. sum[0] = Offset(text, 0)
      BY <1>0, <1>2, <1>6
    <3> QED BY <1>0, <2>1, <3>1
  <2>3. ASSUME NEW k \in 1..i, right[k - 1] PROVE right[k]
    <3>1. k - 1 \in 0..i /\ k \in 0..i /\ k \in 1..n /\ k # 0
      BY <1>0
    <3>2. sum[k - 1] = Offset(text, k - 1)
      BY <2>1, <2>3, <3>1
    <3>3. sum[k] = Offset(text, k)
      BY <1>1, <1>2, <1>6, <3>1, <3>2
    <3> QED BY <2>1, <3>1, <3>3
  <2> QED BY <1>0, <2>1, <2>2, <2>3, LeastWrong
<1>8. acc \in [0..n -> Nat] /\ \A k \in 0..n : acc[k] = IF k <= i THEN sum[k] ELSE b.acc[k]
  <2>1. b.acc \in [0..n -> Nat] /\ DOMAIN b.acc = 0..n
    BY DEF CacheFits
  <2>2. ASSUME NEW k \in 0..n PROVE (IF k <= i THEN sum[k] ELSE b.acc[k]) \in Nat
    <3>1. k <= i => k \in 0..i
      OBVIOUS
    <3> QED BY <1>1, <1>7, <2>1, <3>1
  <2> QED BY <2>1, <2>2
<1> HIDE DEF acc
<1>9. CASE b.accDirty > i
  <2>1. e = b
    BY <1>5, <1>9
  <2>2. \A k \in 0..i : k < b.accDirty
    BY <1>9 DEF BufferType
  <2> QED BY <1>2, <2>1, <2>2 DEF e
<1>10. CASE ~(b.accDirty > i)
  <2>1. e = [b EXCEPT !.accDirty = i + 1, !.acc = acc]
    BY <1>5, <1>10
  <2>2. acc \in Sums
    BY <1>0, <1>8 DEF Sums
  <2>3. /\ e \in BufferType /\ e.sz = b.sz /\ e.input = b.input /\ e.cursor = b.cursor
        /\ e.acc = acc /\ e.accDirty = i + 1
    <3>1. i + 1 \in Nat
      BY <1>0
    <3>2. e.sz = b.sz /\ e.input = b.input /\ e.cursor = b.cursor
      BY <2>1 DEF BufferType
    <3>3. e.acc = acc /\ e.accDirty = i + 1
      BY <2>1 DEF BufferType
    <3>4. e \in BufferType
      BY <2>1, <2>2, <3>1 DEF BufferType
    <3> QED BY <3>2, <3>3, <3>4
  <2>4. \A k \in 0..i : acc[k] = Offset(text, k)
    BY <1>0, <1>7, <1>8
  <2>5. CacheFits(e, text)
    <3>1. acc[0] = 0
      BY <1>0, <1>1, <2>4
    <3>2. \A k \in 0..n : k < i + 1 => k \in 0..i
      BY <1>0
    <3> QED BY <1>8, <2>3, <2>4, <3>1, <3>2 DEF CacheFits
  <2> QED BY <2>3, <2>4, <2>5 DEF e
<1> QED BY <1>9, <1>10

\* In a text of narrow characters bytes and characters are the same.
LEMMA NarrowOffset ==
  ASSUME NEW text \in Texts, AllNarrow(text)
  PROVE  \A k \in 0..Len(text) : Offset(text, k) = k
<1> DEFINE n == Len(text)
           right == [k \in 0..n |-> Offset(text, k) = k]
<1>0. n \in Nat
  BY DEF Texts
<1>1. right \in [0..n -> BOOLEAN] /\ \A k \in 0..n : right[k] <=> Offset(text, k) = k
  OBVIOUS
<1> HIDE DEF right
<1>2. right[0]
  BY <1>0, <1>1, OffsetFacts
<1>3. ASSUME NEW k \in 1..n, right[k - 1] PROVE right[k]
  <2>1. k - 1 \in 0..n /\ k \in 0..n
    BY <1>0
  <2>2. Offset(text, k) = Offset(text, k - 1) + 1
    BY OffsetFacts DEF AllNarrow
  <2>3. Offset(text, k - 1) = k - 1
    BY <1>1, <1>3, <2>1
  <2> QED BY <1>1, <2>1, <2>2, <2>3
<1>4. \A k \in 0..n : right[k]
  <2> HIDE DEF n
  <2> QED BY <1>0, <1>1, <1>2, <1>3, LeastWrong
<1> QED BY <1>1, <1>4

LEMMA SizeIs ==
  ASSUME NEW text \in Texts, NEW b, Holds(b, text)
  PROVE  /\ Size(b) = Len(text)
         /\ Len(b.input) = Offset(text, Len(text))
<1>0. Len(text) \in 0..Len(text) /\ SubSeq(text, 1, Len(text)) = text
  BY SubSeqFull DEF Texts
<1>1. Len(b.input) = Offset(text, Len(text))
  BY <1>0 DEF Holds, Offset
<1>2. CASE AsciiOnly
  <2>1. Offset(text, Len(text)) = Len(text)
    BY <1>0, <1>2, NarrowOffset DEF Holds
  <2> QED BY <1>1, <1>2, <2>1 DEF Size
<1>3. CASE ~AsciiOnly
  BY <1>1, <1>3, WidthsFacts DEF Size, Holds, CacheFits
<1> QED BY <1>2, <1>3

\* The cursor in bytes is where the cursor in characters is.
LEMMA CursorFacts ==
  ASSUME NEW s \in Texts, NEW t \in Texts, NEW b, Holds(b, s \o t), b.cursor = Len(s)
  PROVE  /\ Holds(AtCursor(b), s \o t)
         /\ AtCursor(b).cursor = b.cursor
         /\ CursorByChar(b) = Len(BytesOf(s))
<1> DEFINE text == s \o t
<1>0. text \in Texts /\ Len(s) \in 0..Len(text)
  <2>1. text \in Texts /\ Len(text) = Len(s) + Len(t) /\ Len(s) \in Nat /\ Len(t) \in Nat
    BY ConcatProperties DEF Texts
  <2> QED BY <2>1
<1>1. Offset(text, Len(s)) = Len(BytesOf(s))
  BY OffsetOfPrefix
<1>2. Holds(b, text)
  OBVIOUS
<1> HIDE DEF text
<1>3. CASE AsciiOnly
  <2>1. Offset(text, Len(s)) = Len(s)
    BY <1>0, <1>2, <1>3, NarrowOffset DEF Holds
  <2> QED BY <1>1, <1>2, <1>3, <2>1 DEF AtCursor, CursorByChar, text
<1>4. CASE ~AsciiOnly /\ b.cursor = Size(b)
  <2>1. Len(b.input) = Offset(text, Len(text)) /\ Size(b) = Len(text)
    BY <1>0, <1>2, SizeIs
  <2>2. AtCursor(b) = b /\ CursorByChar(b) = Len(b.input)
    BY <1>4 DEF AtCursor, CursorByChar
  <2> QED BY <1>1, <1>2, <1>4, <2>1, <2>2 DEF text
<1>5. CASE ~AsciiOnly /\ b.cursor # Size(b)
  <2>1. b \in BufferType /\ CacheFits(b, text) /\ b.input = BytesOf(text)
    BY <1>2, <1>5 DEF Holds
  <2>2. AtCursor(b) = EnsureAccTill(b, Len(s)) /\ CursorByChar(b) = AtCursor(b).acc[Len(s)]
    BY <1>5 DEF AtCursor, CursorByChar
  <2> DEFINE e == EnsureAccTill(b, Len(s))
  <2>3. /\ e \in BufferType /\ CacheFits(e, text)
        /\ e.input = b.input /\ e.cursor = b.cursor
        /\ \A k \in 0..Len(s) : e.acc[k] = Offset(text, k)
    BY <1>0, <2>1, EnsureFacts
  <2> HIDE DEF e
  <2>4. Len(s) \in 0..Len(s)
    BY <1>0
  <2>5. Holds(e, text)
    BY <1>5, <2>1, <2>3 DEF Holds
  <2> QED BY <1>1, <2>2, <2>3, <2>4, <2>5 DEF e, text
<1> QED BY <1>3, <1>4, <1>5

-----------------------------------------------------------------------------

\* Insertion between two parts, and what is between two parts.
LEMMA InsertedFacts ==
  ASSUME NEW S, NEW s \in Seq(S), NEW t \in Seq(S), NEW new \in Seq(S)
  PROVE  Inserted(s \o t, Len(s), new) = (s \o new) \o t
  BY PartsOfBoth DEF Inserted

LEMMA ThreeParts ==
  ASSUME NEW S, NEW a \in Seq(S), NEW m \in Seq(S), NEW c \in Seq(S)
  PROVE  /\ Without((a \o m) \o c, Len(a), Len(a \o m)) = a \o c
         /\ SubSeq((a \o m) \o c, Len(a) + 1, Len(a \o m)) = m
<1> DEFINE am == a \o m
           mc == m \o c
           s == am \o c
<1>1. /\ am \in Seq(S) /\ mc \in Seq(S) /\ s \in Seq(S) /\ s = a \o mc
      /\ Len(am) = Len(a) + Len(m) /\ Len(s) = Len(am) + Len(c)
      /\ Len(a) \in Nat /\ Len(m) \in Nat /\ Len(c) \in Nat
  BY ConcatProperties, ConcatAssociative
<1>2. SubSeq(s, 1, Len(a)) = a
  BY <1>1, PartsOfBoth
<1>3. SubSeq(s, Len(am) + 1, Len(s)) = c
  BY <1>1, PartsOfBoth
<1>4. SubSeq(s, Len(a) + 1, Len(am)) = m
  <2>1. SubSeq(s, 1, Len(am)) = am
    BY <1>1, PartsOfBoth
  <2>2. SubSeq(am, Len(a) + 1, Len(am)) = m
    BY <1>1, PartsOfBoth
  <2>3. CASE Len(m) = 0
    <3>1. m = <<>> /\ Len(am) < Len(a) + 1
      BY <1>1, <2>3, EmptySeq
    <3> HIDE DEF s, am
    <3>2. SubSeq(s, Len(a) + 1, Len(am)) = <<>>
      BY <1>1, <3>1, SubSeqEmpty
    <3> QED BY <3>1, <3>2
  <2>4. CASE Len(m) # 0
    <3> HIDE DEF s, am
    <3>1. Len(a) + 1 \in 1..Len(am) /\ Len(am) \in 1..Len(am)
      BY <1>1, <2>4
    <3>2. SubSeq(am \o c, Len(a) + 1, Len(am)) = SubSeq(am, Len(a) + 1, Len(am))
      BY <1>1, <3>1, SubSeqOfConcat1
    <3> QED BY <2>2, <3>2 DEF s
  <2> QED BY <2>3, <2>4
<1> QED BY <1>2, <1>3, <1>4 DEF Without

LEMMA NarrowBoth ==
  ASSUME NEW s \in Texts, NEW t \in Texts
  PROVE  AllNarrow(s \o t) <=> AllNarrow(s) /\ AllNarrow(t)
<1> DEFINE u == s \o t
<1>1. /\ Len(u) = Len(s) + Len(t) /\ Len(s) \in Nat /\ Len(t) \in Nat
      /\ \A i \in 1..(Len(s) + Len(t)) : u[i] = IF i <= Len(s) THEN s[i] ELSE t[i - Len(s)]
  BY ConcatProperties DEF Texts
<1> HIDE DEF u
<1>2. ASSUME AllNarrow(u) PROVE AllNarrow(s) /\ AllNarrow(t)
  <2>1. \A i \in 1..Len(s) : i \in 1..Len(u) /\ u[i] = s[i]
    BY <1>1
  <2>2. ASSUME NEW i \in 1..Len(t)
        PROVE  i + Len(s) \in 1..Len(u) /\ u[i + Len(s)] = t[i]
    <3>1. i + Len(s) \in 1..(Len(s) + Len(t)) /\ ~(i + Len(s) <= Len(s))
          /\ (i + Len(s)) - Len(s) = i
      BY <1>1
    <3> QED BY <1>1, <3>1
  <2> QED BY <1>2, <2>1, <2>2 DEF AllNarrow
<1>3. ASSUME AllNarrow(s), AllNarrow(t) PROVE AllNarrow(u)
  <2> SUFFICES ASSUME NEW i \in 1..Len(u) PROVE Width[u[i]] = 1
    BY DEF AllNarrow
  <2>1. i <= Len(s) => i \in 1..Len(s) /\ u[i] = s[i]
    BY <1>1
  <2>2. ~(i <= Len(s)) => i - Len(s) \in 1..Len(t) /\ u[i] = t[i - Len(s)]
    BY <1>1
  <2> QED BY <1>3, <2>1, <2>2 DEF AllNarrow
<1> QED BY <1>2, <1>3 DEF u

\* acc_ keeps what it has as far as it goes.
LEMMA ResizedFacts ==
  ASSUME NEW b \in BufferType
  PROVE  /\ Resized(b) \in BufferType
         /\ Resized(b).input = b.input /\ Resized(b).cursor = b.cursor
         /\ Resized(b).sz = b.sz /\ Resized(b).accDirty = b.accDirty
         /\ Resized(b).acc \in [0..Len(b.sz) -> Nat]
         /\ \A k \in 0..Len(b.sz) : k \in DOMAIN b.acc => Resized(b).acc[k] = b.acc[k]
<1> DEFINE n == Len(b.sz)
           acc == [k \in 0..n |-> IF k \in DOMAIN b.acc THEN b.acc[k] ELSE 0]
<1>1. n \in Nat /\ b.acc \in Sums
  BY DEF BufferType
<1>2. PICK m \in Nat : b.acc \in [0..m -> Nat]
  BY <1>1 DEF Sums
<1>3. acc \in [0..n -> Nat] /\ \A k \in 0..n : k \in DOMAIN b.acc => acc[k] = b.acc[k]
  BY <1>2
<1>4. Resized(b) = [b EXCEPT !.acc = acc]
  BY DEF Resized
<1> HIDE DEF acc, n
<1>5. acc \in Sums
  BY <1>1, <1>3 DEF Sums
<1>6. Resized(b).acc = acc
  BY <1>4 DEF BufferType
<1>7. /\ Resized(b).input = b.input /\ Resized(b).cursor = b.cursor
      /\ Resized(b).sz = b.sz /\ Resized(b).accDirty = b.accDirty
  BY <1>4 DEF BufferType
<1>8. Resized(b) \in BufferType
  BY <1>4, <1>5 DEF BufferType
<1> QED BY <1>3, <1>6, <1>7, <1>8 DEF n

\* The sums are right for a text if they are in front of the first invalid one.
LEMMA CacheKept ==
  ASSUME NEW text \in Texts, NEW b \in BufferType, NEW n \in Nat,
         b.sz = Widths(text), b.acc \in [0..n -> Nat], b.acc[0] = 0,
         \A k \in 0..Len(text) : k < b.accDirty => k <= n /\ b.acc[k] = Offset(text, k)
  PROVE  CacheFits(Resized(b), text)
<1> DEFINE r == Resized(b)
<1>0. Len(text) \in Nat /\ Len(b.sz) = Len(text)
  BY WidthsFacts DEF Texts
<1>1. /\ r \in BufferType /\ r.sz = b.sz /\ r.accDirty = b.accDirty
      /\ r.acc \in [0..Len(text) -> Nat]
      /\ \A k \in 0..Len(text) : k \in DOMAIN b.acc => r.acc[k] = b.acc[k]
  BY <1>0, ResizedFacts
<1> HIDE DEF r
<1>2. DOMAIN b.acc = 0..n
  OBVIOUS
<1>3. r.acc[0] = 0
  BY <1>0, <1>1, <1>2
<1>4. \A k \in 0..Len(text) : k < r.accDirty => r.acc[k] = Offset(text, k)
  BY <1>0, <1>1, <1>2
<1>5. CacheFits(r, text)
  BY <1>1, <1>3, <1>4 DEF CacheFits
<1> QED BY <1>5 DEF r

-----------------------------------------------------------------------------

\* A text in three parts, its bytes and its widths.
LEMMA ThreeTexts ==
  ASSUME NEW a \in Texts, NEW m \in Texts, NEW c \in Texts
  PROVE  BytesOf((a \o m) \o c) = (BytesOf(a) \o BytesOf(m)) \o BytesOf(c)
<1> DEFINE am == a \o m
<1>1. am \in Texts /\ BytesOf(am) = BytesOf(a) \o BytesOf(m)
  BY ConcatProperties, BytesOfBoth DEF Texts
<1> HIDE DEF am
<1>2. BytesOf(am \o c) = BytesOf(am) \o BytesOf(c)
  BY <1>1, BytesOfBoth
<1> QED BY <1>1, <1>2 DEF am

LEMMA ThreeWidths ==
  ASSUME NEW a \in Texts, NEW m \in Texts, NEW c \in Texts
  PROVE  Widths((a \o m) \o c) = (Widths(a) \o Widths(m)) \o Widths(c)
<1> DEFINE am == a \o m
<1>1. am \in Texts /\ Widths(am) = Widths(a) \o Widths(m)
  BY ConcatProperties, WidthsOfBoth DEF Texts
<1> HIDE DEF am
<1>2. Widths(am \o c) = Widths(am) \o Widths(c)
  BY <1>1, WidthsOfBoth
<1> QED BY <1>1, <1>2 DEF am

LEMMA TypedFacts ==
  ASSUME NEW s \in Texts, NEW t \in Texts, NEW new \in Texts,
         NEW b, Holds(b, s \o t), b.cursor = Len(s), AsciiOnly => AllNarrow(new)
  PROVE  /\ Holds(TypedInto(b, new), (s \o new) \o t)
         /\ TypedInto(b, new).cursor = Len(s \o new)
<1> DEFINE old == s \o t
           text == (s \o new) \o t
           seen == AtCursor(b)
           dirty == IF b.cursor > 0 THEN b.cursor - 1 ELSE 0
           typed == [seen EXCEPT !.input = Inserted(@, CursorByChar(b), BytesOf(new)),
                               !.cursor = @ + Len(new)]
           sz == Inserted(typed.sz, b.cursor, Widths(new))
           limit == IF typed.accDirty > dirty THEN dirty ELSE typed.accDirty
           wide == [typed EXCEPT !.sz = sz, !.accDirty = limit]
<1>1. /\ old \in Texts /\ s \o new \in Texts /\ text \in Texts
      /\ Len(old) = Len(s) + Len(t) /\ Len(s \o new) = Len(s) + Len(new)
      /\ Len(text) = Len(s) + Len(new) + Len(t)
      /\ Len(s) \in Nat /\ Len(t) \in Nat /\ Len(new) \in Nat
  BY ConcatProperties DEF Texts
<1>2. Holds(seen, old) /\ seen.cursor = Len(s) /\ CursorByChar(b) = Len(BytesOf(s))
  BY CursorFacts
<1>3. TypedInto(b, new) = IF AsciiOnly THEN typed ELSE Resized(wide)
  BY DEF TypedInto, Widths
<1>4. Inserted(BytesOf(old), Len(BytesOf(s)), BytesOf(new)) = BytesOf(text)
  <2>1. BytesOf(s) \in Seq(Bytes) /\ BytesOf(t) \in Seq(Bytes) /\ BytesOf(new) \in Seq(Bytes)
    BY BytesTyped
  <2>2. BytesOf(old) = BytesOf(s) \o BytesOf(t)
    BY BytesOfBoth
  <2>3. BytesOf(text) = (BytesOf(s) \o BytesOf(new)) \o BytesOf(t)
    BY ThreeTexts
  <2> DEFINE bs == BytesOf(s)
             bt == BytesOf(t)
             bn == BytesOf(new)
  <2>4. bs \in Seq(Bytes) /\ bt \in Seq(Bytes) /\ bn \in Seq(Bytes)
    BY <2>1
  <2> HIDE DEF text, old, bs, bt, bn
  <2>5. Inserted(bs \o bt, Len(bs), bn) = (bs \o bn) \o bt
    BY ONLY <2>4, InsertedFacts
  <2> QED BY <2>2, <2>3, <2>5 DEF bs, bt, bn
<1>5. /\ typed \in BufferType /\ typed.input = BytesOf(text) /\ typed.cursor = Len(s \o new)
      /\ typed.sz = seen.sz /\ typed.acc = seen.acc /\ typed.accDirty = seen.accDirty
  <2> DEFINE input == Inserted(seen.input, CursorByChar(b), BytesOf(new))
             cursor == seen.cursor + Len(new)
  <2>1. input = BytesOf(text) /\ input \in Seq(Bytes)
    BY <1>1, <1>2, <1>4, BytesTyped DEF Holds
  <2>2. cursor = Len(s \o new) /\ cursor \in Nat
    BY <1>1, <1>2
  <2>3. typed = [seen EXCEPT !.input = input, !.cursor = cursor]
    OBVIOUS
  <2>4. seen \in BufferType
    BY <1>2 DEF Holds
  <2> HIDE DEF seen, input, cursor, typed
  <2>5. typed.input = input /\ typed.cursor = cursor
    BY <2>3, <2>4 DEF BufferType
  <2>6. typed.sz = seen.sz /\ typed.acc = seen.acc /\ typed.accDirty = seen.accDirty
    BY <2>3, <2>4 DEF BufferType
  <2>7. typed \in BufferType
    BY <2>1, <2>2, <2>3, <2>4 DEF BufferType
  <2> QED BY <2>1, <2>2, <2>5, <2>6, <2>7
<1> HIDE DEF typed, seen
<1>6. CASE AsciiOnly
  <2>1. AllNarrow(old)
    BY <1>2, <1>6 DEF Holds
  <2>2. AllNarrow(s) /\ AllNarrow(t)
    BY <2>1, NarrowBoth
  <2>3. AllNarrow(text)
    BY <1>1, <1>6, <2>2, NarrowBoth
  <2>4. TypedInto(b, new) = typed
    BY <1>3, <1>6
  <2> HIDE DEF text
  <2> QED BY <1>5, <1>6, <2>3, <2>4 DEF Holds, text
<1>7. CASE ~AsciiOnly
  <2>1. seen \in BufferType /\ CacheFits(seen, old)
    BY <1>2, <1>7 DEF Holds
  <2>2. sz = Widths(text)
    <3>1. typed.sz = Widths(s) \o Widths(t) /\ b.cursor = Len(Widths(s))
      BY <1>5, <2>1, WidthsOfBoth, WidthsFacts DEF CacheFits
    <3>2. Widths(text) = (Widths(s) \o Widths(new)) \o Widths(t)
      BY ThreeWidths
    <3>3. Widths(s) \in Seq(Nat) /\ Widths(t) \in Seq(Nat) /\ Widths(new) \in Seq(Nat)
      BY WidthsFacts
    <3> DEFINE ws == Widths(s)
               wt == Widths(t)
               wn == Widths(new)
    <3>4. ws \in Seq(Nat) /\ wt \in Seq(Nat) /\ wn \in Seq(Nat)
      BY <3>3
    <3> HIDE DEF text, ws, wt, wn
    <3>5. Inserted(ws \o wt, Len(ws), wn) = (ws \o wn) \o wt
      BY ONLY <3>4, InsertedFacts
    <3> QED BY <3>1, <3>2, <3>5 DEF ws, wt, wn
  <2>3. sz \in Seq(Nat)
    BY <1>1, <2>2, WidthsFacts
  <2>4. dirty \in Nat /\ (dirty < Len(s) \/ dirty = 0)
    BY <1>1
  <2>5. limit \in Nat /\ limit <= dirty /\ limit <= seen.accDirty
    BY <1>5, <2>1, <2>4 DEF BufferType
  <2> HIDE DEF sz, dirty, limit
  <2>6. /\ wide.input = typed.input /\ wide.cursor = typed.cursor
        /\ wide.acc = typed.acc /\ wide.sz = sz /\ wide.accDirty = limit
    BY <1>5 DEF BufferType
  <2>7. wide \in BufferType
    BY <1>5, <2>3, <2>5 DEF BufferType
  <2> HIDE DEF wide
  <2>8. ASSUME NEW k \in 0..Len(text), k < limit
        PROVE  k <= Len(old) /\ seen.acc[k] = Offset(text, k)
    <3>1. k \in 0..Len(s) /\ k \in 0..Len(old) /\ k < seen.accDirty
      BY <1>1, <2>1, <2>4, <2>5, <2>8 DEF BufferType
    <3>2. seen.acc[k] = Offset(old, k) /\ Offset(old, k) = Offset(s, k)
      BY <2>1, <3>1, OffsetOfPrefix DEF CacheFits
    <3>3. Offset(text, k) = Offset(s, k)
      <4>1. k \in 0..Len(s \o new)
        BY <1>1, <3>1
      <4>2. Offset(text, k) = Offset(s \o new, k)
        BY <1>1, <4>1, OffsetOfPrefix
      <4>3. Offset(s \o new, k) = Offset(s, k)
        BY <3>1, OffsetOfPrefix
      <4> QED BY <4>2, <4>3
    <3> QED BY <3>1, <3>2, <3>3
  <2>9. seen.acc \in [0..Len(old) -> Nat] /\ seen.acc[0] = 0 /\ Len(old) \in Nat
    BY <1>1, <2>1 DEF CacheFits
  <2>10. CacheFits(Resized(wide), text)
    <3> HIDE DEF old, text
    <3> QED BY <1>1, <1>5, <2>2, <2>6, <2>7, <2>8, <2>9, CacheKept
  <2>11. /\ Resized(wide) \in BufferType
         /\ Resized(wide).input = typed.input /\ Resized(wide).cursor = typed.cursor
    BY <2>6, <2>7, ResizedFacts
  <2>12. TypedInto(b, new) = Resized(wide)
    BY <1>3, <1>7
  <2> HIDE DEF text
  <2> QED BY <1>5, <1>7, <2>10, <2>11, <2>12 DEF Holds, text
<1> QED BY <1>6, <1>7

-----------------------------------------------------------------------------

LEMMA CutOut ==
  ASSUME NEW text \in Texts, NEW from \in 0..Len(text), NEW to \in from..Len(text)
  PROVE  LET rest == Without(text, from, to)
         IN  /\ rest \in Texts
             /\ Len(rest) = Len(text) - (to - from)
             /\ Without(BytesOf(text), Offset(text, from), Offset(text, to)) = BytesOf(rest)
             /\ Without(Widths(text), from, to) = Widths(rest)
             /\ AllNarrow(text) => AllNarrow(rest)
             /\ \A k \in 0..from : Offset(rest, k) = Offset(text, k)
<1> DEFINE a == SubSeq(text, 1, from)
           m == SubSeq(text, from + 1, to)
           c == SubSeq(text, to + 1, Len(text))
           rest == Without(text, from, to)
<1>0. Len(text) \in Nat /\ from \in Nat /\ to \in Nat /\ to \in 0..Len(text) /\ from <= to
  BY DEF Texts
<1>1. /\ a \in Texts /\ Len(a) = from
      /\ c \in Texts /\ Len(c) = Len(text) - to
      /\ text = SubSeq(text, 1, to) \o c
      /\ SubSeq(text, 1, to) \in Texts /\ Len(SubSeq(text, 1, to)) = to
  <2>1. a \in Texts /\ Len(a) = from
    BY CutInTwo DEF Texts
  <2>2. /\ SubSeq(text, 1, to) \in Texts /\ Len(SubSeq(text, 1, to)) = to
        /\ text = SubSeq(text, 1, to) \o c
    BY <1>0, CutInTwo DEF Texts
  <2>3. c \in Texts /\ Len(c) = Len(text) - to
    BY <1>0, CutInTwo DEF Texts
  <2> QED BY <2>1, <2>2, <2>3
<1>2. m \in Texts /\ a \o m = SubSeq(text, 1, to)
  <2> DEFINE u == SubSeq(text, 1, to)
  <2>1. \A i \in (from + 1)..to : text[i] \in Characters
    BY <1>0 DEF Texts
  <2>2. m \in Texts
    BY <1>0, <2>1, SubSeqProperties DEF Texts
  <2>3. /\ 1 \in 1..(Len(text) + 1) /\ from \in (1 - 1)..Len(text)
        /\ to \in from..Len(text)
    BY <1>0
  <2>4. a \o m = u
    BY <2>3, ConcatAdjacentSubSeq DEF Texts
  <2> QED BY <2>2, <2>4
<1>3. rest = a \o c
  BY DEF Without
<1>4. Offset(text, from) = Len(BytesOf(a)) /\ Offset(text, to) = Len(BytesOf(a \o m))
  BY <1>2 DEF Offset
<1>5. Len(a \o m) = to
  BY <1>1, <1>2
<1>6. text = (a \o m) \o c
  BY <1>1, <1>2
<1> HIDE DEF a, m, c, rest
<1>7. rest \in Texts /\ Len(rest) = Len(text) - (to - from)
  <2>1. a \o c \in Texts /\ Len(a \o c) = Len(a) + Len(c)
    BY <1>1, ConcatProperties DEF Texts
  <2> QED BY <1>0, <1>1, <1>3, <2>1
<1>8. Without(BytesOf(text), Offset(text, from), Offset(text, to)) = BytesOf(rest)
  <2> DEFINE ba == BytesOf(a)
             bm == BytesOf(m)
             bc == BytesOf(c)
  <2>1. ba \in Seq(Bytes) /\ bm \in Seq(Bytes) /\ bc \in Seq(Bytes)
    BY <1>1, <1>2, BytesTyped
  <2>2. BytesOf(text) = (ba \o bm) \o bc /\ BytesOf(a \o m) = ba \o bm
    <3>1. a \in Texts /\ m \in Texts /\ c \in Texts
      BY <1>1, <1>2
    <3>2. BytesOf((a \o m) \o c) = (ba \o bm) \o bc
      BY ONLY <3>1, ThreeTexts
    <3>3. BytesOf(a \o m) = ba \o bm
      BY ONLY <3>1, BytesOfBoth
    <3> QED BY <1>6, <3>2, <3>3
  <2>3. BytesOf(rest) = ba \o bc
    BY <1>1, <1>3, BytesOfBoth
  <2>4. Offset(text, from) = Len(ba) /\ Offset(text, to) = Len(ba \o bm)
    BY <1>4, <2>2
  <2> HIDE DEF ba, bm, bc
  <2>5. Without((ba \o bm) \o bc, Len(ba), Len(ba \o bm)) = ba \o bc
    BY ONLY <2>1, ThreeParts
  <2> QED BY <2>2, <2>3, <2>4, <2>5
<1>9. Without(Widths(text), from, to) = Widths(rest)
  <2> DEFINE wa == Widths(a)
             wm == Widths(m)
             wc == Widths(c)
  <2>1. wa \in Seq(Nat) /\ wm \in Seq(Nat) /\ wc \in Seq(Nat)
    BY <1>1, <1>2, WidthsFacts
  <2>2. Widths(text) = (wa \o wm) \o wc /\ Widths(a \o m) = wa \o wm
    <3>1. a \in Texts /\ m \in Texts /\ c \in Texts
      BY <1>1, <1>2
    <3>2. Widths((a \o m) \o c) = (wa \o wm) \o wc
      BY ONLY <3>1, ThreeWidths
    <3>3. Widths(a \o m) = wa \o wm
      BY ONLY <3>1, WidthsOfBoth
    <3> QED BY <1>6, <3>2, <3>3
  <2>3. Widths(rest) = wa \o wc
    BY <1>1, <1>3, WidthsOfBoth
  <2>4. from = Len(wa) /\ to = Len(wa \o wm)
    <3>1. a \o m \in Texts
      BY <1>1, <1>2
    <3>2. Len(Widths(a)) = Len(a) /\ Len(Widths(a \o m)) = Len(a \o m)
      BY <1>1, <3>1, WidthsFacts
    <3> QED BY <1>1, <1>5, <2>2, <3>2
  <2> HIDE DEF wa, wm, wc
  <2>5. Without((wa \o wm) \o wc, Len(wa), Len(wa \o wm)) = wa \o wc
    BY ONLY <2>1, ThreeParts
  <2> QED BY <2>2, <2>3, <2>4, <2>5
<1>10. AllNarrow(text) => AllNarrow(rest)
  <2>1. a \o m \in Texts
    BY <1>1, <1>2
  <2>2. AllNarrow(text) => AllNarrow(a) /\ AllNarrow(c)
    BY <1>1, <1>2, <1>6, <2>1, NarrowBoth
  <2> QED BY <1>1, <1>3, <2>2, NarrowBoth
<1>11. ASSUME NEW k \in 0..from PROVE Offset(rest, k) = Offset(text, k)
  <2>1. Offset(rest, k) = Offset(a, k)
    BY <1>1, <1>3, OffsetOfPrefix
  <2>2. k \in 0..Len(a \o m) /\ a \o m \in Texts
    BY <1>0, <1>1, <1>2, <1>5
  <2>3. Offset(text, k) = Offset(a \o m, k)
    BY <1>1, <1>6, <2>2, OffsetOfPrefix
  <2>4. Offset(a \o m, k) = Offset(a, k)
    BY <1>1, <1>2, OffsetOfPrefix
  <2> QED BY <2>1, <2>3, <2>4
<1> QED BY <1>7, <1>8, <1>9, <1>10, <1>11 DEF rest

LEMMA ErasedFacts ==
  ASSUME NEW text \in Texts, NEW b, Holds(b, text),
         NEW from \in 0..Len(text), NEW to \in from..Len(text)
  PROVE  /\ Holds(Erased(b, from, to), Without(text, from, to))
         /\ Erased(b, from, to).cursor = CursorAfter(b.cursor, from, to)
<1> DEFINE rest == Without(text, from, to)
           summed == IF AsciiOnly THEN b ELSE EnsureAccTill(b, to)
           first == IF AsciiOnly THEN from ELSE summed.acc[from]
           last == IF AsciiOnly THEN to ELSE summed.acc[to]
           cut == [summed EXCEPT !.input = Without(@, first, last),
                                !.cursor = CursorAfter(@, from, to)]
           sz == Without(cut.sz, from, to)
           wide == [cut EXCEPT !.sz = sz, !.accDirty = from]
<1>0. /\ Len(text) \in Nat /\ from \in Nat /\ to \in Nat /\ from <= to
      /\ to \in 0..Len(text) /\ from \in 0..to
  BY DEF Texts
<1>1. Erased(b, from, to) = IF AsciiOnly THEN cut ELSE Resized(wide)
  BY DEF Erased, Cut
<1>2. /\ rest \in Texts /\ Len(rest) = Len(text) - (to - from)
      /\ Without(BytesOf(text), Offset(text, from), Offset(text, to)) = BytesOf(rest)
      /\ Without(Widths(text), from, to) = Widths(rest)
      /\ AllNarrow(text) => AllNarrow(rest)
      /\ \A k \in 0..from : Offset(rest, k) = Offset(text, k)
  BY CutOut
<1>3. ~AsciiOnly => /\ summed \in BufferType /\ CacheFits(summed, text)
                    /\ summed.input = b.input /\ summed.cursor = b.cursor
                    /\ first = Offset(text, from) /\ last = Offset(text, to)
                    /\ \A k \in 0..to : summed.acc[k] = Offset(text, k)
  <2> SUFFICES ASSUME ~AsciiOnly
               PROVE  /\ summed \in BufferType /\ CacheFits(summed, text)
                      /\ summed.input = b.input /\ summed.cursor = b.cursor
                      /\ \A k \in 0..to : summed.acc[k] = Offset(text, k)
                      /\ first = Offset(text, from) /\ last = Offset(text, to)
    OBVIOUS
  <2>1. b \in BufferType /\ CacheFits(b, text)
    BY DEF Holds
  <2> DEFINE e == EnsureAccTill(b, to)
  <2>2. /\ e \in BufferType /\ CacheFits(e, text)
        /\ e.input = b.input /\ e.cursor = b.cursor
        /\ \A k \in 0..to : e.acc[k] = Offset(text, k)
    BY <1>0, <2>1, EnsureFacts
  <2>3. summed = e /\ first = e.acc[from] /\ last = e.acc[to]
    OBVIOUS
  <2> HIDE DEF e, summed, first, last
  <2>4. to \in 0..to
    BY <1>0
  <2> QED BY <1>0, <2>2, <2>3, <2>4
<1>4. AsciiOnly => summed = b /\ first = Offset(text, from) /\ last = Offset(text, to)
  <2> SUFFICES ASSUME AsciiOnly
               PROVE  from = Offset(text, from) /\ to = Offset(text, to)
    OBVIOUS
  <2>1. AllNarrow(text)
    BY DEF Holds
  <2> QED BY <1>0, <2>1, NarrowOffset
<1>5. /\ summed \in BufferType /\ summed.input = BytesOf(text) /\ summed.cursor = b.cursor
      /\ first = Offset(text, from) /\ last = Offset(text, to)
  <2>1. b \in BufferType /\ b.input = BytesOf(text)
    BY DEF Holds
  <2> HIDE DEF summed, first, last
  <2> QED BY <1>3, <1>4, <2>1
<1> HIDE DEF summed, first, last, rest
<1>6. /\ cut \in BufferType /\ cut.input = BytesOf(rest)
      /\ cut.cursor = CursorAfter(b.cursor, from, to)
      /\ cut.sz = summed.sz /\ cut.acc = summed.acc
  <2> DEFINE input == Without(summed.input, first, last)
             cursor == CursorAfter(summed.cursor, from, to)
  <2>1. input = BytesOf(rest) /\ input \in Seq(Bytes)
    BY <1>2, <1>5, BytesTyped DEF rest
  <2>2. cursor = CursorAfter(b.cursor, from, to) /\ cursor \in Nat
    <3>1. summed.cursor \in Nat
      BY <1>5 DEF BufferType
    <3> QED BY <1>0, <1>5, <3>1 DEF CursorAfter
  <2>3. cut = [summed EXCEPT !.input = input, !.cursor = cursor]
    OBVIOUS
  <2>4. summed \in BufferType
    BY <1>5
  <2> HIDE DEF input, cursor, cut
  <2>5. cut.input = input /\ cut.cursor = cursor
    BY <2>3, <2>4 DEF BufferType
  <2>6. cut.sz = summed.sz /\ cut.acc = summed.acc
    BY <2>3, <2>4 DEF BufferType
  <2>7. cut \in BufferType
    BY <2>1, <2>2, <2>3, <2>4 DEF BufferType
  <2> QED BY <2>1, <2>2, <2>5, <2>6, <2>7
<1> HIDE DEF cut
<1>7. CASE AsciiOnly
  <2>1. AllNarrow(rest)
    BY <1>2, <1>7 DEF Holds
  <2>2. Erased(b, from, to) = cut
    BY <1>1, <1>7
  <2> QED BY <1>6, <1>7, <2>1, <2>2 DEF Holds, rest
<1>8. CASE ~AsciiOnly
  <2>1. CacheFits(summed, text)
    BY <1>3, <1>8
  <2>2. sz = Widths(rest) /\ sz \in Seq(Nat)
    BY <1>2, <1>6, <2>1, WidthsFacts DEF CacheFits, rest
  <2> HIDE DEF sz
  <2>3. /\ wide.input = cut.input /\ wide.cursor = cut.cursor
        /\ wide.acc = cut.acc /\ wide.sz = sz /\ wide.accDirty = from
    BY <1>6 DEF BufferType
  <2>4. wide \in BufferType
    BY <1>0, <1>6, <2>2 DEF BufferType
  <2> HIDE DEF wide
  <2>5. ASSUME NEW k \in 0..Len(rest), k < from
        PROVE  k <= Len(text) /\ summed.acc[k] = Offset(rest, k)
    <3>1. k \in 0..to /\ k \in 0..from
      BY <1>0, <2>5
    <3> QED BY <1>0, <1>2, <1>3, <1>8, <3>1 DEF rest
  <2>6. summed.acc \in [0..Len(text) -> Nat] /\ summed.acc[0] = 0
    BY <2>1 DEF CacheFits
  <2>7. CacheFits(Resized(wide), rest)
    BY <1>0, <1>2, <1>6, <2>2, <2>3, <2>4, <2>5, <2>6, CacheKept DEF rest
  <2>8. /\ Resized(wide) \in BufferType
        /\ Resized(wide).input = cut.input /\ Resized(wide).cursor = cut.cursor
    BY <2>3, <2>4, ResizedFacts
  <2>9. Erased(b, from, to) = Resized(wide)
    BY <1>1, <1>8
  <2> QED BY <1>6, <1>8, <2>7, <2>8, <2>9 DEF Holds, rest
<1> QED BY <1>7, <1>8

\* A place in a text that has two parts is in one of them.
LEMMA PlaceInBoth ==
  ASSUME NEW S, NEW s \in Seq(S), NEW t \in Seq(S)
  PROVE  /\ \A k \in 0..Len(s) :
              /\ SubSeq(s \o t, 1, k) = SubSeq(s, 1, k)
              /\ SubSeq(s \o t, k + 1, Len(s \o t)) = SubSeq(s, k + 1, Len(s)) \o t
         /\ \A k \in 0..Len(t) :
              /\ SubSeq(s \o t, 1, Len(s) + k) = s \o SubSeq(t, 1, k)
              /\ SubSeq(s \o t, Len(s) + k + 1, Len(s \o t)) = SubSeq(t, k + 1, Len(t))
<1>1. ASSUME NEW k \in 0..Len(s)
      PROVE  /\ SubSeq(s \o t, 1, k) = SubSeq(s, 1, k)
             /\ SubSeq(s \o t, k + 1, Len(s \o t)) = SubSeq(s, k + 1, Len(s)) \o t
  <2> DEFINE p == SubSeq(s, 1, k)
             q == SubSeq(s, k + 1, Len(s))
  <2>1. p \in Seq(S) /\ Len(p) = k /\ q \in Seq(S) /\ s = p \o q
    BY CutInTwo
  <2> HIDE DEF p, q
  <2>2. s \o t = p \o (q \o t) /\ q \o t \in Seq(S)
    BY <2>1, ConcatAssociative, ConcatProperties
  <2>3. /\ SubSeq(p \o (q \o t), 1, Len(p)) = p
        /\ SubSeq(p \o (q \o t), Len(p) + 1, Len(p \o (q \o t))) = q \o t
    BY <2>1, <2>2, PartsOfBoth
  <2> QED BY <2>1, <2>2, <2>3 DEF p, q
<1>2. ASSUME NEW k \in 0..Len(t)
      PROVE  /\ SubSeq(s \o t, 1, Len(s) + k) = s \o SubSeq(t, 1, k)
             /\ SubSeq(s \o t, Len(s) + k + 1, Len(s \o t)) = SubSeq(t, k + 1, Len(t))
  <2> DEFINE p == SubSeq(t, 1, k)
             q == SubSeq(t, k + 1, Len(t))
  <2>1. p \in Seq(S) /\ Len(p) = k /\ q \in Seq(S) /\ t = p \o q
    BY CutInTwo
  <2> HIDE DEF p, q
  <2>2. s \o t = (s \o p) \o q /\ s \o p \in Seq(S) /\ Len(s \o p) = Len(s) + k
    <3>1. s \in Seq(S) /\ p \in Seq(S) /\ q \in Seq(S)
      BY <2>1
    <3>2. (s \o p) \o q = s \o (p \o q)
      BY ONLY <3>1, ConcatAssociative
    <3>3. s \o p \in Seq(S) /\ Len(s \o p) = Len(s) + Len(p)
      BY ONLY <3>1, ConcatProperties
    <3> QED BY <2>1, <3>2, <3>3
  <2>3. /\ SubSeq((s \o p) \o q, 1, Len(s \o p)) = s \o p
        /\ SubSeq((s \o p) \o q, Len(s \o p) + 1, Len((s \o p) \o q)) = q
    BY <2>1, <2>2, PartsOfBoth
  <2> QED BY <2>2, <2>3 DEF p, q
<1> QED BY <1>1, <1>2

LEMMA ErasedFront ==
  ASSUME NEW S, NEW s \in Seq(S), NEW t \in Seq(S),
         NEW from \in 0..Len(s), NEW to \in from..Len(s)
  PROVE  /\ Without(s, from, to) \in Seq(S)
         /\ Len(Without(s, from, to)) = Len(s) - (to - from)
         /\ Without(s \o t, from, to) = Without(s, from, to) \o t
<1> DEFINE a == SubSeq(s, 1, from)
           c == SubSeq(s, to + 1, Len(s))
<1>0. Len(s) \in Nat /\ from \in Nat /\ to \in 0..Len(s) /\ from <= to
  OBVIOUS
<1>1. a \in Seq(S) /\ Len(a) = from
  BY CutInTwo
<1>2. c \in Seq(S) /\ Len(c) = Len(s) - to
  BY <1>0, CutInTwo
<1>3. /\ SubSeq(s \o t, 1, from) = a
      /\ SubSeq(s \o t, to + 1, Len(s \o t)) = c \o t
  BY <1>0, PlaceInBoth
<1>4. Without(s, from, to) = a \o c
  BY DEF Without
<1> HIDE DEF a, c
<1>5. Without(s \o t, from, to) = a \o (c \o t)
  BY <1>3 DEF Without
<1>6. (a \o c) \o t = a \o (c \o t)
  <2>1. a \in Seq(S) /\ c \in Seq(S) /\ t \in Seq(S)
    BY <1>1, <1>2
  <2> QED BY ONLY <2>1, ConcatAssociative
<1>7. a \o c \in Seq(S) /\ Len(a \o c) = Len(a) + Len(c)
  BY <1>1, <1>2, ConcatProperties
<1>8. Len(a) + Len(c) = Len(s) - (to - from)
  BY <1>0, <1>1, <1>2
<1> QED BY <1>4, <1>5, <1>6, <1>7, <1>8

LEMMA ErasedBack ==
  ASSUME NEW S, NEW s \in Seq(S), NEW t \in Seq(S),
         NEW j \in 0..Len(t), NEW k \in j..Len(t)
  PROVE  /\ Without(t, j, k) \in Seq(S)
         /\ Without(s \o t, Len(s) + j, Len(s) + k) = s \o Without(t, j, k)
<1> DEFINE a == SubSeq(t, 1, j)
           c == SubSeq(t, k + 1, Len(t))
<1>0. Len(t) \in Nat /\ j \in Nat /\ k \in 0..Len(t) /\ j <= k
  OBVIOUS
<1>1. a \in Seq(S)
  BY CutInTwo
<1>2. c \in Seq(S)
  BY <1>0, CutInTwo
<1>3. /\ SubSeq(s \o t, 1, Len(s) + j) = s \o a
      /\ SubSeq(s \o t, Len(s) + k + 1, Len(s \o t)) = c
  BY <1>0, PlaceInBoth
<1>4. Without(t, j, k) = a \o c
  BY DEF Without
<1> HIDE DEF a, c
<1>5. Without(s \o t, Len(s) + j, Len(s) + k) = (s \o a) \o c
  BY <1>3 DEF Without
<1>6. (s \o a) \o c = s \o (a \o c)
  <2>1. s \in Seq(S) /\ a \in Seq(S) /\ c \in Seq(S)
    BY <1>1, <1>2
  <2> QED BY ONLY <2>1, ConcatAssociative
<1>7. a \o c \in Seq(S)
  BY <1>1, <1>2, ConcatProperties
<1> QED BY <1>4, <1>5, <1>6, <1>7

\* Taking a part out of a text in two halves takes a part out of each: left and
\* right are what stays of the halves s and t.
HalvesErased(S, s, t, from, to, left, right) ==
  /\ left \in Seq(S) /\ right \in Seq(S)
  /\ left \o right = Without(s \o t, from, to)
  /\ Len(left) = CursorAfter(Len(s), from, to)

LEMMA ErasedHalves ==
  ASSUME NEW S, NEW s \in Seq(S), NEW t \in Seq(S),
         NEW from \in Nat, NEW to \in Nat, from <= to, to <= Len(s) + Len(t)
  PROVE  HalvesErased(S, s, t, from, to,
                      Without(s, Ahead(Len(s), from), Ahead(Len(s), to)),
                      Without(t, Behind(Len(s), from), Behind(Len(s), to)))
<1> DEFINE n == Len(s)
           m == Len(t)
           left == Without(s, Ahead(n, from), Ahead(n, to))
           right == Without(t, Behind(n, from), Behind(n, to))
           Goal == /\ left \in Seq(S) /\ right \in Seq(S)
                   /\ left \o right = Without(s \o t, from, to)
                   /\ Len(left) = CursorAfter(n, from, to)
<1> SUFFICES Goal
  BY DEF HalvesErased
<1>0. /\ n \in Nat /\ m \in Nat /\ from \in Nat /\ to \in Nat /\ from <= to /\ to <= n + m
      /\ s \in Seq(S) /\ t \in Seq(S)
  OBVIOUS
<1>1. Without(s \o t, from, to) = SubSeq(s \o t, 1, from) \o SubSeq(s \o t, to + 1, Len(s \o t))
  BY DEF Without
<1>2. CASE to <= n
  <2>1. from \in 0..n /\ to \in from..n
    BY <1>0, <1>2
  <2>2. /\ Without(s, from, to) \in Seq(S)
        /\ Len(Without(s, from, to)) = n - (to - from)
        /\ Without(s \o t, from, to) = Without(s, from, to) \o t
    BY <2>1, ErasedFront
  <2>3. left = Without(s, from, to)
    BY <1>0, <1>2 DEF Ahead
  <2>4. right = t
    <3>1. Behind(n, from) = 0 /\ Behind(n, to) = 0
      BY <1>0, <1>2 DEF Behind
    <3>2. right = SubSeq(t, 1, 0) \o SubSeq(t, 1, m)
      BY <3>1 DEF Without
    <3>3. SubSeq(t, 1, 0) = <<>> /\ SubSeq(t, 1, m) = t
      BY SubSeqEmpty, SubSeqFull
    <3> HIDE DEF right
    <3> QED BY <3>2, <3>3, ConcatEmptySeq
  <2>5. CursorAfter(n, from, to) = n - (to - from)
    BY <1>0, <1>2 DEF CursorAfter
  <2> HIDE DEF left, right
  <2>6. Goal
    BY <1>0, <2>2, <2>3, <2>4, <2>5
  <2> QED BY <2>6 DEF left, right
<1>3. CASE ~(to <= n) /\ from <= n
  <2> DEFINE a == SubSeq(s, 1, from)
             k == to - n
             c == SubSeq(t, k + 1, m)
  <2>1. from \in 0..n /\ k \in 0..m /\ n + k = to
    BY <1>0, <1>3
  <2>2. a \in Seq(S) /\ Len(a) = from
    BY <2>1, CutInTwo
  <2>3. c \in Seq(S)
    BY <2>1, CutInTwo
  <2>4. left = a
    <3>1. Ahead(n, from) = from /\ Ahead(n, to) = n
      BY <1>0, <1>3 DEF Ahead
    <3>2. left = a \o SubSeq(s, n + 1, n)
      BY <3>1 DEF Without
    <3>3. SubSeq(s, n + 1, n) = <<>>
      BY <1>0, SubSeqEmpty
    <3> HIDE DEF left, a
    <3> QED BY <2>2, <3>2, <3>3, ConcatEmptySeq
  <2>5. right = c
    <3>1. Behind(n, from) = 0 /\ Behind(n, to) = k
      BY <1>0, <1>3 DEF Behind
    <3>2. right = SubSeq(t, 1, 0) \o c
      BY <3>1 DEF Without
    <3>3. SubSeq(t, 1, 0) = <<>>
      BY SubSeqEmpty
    <3> HIDE DEF right, c
    <3> QED BY <2>3, <3>2, <3>3, ConcatEmptySeq
  <2>6. Without(s \o t, from, to) = a \o c
    <3> HIDE DEF k
    <3>1. /\ SubSeq(s \o t, 1, from) = a
          /\ SubSeq(s \o t, n + k + 1, Len(s \o t)) = c
      BY <2>1, PlaceInBoth
    <3> QED BY <1>1, <2>1, <3>1
  <2>7. CursorAfter(n, from, to) = from
    BY <1>0, <1>3 DEF CursorAfter
  <2> HIDE DEF a, c, left, right
  <2>8. Goal
    BY <2>2, <2>3, <2>4, <2>5, <2>6, <2>7
  <2> QED BY <2>8 DEF left, right
<1>4. CASE ~(from <= n)
  <2> DEFINE j == from - n
             k == to - n
  <2>1. j \in 0..m /\ k \in j..m /\ n + j = from /\ n + k = to
    BY <1>0, <1>4
  <2>2. left = s
    <3>1. Ahead(n, from) = n /\ Ahead(n, to) = n
      BY <1>0, <1>4 DEF Ahead
    <3>2. left = SubSeq(s, 1, n) \o SubSeq(s, n + 1, n)
      BY <3>1 DEF Without
    <3>3. SubSeq(s, n + 1, n) = <<>> /\ SubSeq(s, 1, n) = s
      BY <1>0, SubSeqEmpty, SubSeqFull
    <3> HIDE DEF left
    <3> QED BY <3>2, <3>3, ConcatEmptySeq
  <2>3. right = Without(t, j, k)
    <3>1. Behind(n, from) = j /\ Behind(n, to) = k
      BY <1>0, <1>4 DEF Behind
    <3> QED BY <3>1
  <2>4. /\ Without(t, j, k) \in Seq(S)
        /\ Without(s \o t, n + j, n + k) = s \o Without(t, j, k)
    <3> HIDE DEF j, k
    <3>1. s \in Seq(S) /\ t \in Seq(S)
      BY <1>0
    <3>2. j \in 0..Len(t) /\ k \in j..Len(t)
      BY <2>1
    <3> QED BY ONLY <3>1, <3>2, ErasedBack, ZenonT(30)
  <2>5. CursorAfter(n, from, to) = n
    BY <1>0, <1>4 DEF CursorAfter
  <2> HIDE DEF left, right, j, k
  <2>6. Goal
    BY <1>0, <2>1, <2>2, <2>3, <2>4, <2>5
  <2> QED BY <2>6 DEF left, right
<1> QED BY <1>2, <1>3, <1>4

-----------------------------------------------------------------------------

LEMMA BufferInitHolds == BufferInit => BufferInv
<1> SUFFICES ASSUME BufferInit PROVE BufferInv
  OBVIOUS
<1> DEFINE acc == [k \in {0} |-> 0]
<1>1. buf = [input |-> <<>>, sz |-> <<>>, cursor |-> 0, acc |-> acc, accDirty |-> 0]
  BY DEF BufferInit
<1>2. acc \in [0..0 -> Nat] /\ acc[0] = 0
  OBVIOUS
<1> HIDE DEF acc
<1>3. acc \in Sums
  BY <1>2 DEF Sums
<1>4. <<>> \in Texts /\ <<>> \in Seq(Nat) /\ <<>> \in Seq(Bytes) /\ Len(<<>>) = 0
  BY DEF Texts
<1>5. buf \in BufferType
  BY <1>1, <1>3, <1>4 DEF BufferType
<1>6. before = <<>> /\ after = <<>> /\ before \o after = <<>>
  BY ConcatEmptySeq, <1>4 DEF BufferInit, Texts
<1>7. Widths(<<>>) = <<>>
  <2>1. Widths(<<>>) \in Seq(Nat) /\ Len(Widths(<<>>)) = 0
    BY <1>4, WidthsFacts
  <2> QED BY <2>1, EmptySeq
<1>8. CacheFits(buf, <<>>)
  BY <1>1, <1>2, <1>4, <1>7 DEF CacheFits
<1>9. Holds(buf, <<>>)
  BY <1>1, <1>4, <1>5, <1>8, BytesOfNothing DEF Holds, AllNarrow
<1> QED BY <1>1, <1>4, <1>6, <1>9 DEF BufferInv

LEMMA TypeTextHolds ==
  ASSUME BufferInv, NEW text \in Texts, TypeText(text)
  PROVE  BufferInv'
<1>1. AsciiOnly => AllNarrow(text)
  <2>1. DOMAIN text = 1..Len(text)
    BY DEF Texts
  <2> QED BY <2>1 DEF TypeText, AllNarrow
<1>2. /\ before \in Texts /\ after \in Texts
      /\ Holds(buf, before \o after) /\ buf.cursor = Len(before)
  BY DEF BufferInv
<1>3. /\ Holds(buf', (before \o text) \o after)
      /\ buf'.cursor = Len(before \o text)
  BY <1>1, <1>2, TypedFacts DEF TypeText
<1>4. before' = before \o text /\ after' = after /\ options' = options
  BY DEF TypeText
<1>5. before \o text \in Texts
  BY <1>2, ConcatProperties DEF Texts
<1>6. AsciiOnly' <=> AsciiOnly
  BY <1>4 DEF AsciiOnly
<1> QED BY <1>2, <1>3, <1>4, <1>5, <1>6 DEF BufferInv, Holds

LEMMA EraseHolds ==
  ASSUME BufferInv, NEW from \in Nat, NEW to \in Nat, Erase(from, to)
  PROVE  BufferInv'
<1> DEFINE text == before \o after
           n == Len(before)
           left == Without(before, Ahead(n, from), Ahead(n, to))
           right == Without(after, Behind(n, from), Behind(n, to))
<1>1. /\ before \in Texts /\ after \in Texts
      /\ Holds(buf, text) /\ buf.cursor = n
  BY DEF BufferInv
<1>2. text \in Texts /\ Len(text) = n + Len(after) /\ n \in Nat /\ Len(after) \in Nat
  BY <1>1, ConcatProperties DEF Texts
<1>3. Size(buf) = Len(text)
  BY <1>1, <1>2, SizeIs
<1>4. /\ from \in 0..Len(text) /\ to \in from..Len(text)
      /\ from \in 0..(n + Len(after)) /\ to \in from..(n + Len(after))
  BY <1>2, <1>3 DEF Erase
<1>5. /\ Holds(Erased(buf, from, to), Without(text, from, to))
      /\ Erased(buf, from, to).cursor = CursorAfter(buf.cursor, from, to)
  <2> HIDE DEF text
  <2> QED BY <1>1, <1>2, <1>4, ErasedFacts
<1>6. /\ left \in Texts /\ right \in Texts
      /\ left \o right = Without(text, from, to)
      /\ Len(left) = CursorAfter(n, from, to)
  <2>1. before \in Seq(Characters) /\ after \in Seq(Characters)
    BY <1>1 DEF Texts
  <2>2. from \in Nat /\ to \in Nat /\ from <= to /\ to <= Len(before) + Len(after)
    BY <1>2, <1>4
  <2>3. HalvesErased(Characters, before, after, from, to, left, right)
    BY ONLY <2>1, <2>2, ErasedHalves, ZenonT(30)
  <2> HIDE DEF left, right
  <2> QED BY <2>3 DEF HalvesErased, Texts
<1>7. /\ buf' = Erased(buf, from, to) /\ before' = left /\ after' = right
      /\ options' = options
  BY DEF Erase
<1>8. AsciiOnly' <=> AsciiOnly
  BY <1>7 DEF AsciiOnly
<1> HIDE DEF text, left, right
<1>9. Holds(buf, before \o after)' /\ buf'.cursor = Len(before')
  BY <1>1, <1>5, <1>6, <1>7, <1>8 DEF Holds
<1> QED BY <1>6, <1>7, <1>9 DEF BufferInv

LEMMA PlaceCursorHolds ==
  ASSUME BufferInv, NEW c \in Nat, PlaceCursor(c)
  PROVE  BufferInv'
<1> DEFINE text == before \o after
<1>1. /\ before \in Texts /\ after \in Texts
      /\ Holds(buf, text) /\ buf.cursor = Len(before)
  BY DEF BufferInv
<1>2. text \in Texts
  BY <1>1, ConcatProperties DEF Texts
<1>3. /\ buf' = [buf EXCEPT !.cursor = c] /\ options' = options
      /\ before' = SubSeq(text, 1, c) /\ after' = SubSeq(text, c + 1, Len(text))
  BY DEF PlaceCursor
<1> HIDE DEF text
<1>4. c \in 0..Len(text)
  <2>1. Size(buf) = Len(text)
    BY <1>1, <1>2, SizeIs
  <2> QED BY <2>1 DEF PlaceCursor
<1>5. /\ before' \in Texts /\ after' \in Texts /\ Len(before') = c
      /\ (before \o after)' = text
  BY <1>2, <1>3, <1>4, CutInTwo DEF Texts
<1>6. buf \in BufferType
  BY <1>1 DEF Holds
<1>7. /\ buf'.input = buf.input /\ buf'.sz = buf.sz /\ buf'.acc = buf.acc
      /\ buf'.accDirty = buf.accDirty /\ buf'.cursor = c
  BY <1>3, <1>6 DEF BufferType
<1>8. buf' \in BufferType
  BY <1>3, <1>6 DEF BufferType
<1>9. Holds(buf', text)
  BY <1>1, <1>7, <1>8 DEF Holds, CacheFits
<1>10. AsciiOnly' <=> AsciiOnly
  BY <1>3 DEF AsciiOnly
<1> QED BY <1>5, <1>7, <1>9, <1>10 DEF BufferInv, Holds

LEMMA LookHolds ==
  ASSUME BufferInv, NEW i \in Nat, Look(i)
  PROVE  BufferInv'
<1> DEFINE text == before \o after
           e == EnsureAccTill(buf, i)
<1>1. /\ before \in Texts /\ after \in Texts
      /\ Holds(buf, text) /\ buf.cursor = Len(before)
  BY DEF BufferInv
<1>2. text \in Texts
  BY <1>1, ConcatProperties DEF Texts
<1>3. buf' = e /\ before' = before /\ after' = after /\ options' = options /\ ~AsciiOnly
  BY DEF Look
<1>4. (before \o after)' = text
  BY <1>3
<1> HIDE DEF text
<1>5. i \in 0..Len(text)
  <2>1. Size(buf) = Len(text)
    BY <1>1, <1>2, SizeIs
  <2> QED BY <2>1 DEF Look
<1>6. buf \in BufferType /\ CacheFits(buf, text) /\ buf.input = BytesOf(text)
  BY <1>1, <1>3 DEF Holds
<1>7. e \in BufferType /\ CacheFits(e, text) /\ e.input = buf.input /\ e.cursor = buf.cursor
  BY <1>2, <1>5, <1>6, EnsureFacts
<1> HIDE DEF e
<1>8. Holds(e, text)
  BY <1>3, <1>6, <1>7 DEF Holds
<1>9. AsciiOnly' <=> AsciiOnly
  BY <1>3 DEF AsciiOnly
<1> QED BY <1>1, <1>3, <1>4, <1>7, <1>8, <1>9 DEF BufferInv, Holds

LEMMA BufferStepHolds == BufferInv /\ [BufferNext]_bufferVars => BufferInv'
<1> SUFFICES ASSUME BufferInv, [BufferNext]_bufferVars PROVE BufferInv'
  OBVIOUS
<1>0. \A i \in 0..MaxBuffer : i \in Nat
  BY MaxBufferAssumption
<1>1. ASSUME NEW text \in BoundedSeq(Characters, 2), TypeText(text) PROVE BufferInv'
  <2>1. PICK m \in 0..2 : text \in [1..m -> Characters]
    BY DEF BoundedSeq, SeqOf
  <2>2. m \in Nat /\ \A i \in 1..m : text[i] \in Characters
    BY <2>1
  <2>3. [i \in 1..m |-> text[i]] \in Seq(Characters)
    BY <2>2
  <2>4. text = [i \in 1..m |-> text[i]]
    BY <2>1
  <2>5. text \in Texts
    BY <2>3, <2>4 DEF Texts
  <2> QED BY <1>1, <2>5, TypeTextHolds
<1>2. ASSUME NEW from \in 0..MaxBuffer, NEW to \in 0..MaxBuffer, Erase(from, to)
      PROVE  BufferInv'
  BY <1>0, <1>2, EraseHolds
<1>3. ASSUME NEW c \in 0..MaxBuffer, PlaceCursor(c) PROVE BufferInv'
  BY <1>0, <1>3, PlaceCursorHolds
<1>4. ASSUME NEW c \in 0..MaxBuffer, Look(c) PROVE BufferInv'
  BY <1>0, <1>4, LookHolds
<1>5. CASE UNCHANGED bufferVars
  <2>1. options' = options /\ buf' = buf /\ before' = before /\ after' = after
    BY <1>5 DEF bufferVars
  <2> QED BY <2>1 DEF BufferInv, Holds, AsciiOnly
<1> QED BY <1>1, <1>2, <1>3, <1>4, <1>5 DEF BufferNext, Characters

LEMMA BufferInvSaysIt == BufferInv => RangesFit
<1> SUFFICES ASSUME BufferInv PROVE RangesFit
  OBVIOUS
<1> DEFINE text == before \o after
<1>1. /\ before \in Texts /\ after \in Texts
      /\ Holds(buf, text) /\ buf.cursor = Len(before)
  BY DEF BufferInv
<1>2. text \in Texts /\ Len(text) \in Nat
  BY <1>1, ConcatProperties DEF Texts
<1>3. CursorByChar(buf) = Len(BytesOf(before))
  BY <1>1, CursorFacts
<1> HIDE DEF text
<1>4. buf.input = BytesOf(text)
  BY <1>1 DEF Holds
<1>5. ASSUME NEW i \in 1..Len(text)
      PROVE  LET range == RangeAt(buf, i - 1)
             IN  /\ range[2] <= Len(buf.input)
                 /\ SubSeq(buf.input, range[1] + 1, range[2]) = BytesOf(<<text[i]>>)
  <2> DEFINE from == Offset(text, i - 1)
             to == Offset(text, i)
             range == RangeAt(buf, i - 1)
  <2>0. i - 1 \in 0..Len(text) /\ i \in 0..Len(text) /\ i - 1 + 1 = i /\ i - 1 \in 0..(i - 1)
    BY <1>2
  <2>1. range = <<from, to>>
    <3>1. CASE AsciiOnly
      <4>1. AllNarrow(text)
        BY <1>1, <3>1 DEF Holds
      <4>2. from = i - 1 /\ to = i
        BY <1>2, <2>0, <4>1, NarrowOffset
      <4>3. range = <<i - 1, i>>
        BY <2>0, <3>1 DEF RangeAt
      <4> HIDE DEF range, from, to
      <4> QED BY <4>2, <4>3
    <3>2. CASE ~AsciiOnly
      <4>1. buf \in BufferType /\ CacheFits(buf, text)
        BY <1>1, <3>2 DEF Holds
      <4> DEFINE sum == EnsureAccTill(buf, i - 1).acc[i - 1]
      <4>2. sum = from
        BY <1>2, <2>0, <4>1, EnsureFacts
      <4>3. range = <<sum, sum + buf.sz[i]>>
        BY <2>0, <3>2 DEF RangeAt
      <4> HIDE DEF range, from, to, sum
      <4>4. to = from + buf.sz[i]
        BY <1>2, <4>1, OffsetFacts, WidthsFacts DEF from, to, CacheFits
      <4> QED BY <4>2, <4>3, <4>4
    <3> QED BY <3>1, <3>2
  <2>2. /\ to <= Len(BytesOf(text))
        /\ SubSeq(BytesOf(text), from + 1, to) = BytesOf(<<text[i]>>)
    <3> DEFINE a == SubSeq(text, 1, i - 1)
               m == <<text[i]>>
               c == SubSeq(text, i + 1, Len(text))
               ba == BytesOf(a)
               bm == BytesOf(m)
               bc == BytesOf(c)
    <3>1. text[i] \in Characters
      BY <1>2 DEF Texts
    <3>2. m \in Texts /\ a \in Texts /\ SubSeq(text, 1, i) = a \o m
      BY <1>2, <3>1, OneMore, AppendIsConcat DEF Texts
    <3>3. c \in Texts /\ text = SubSeq(text, 1, i) \o c
      BY <1>2, <2>0, CutInTwo DEF Texts
    <3>4. from = Len(ba) /\ to = Len(BytesOf(a \o m))
      BY <3>2 DEF Offset
    <3> HIDE DEF a, m, c, from, to
    <3>5. a \in Texts /\ m \in Texts /\ c \in Texts
      BY <3>2, <3>3
    <3>6. BytesOf((a \o m) \o c) = (ba \o bm) \o bc
      BY ONLY <3>5, ThreeTexts
    <3>7. BytesOf(a \o m) = ba \o bm
      BY ONLY <3>5, BytesOfBoth
    <3>8. ba \in Seq(Bytes) /\ bm \in Seq(Bytes) /\ bc \in Seq(Bytes)
      BY ONLY <3>5, BytesTyped
    <3> HIDE DEF ba, bm, bc
    <3>9. SubSeq((ba \o bm) \o bc, Len(ba) + 1, Len(ba \o bm)) = bm
      BY ONLY <3>8, ThreeParts
    <3>10. Len(ba \o bm) <= Len((ba \o bm) \o bc)
      BY ONLY <3>8
    <3> QED BY <3>2, <3>3, <3>4, <3>6, <3>7, <3>9, <3>10 DEF bm, m
  <2> HIDE DEF from, to, range
  <2>3. range[1] = from /\ range[2] = to
    BY <2>1
  <2> QED BY <1>4, <2>2, <2>3 DEF range
<1> QED BY <1>1, <1>3, <1>4, <1>5 DEF RangesFit, text

\* RangesFit: bytes, characters, the cursor and the cache agree whatever is typed,
\* erased and looked at.
THEOREM RangesFitAlways == BufferSpec => []RangesFit
<1>1. BufferSpec => []BufferInv
  BY BufferInitHolds, BufferStepHolds, PTL DEF BufferSpec
<1> QED BY <1>1, BufferInvSaysIt, PTL

(***************************************************************************)
(* CandidateList: CursorWalks, for any words, any sizes of pages and any   *)
(* options.                                                                *)
(***************************************************************************)

Paging == [includeUnselected : BOOLEAN, keepInSamePage : BOOLEAN, after : AfterPaging]
Positions == [cursor : Int, page : Nat]

ListTypes ==
  /\ words \in Seq(Words) /\ filtered \in BOOLEAN
  /\ pageSize \in Nat \ {0}
  /\ currentPage \in Nat /\ cursorIndex \in Int
  /\ paging \in Paging

LEMMA ShownFacts ==
  ASSUME ListTypes
  PROVE  Shown \in Seq(Words) /\ TotalSize \in Nat /\ Unhidden \in Seq(Words)
<1>1. Unhidden \in Seq(Words)
  BY KeptPlaces DEF ListTypes, Unhidden
<1>2. Shown \in Seq(Words)
  BY <1>1 DEF ListTypes, Shown
<1> QED BY <1>1, <1>2, LenProperties DEF TotalSize

\* What / and % compute.
LEMMA DividedFacts ==
  ASSUME NEW c \in Nat, NEW p \in Nat \ {0}
  PROVE  /\ c \div p \in Nat /\ c % p \in 0..(p - 1)
         /\ (c \div p) * p <= c /\ c < (c \div p) * p + p
         /\ \A g \in Nat : c \div p = g <=> g * p <= c /\ c < g * p + p
<1>1. c \div p \in Int /\ c % p \in 0..(p - 1) /\ c = p * (c \div p) + (c % p)
  OBVIOUS
<1> DEFINE d == c \div p
<1>2. d \in Int /\ d * p <= c /\ c < d * p + p
  BY <1>1
<1> HIDE DEF d
<1>3. d >= 0
  BY <1>2
<1>4. ASSUME NEW g \in Nat, g * p <= c, c < g * p + p PROVE d = g
  <2>1. CASE d < g
    <3>1. g = d + 1 + (g - d - 1) /\ g - d - 1 \in Nat
      BY <1>2, <2>1
    <3>2. g * p = d * p + p + (g - d - 1) * p /\ (g - d - 1) * p >= 0
      BY <1>2, <3>1
    <3> QED BY <1>2, <1>4, <3>2
  <2>2. CASE g < d
    <3>1. d = g + 1 + (d - g - 1) /\ d - g - 1 \in Nat
      BY <1>2, <2>2
    <3>2. d * p = g * p + p + (d - g - 1) * p /\ (d - g - 1) * p >= 0
      BY <1>2, <3>1
    <3> QED BY <1>2, <1>4, <3>2
  <2> QED BY <1>2, <2>1, <2>2
<1> QED BY <1>1, <1>2, <1>3, <1>4 DEF d

LEMMA PageFacts ==
  ASSUME ListTypes, NEW page \in Nat
  PROVE  /\ PageBegin(page) \in Nat /\ PageLength(page) \in Nat
         /\ PageLength(page) > 0 => PageBegin(page) + PageLength(page) <= TotalSize
         /\ PageLength(page) <= pageSize
         /\ \A c \in Nat : OnPage(c, page) <=> /\ PageBegin(page) <= c
                                               /\ c < PageBegin(page) + pageSize
         /\ \A c \in Nat : OnPage(c, page) /\ c < TotalSize =>
              /\ PageLength(page) > 0
              /\ c < PageBegin(page) + PageLength(page)
         /\ \A c \in Nat : OnPage(c, c \div pageSize) /\ c \div pageSize \in Nat
<1>1. TotalSize \in Nat /\ pageSize \in Nat \ {0}
  BY ShownFacts DEF ListTypes
<1>2. PageBegin(page) \in Nat
  BY <1>1 DEF PageBegin
<1>3. /\ PageLength(page) \in Nat /\ PageLength(page) <= pageSize
      /\ PageLength(page) > 0 => PageBegin(page) + PageLength(page) <= TotalSize
  BY <1>1, <1>2 DEF PageLength
<1>4. ASSUME NEW c \in Nat
      PROVE  OnPage(c, page) <=> PageBegin(page) <= c /\ c < PageBegin(page) + pageSize
  BY <1>1, DividedFacts DEF OnPage, PageBegin
<1>5. ASSUME NEW c \in Nat, OnPage(c, page), c < TotalSize
      PROVE  PageLength(page) > 0 /\ c < PageBegin(page) + PageLength(page)
  BY <1>1, <1>2, <1>4, <1>5 DEF PageLength
<1>6. ASSUME NEW c \in Nat PROVE OnPage(c, c \div pageSize) /\ c \div pageSize \in Nat
  BY <1>1, DividedFacts DEF OnPage
<1> QED BY <1>2, <1>3, <1>4, <1>5, <1>6

LEMMA TurnedFacts ==
  ASSUME ListTypes, NEW cursor \in Int, NEW page \in Nat, NEW to \in Nat
  PROVE  /\ Turned(cursor, page, to) \in Positions
         /\ Turned(cursor, page, to).page = to
         /\ to = cursor \div pageSize => Turned(cursor, page, to).cursor = cursor
<1>1. pageSize \in Nat \ {0} /\ paging.after \in AfterPaging
  BY DEF ListTypes, Paging
<1>2. PageBegin(to) \in Nat /\ PageLength(to) \in Nat
  BY PageFacts
<1>3. OnPage(cursor, page) => cursor % pageSize \in Nat
  <2> SUFFICES ASSUME cursor \in Nat PROVE cursor % pageSize \in Nat
    BY DEF OnPage
  <2> QED BY <1>1, DividedFacts
<1>4. Turned(cursor, page, to) \in Positions
  BY <1>1, <1>2, <1>3 DEF Turned, Positions
<1>5. to = cursor \div pageSize => Turned(cursor, page, to).cursor = cursor
  BY DEF Turned, OnPage
<1> QED BY <1>4, <1>5 DEF Turned

LEMMA StrideTyped ==
  ASSUME ListTypes, NEW spot \in Positions, NEW prev \in BOOLEAN
  PROVE  Stride(spot, prev) \in Positions
<1>1. spot.cursor \in Int /\ spot.page \in Nat /\ spot = [cursor |-> spot.cursor, page |-> spot.page]
  BY DEF Positions
<1>2. PageBegin(spot.page) \in Nat /\ PageLength(spot.page) \in Nat /\ TotalSize \in Nat
  BY <1>1, PageFacts, ShownFacts
<1>3. ASSUME NEW c \in Int PROVE [spot EXCEPT !.cursor = c] \in Positions
  BY <1>1 DEF Positions
<1>4. RotationBase(spot.page) \in Int /\ RotationEnd(spot.page) \in Int
  BY <1>1, <1>2 DEF RotationBase, RotationEnd
<1>5. ASSUME NEW c \in Int, ~(c < 0) PROVE Turned(c, spot.page, c \div pageSize) \in Positions
  <2>1. c \in Nat
    BY <1>5
  <2> QED BY <1>1, <2>1, PageFacts, TurnedFacts
<1>6. CASE ~OnPage(spot.cursor, spot.page)
  <2>1. PageBegin(spot.page) + (IF prev THEN PageLength(spot.page) - 1 ELSE 0) \in Int
    BY <1>2
  <2> QED BY <1>3, <1>6, <2>1 DEF Stride
<1>7. CASE OnPage(spot.cursor, spot.page)
  <2> DEFINE next == spot.cursor + (IF prev THEN -1 ELSE 1)
             base == RotationBase(spot.page)
             end == RotationEnd(spot.page)
             cursor == IF next \in base..end THEN next
                       ELSE IF paging.includeUnselected THEN -1
                       ELSE IF prev THEN end ELSE base
  <2>1. cursor \in Int
    BY <1>1, <1>4
  <2> HIDE DEF cursor
  <2>2. /\ [spot EXCEPT !.cursor = cursor] \in Positions
        /\ ~(cursor < 0) => Turned(cursor, spot.page, cursor \div pageSize) \in Positions
    BY <1>3, <1>5, <2>1
  <2>3. Stride(spot, prev) = IF paging.keepInSamePage \/ cursor < 0
                           THEN [spot EXCEPT !.cursor = cursor]
                           ELSE Turned(cursor, spot.page, cursor \div pageSize)
    BY <1>7 DEF Stride, cursor
  <2> QED BY <2>2, <2>3
<1> QED BY <1>6, <1>7

\* The walk that starts on a page stands somewhere: nowhere in the list, or on
\* the page it shows.
Standing(spot, page) ==
  /\ spot \in Positions /\ PageLength(spot.page) > 0
  /\ spot.cursor < 0 \/ OnPage(spot.cursor, spot.page)
  /\ paging.keepInSamePage => spot.page = page

\* Where a stride leads in the rotation base..end.
NextIn(c, base, end, prev) ==
  LET next == c + (IF prev THEN -1 ELSE 1)
  IN  IF next \in base..end THEN next
      ELSE IF paging.includeUnselected THEN -1
      ELSE IF prev THEN end ELSE base

\* Where it leads from nowhere.
EndOfPage(page, prev) == PageBegin(page) + (IF prev THEN PageLength(page) - 1 ELSE 0)

LEMMA RotationFacts ==
  ASSUME ListTypes, NEW page \in Nat, NEW spot, Standing(spot, page)
  PROVE  /\ RotationBase(spot.page) = RotationBase(page)
         /\ RotationEnd(spot.page) = RotationEnd(page)
         /\ RotationBase(page) \in Nat /\ RotationEnd(page) \in Nat
         /\ RotationBase(page) <= RotationEnd(page) /\ RotationEnd(page) < TotalSize
         /\ \A prev \in BOOLEAN :
              EndOfPage(spot.page, prev) \in RotationBase(page)..RotationEnd(page)
         /\ \A prev \in BOOLEAN : OnPage(EndOfPage(spot.page, prev), spot.page)
         /\ \A c \in Nat : c < TotalSize /\ OnPage(c, spot.page) =>
              c \in RotationBase(page)..RotationEnd(page)
<1> DEFINE b == PageBegin(spot.page)
           n == PageLength(spot.page)
<1>1. spot.page \in Nat /\ TotalSize \in Nat /\ pageSize \in Nat
  BY ShownFacts DEF Standing, Positions, ListTypes
<1>2. /\ b \in Nat /\ n \in Nat /\ n > 0 /\ n <= pageSize /\ b + n <= TotalSize
      /\ \A c \in Nat : OnPage(c, spot.page) <=> b <= c /\ c < b + pageSize
      /\ \A c \in Nat : OnPage(c, spot.page) /\ c < TotalSize => c < b + n
  BY <1>1, PageFacts DEF Standing
<1>3. ASSUME NEW prev \in BOOLEAN
      PROVE  /\ EndOfPage(spot.page, prev) \in b..(b + n - 1)
             /\ OnPage(EndOfPage(spot.page, prev), spot.page)
  <2>1. EndOfPage(spot.page, prev) \in b..(b + n - 1) /\ EndOfPage(spot.page, prev) \in Nat
    BY <1>2 DEF EndOfPage
  <2> HIDE DEF b, n
  <2> QED BY <1>1, <1>2, <2>1
<1>4. CASE paging.keepInSamePage
  <2>1. spot.page = page
    BY <1>4 DEF Standing
  <2>2. RotationBase(page) = b /\ RotationEnd(page) = b + n - 1
    BY <1>4, <2>1 DEF RotationBase, RotationEnd
  <2> HIDE DEF b, n
  <2> QED BY <1>1, <1>2, <1>3, <2>1, <2>2
<1>5. CASE ~paging.keepInSamePage
  <2>1. /\ RotationBase(page) = 0 /\ RotationEnd(page) = TotalSize - 1
        /\ RotationBase(spot.page) = 0 /\ RotationEnd(spot.page) = TotalSize - 1
    BY <1>5 DEF RotationBase, RotationEnd
  <2> HIDE DEF b, n
  <2> QED BY <1>1, <1>2, <1>3, <2>1
<1> QED BY <1>4, <1>5

\* A stride keeps to the rotation, and to the page where it has to.
LEMMA StrideFacts ==
  ASSUME ListTypes, NEW page \in Nat, NEW spot, Standing(spot, page), NEW prev \in BOOLEAN
  PROVE  /\ Standing(Stride(spot, prev), page)
         /\ \/ Stride(spot, prev).cursor \in RotationBase(page)..RotationEnd(page)
            \/ /\ Stride(spot, prev) = [cursor |-> -1, page |-> spot.page]
               /\ paging.includeUnselected
         /\ spot.cursor >= 0 =>
              Stride(spot, prev).cursor
                = NextIn(spot.cursor, RotationBase(page), RotationEnd(page), prev)
         /\ spot.cursor < 0 =>
              Stride(spot, prev) = [cursor |-> EndOfPage(spot.page, prev), page |-> spot.page]
<1> DEFINE base == RotationBase(page)
           end == RotationEnd(page)
           to == Stride(spot, prev)
<1>1. /\ spot \in Positions /\ spot.cursor \in Int /\ spot.page \in Nat
      /\ PageLength(spot.page) > 0 /\ (paging.keepInSamePage => spot.page = page)
  BY DEF Standing, Positions
<1>2. /\ RotationBase(spot.page) = base /\ RotationEnd(spot.page) = end
      /\ base \in Nat /\ end \in Nat /\ base <= end /\ end < TotalSize
      /\ EndOfPage(spot.page, prev) \in base..end
      /\ OnPage(EndOfPage(spot.page, prev), spot.page)
  BY RotationFacts
<1>3. TotalSize \in Nat /\ to \in Positions
  BY <1>1, ShownFacts, StrideTyped
<1>4. CASE spot.cursor < 0
  <2>1. ~OnPage(spot.cursor, spot.page)
    BY <1>1, <1>4 DEF OnPage
  <2>2. to = [spot EXCEPT !.cursor = EndOfPage(spot.page, prev)]
    BY <2>1 DEF Stride, EndOfPage
  <2>3. to = [cursor |-> EndOfPage(spot.page, prev), page |-> spot.page]
    BY <1>1, <2>2 DEF Positions
  <2>4. to.cursor = EndOfPage(spot.page, prev) /\ to.page = spot.page
    BY <2>3
  <2> HIDE DEF to, base, end
  <2>5. Standing(to, page)
    BY <1>1, <1>2, <1>3, <2>4 DEF Standing
  <2> QED BY <1>1, <1>2, <1>4, <2>3, <2>4, <2>5 DEF to, base, end
<1>5. CASE ~(spot.cursor < 0)
  <2> DEFINE c == NextIn(spot.cursor, base, end, prev)
  <2>1. OnPage(spot.cursor, spot.page)
    BY <1>5 DEF Standing
  <2>2. \/ c \in base..end
        \/ c = -1 /\ paging.includeUnselected
    BY <1>1, <1>2 DEF NextIn
  <2>3. to = IF paging.keepInSamePage \/ c < 0 THEN [spot EXCEPT !.cursor = c]
             ELSE Turned(c, spot.page, c \div pageSize)
    <3> HIDE DEF base, end
    <3> QED BY <1>2, <2>1 DEF Stride, NextIn
  <2> HIDE DEF c, to, base, end
  <2>4. CASE c < 0
    <3>1. to = [spot EXCEPT !.cursor = c] /\ c = -1 /\ paging.includeUnselected
      BY <1>2, <2>2, <2>3, <2>4
    <3>2. to = [cursor |-> -1, page |-> spot.page]
      BY <1>1, <3>1 DEF Positions
    <3>3. Standing(to, page)
      BY <1>1, <1>3, <3>2 DEF Standing
    <3> QED BY <1>1, <1>5, <3>1, <3>2, <3>3 DEF to, c, base, end
  <2>5. CASE ~(c < 0)
    <3>1. c \in base..end /\ c \in Nat /\ c < TotalSize
      BY <1>2, <1>3, <2>2, <2>5
    <3>2. CASE paging.keepInSamePage
      <4>1. to = [spot EXCEPT !.cursor = c]
        BY <2>3, <3>2
      <4>2. to.cursor = c /\ to.page = spot.page /\ spot.page = page
        BY <1>1, <3>2, <4>1 DEF Positions
      <4>3. OnPage(c, page)
        <5>1. base = PageBegin(page) /\ end = PageBegin(page) + PageLength(page) - 1
          BY <3>2 DEF base, end, RotationBase, RotationEnd
        <5>2. /\ PageBegin(page) \in Nat /\ PageLength(page) \in Nat
              /\ PageLength(page) <= pageSize /\ pageSize \in Nat
              /\ OnPage(c, page) <=> PageBegin(page) <= c /\ c < PageBegin(page) + pageSize
          BY <3>1, PageFacts DEF ListTypes
        <5> QED BY <3>1, <5>1, <5>2
      <4>4. Standing(to, page)
        BY <1>1, <1>3, <4>2, <4>3 DEF Standing
      <4> QED BY <1>1, <1>5, <3>1, <4>2, <4>4 DEF to, c, base, end
    <3>3. CASE ~paging.keepInSamePage
      <4>1. to = Turned(c, spot.page, c \div pageSize)
        BY <2>3, <2>5, <3>3
      <4>2. c \div pageSize \in Nat /\ OnPage(c, c \div pageSize)
        BY <3>1, <1>1, PageFacts
      <4>3. to.cursor = c /\ to.page = c \div pageSize
        BY <1>1, <3>1, <4>1, <4>2, TurnedFacts
      <4>4. PageLength(to.page) > 0
        BY <3>1, <4>2, <4>3, PageFacts
      <4>5. Standing(to, page)
        BY <1>3, <3>3, <4>2, <4>3, <4>4 DEF Standing
      <4> QED BY <1>1, <1>5, <3>1, <4>3, <4>5 DEF to, c, base, end
    <3> QED BY <3>2, <3>3
  <2> QED BY <2>4, <2>5
<1> QED BY <1>4, <1>5

\* A place in the list has one page.
LEMMA OnePage ==
  ASSUME ListTypes, NEW page \in Nat, NEW one, Standing(one, page),
         NEW other, Standing(other, page),
         one.cursor = other.cursor, one.cursor >= 0
  PROVE  one = other
<1>1. /\ one \in Positions /\ other \in Positions
      /\ one = [cursor |-> one.cursor, page |-> one.page]
      /\ other = [cursor |-> other.cursor, page |-> other.page]
  BY DEF Standing, Positions
<1>2. one.page = other.page
  <2>1. one.cursor \in Nat
    BY <1>1 DEF Positions
  <2>2. OnPage(one.cursor, one.page) /\ OnPage(other.cursor, other.page)
    BY <1>1, <2>1 DEF Standing
  <2> QED BY <2>2 DEF OnPage
<1> QED BY <1>1, <1>2

\* One stride takes back another.
LEMMA StrideBack ==
  ASSUME ListTypes, NEW page \in Nat, NEW spot, Standing(spot, page), NEW prev \in BOOLEAN,
         spot.cursor \in RotationBase(page)..RotationEnd(page)
  PROVE  Stride(Stride(spot, prev), ~prev) = spot
<1> DEFINE base == RotationBase(page)
           end == RotationEnd(page)
           to == Stride(spot, prev)
           back == Stride(to, ~prev)
<1>1. base \in Nat /\ end \in Nat /\ base <= end
  BY RotationFacts
<1>2. Standing(to, page) /\ to.cursor = NextIn(spot.cursor, base, end, prev)
  BY <1>1, StrideFacts
<1>3. Standing(back, page)
  BY <1>2, StrideFacts
<1>4. CASE to.cursor >= 0
  <2>1. back.cursor = NextIn(to.cursor, base, end, ~prev)
    BY <1>2, <1>4, StrideFacts
  <2> HIDE DEF to, back, base, end
  <2>2. back.cursor = spot.cursor
    BY <1>1, <1>2, <1>4, <2>1 DEF NextIn, base, end
  <2>3. spot.cursor >= 0
    BY <1>1 DEF base, end
  <2> QED BY <1>3, <2>2, <2>3, OnePage DEF back, to
<1>5. CASE ~(to.cursor >= 0)
  <2>1. to = [cursor |-> -1, page |-> spot.page]
    BY <1>1, <1>5, StrideFacts
  <2>2. back = [cursor |-> EndOfPage(spot.page, ~prev), page |-> spot.page]
    <3>1. to.cursor < 0 /\ to.page = spot.page /\ (~prev) \in BOOLEAN
      BY <2>1
    <3>2. Standing(to, page)
      BY <1>2
    <3> HIDE DEF to
    <3>3. Stride(to, ~prev) = [cursor |-> EndOfPage(to.page, ~prev), page |-> to.page]
      BY <3>1, <3>2, StrideFacts
    <3> QED BY <3>1, <3>3
  <2>3. spot.cursor = IF prev THEN base ELSE end
    <3>1. to.cursor = -1
      BY <2>1
    <3> HIDE DEF to, base, end
    <3> QED BY <1>1, <1>2, <3>1 DEF NextIn, base, end
  <2>4. EndOfPage(spot.page, ~prev) = IF prev THEN base ELSE end
    <3> DEFINE b == PageBegin(spot.page)
               n == PageLength(spot.page)
    <3>1. spot.page \in Nat /\ n > 0 /\ spot.cursor \in Nat /\ OnPage(spot.cursor, spot.page)
      BY <1>1 DEF Standing, Positions
    <3>2. /\ b \in Nat /\ n \in Nat /\ n <= pageSize /\ b + n <= TotalSize
          /\ b <= spot.cursor
          /\ spot.cursor < TotalSize => spot.cursor < b + n
      BY <3>1, PageFacts
    <3>3. /\ base = RotationBase(spot.page) /\ end = RotationEnd(spot.page)
          /\ end < TotalSize
      BY RotationFacts
    <3>4. TotalSize \in Nat
      BY ShownFacts
    <3>5. EndOfPage(spot.page, ~prev) = IF prev THEN b ELSE b + n - 1
      BY <3>2 DEF EndOfPage
    <3>6. CASE paging.keepInSamePage
      <4>1. base = b /\ end = b + n - 1
        BY <3>3, <3>6 DEF RotationBase, RotationEnd
      <4> QED BY <3>5, <4>1
    <3>7. CASE ~paging.keepInSamePage
      <4>1. base = 0 /\ end = TotalSize - 1
        BY <3>3, <3>7 DEF RotationBase, RotationEnd
      <4>2. spot.cursor = IF prev THEN 0 ELSE TotalSize - 1
        BY <2>3, <4>1
      <4> HIDE DEF b, n, base, end
      <4>3. prev => b = 0
        BY <3>2, <4>2
      <4>4. ~prev => b + n = TotalSize
        BY <1>1, <3>1, <3>2, <3>3, <3>4, <4>2
      <4> QED BY <3>2, <3>4, <3>5, <4>1, <4>3, <4>4 DEF base, end
    <3> QED BY <3>6, <3>7
  <2>5. spot = [cursor |-> spot.cursor, page |-> spot.page]
    BY DEF Standing, Positions
  <2> HIDE DEF back, to, base, end
  <2>6. back = [cursor |-> spot.cursor, page |-> spot.page]
    BY <2>2, <2>3, <2>4
  <2> QED BY <2>5, <2>6 DEF back, to
<1> QED BY <1>4, <1>5

\* The strides from start, one after another.
Strides(f, start, prev, n) ==
  f[0] = start /\ \A k \in 1..n : f[k] = Stride(f[k - 1], prev)

Stops(spot) == spot.cursor < 0 \/ Shown[spot.cursor + 1] # "holder"

\* The cursor comes to a place where it was before.
Returns(f, k) == \E i \in 0..(k - 1) : f[k].cursor = f[i].cursor

\* k strides lead from start by placeholders, to different places.
Wanders(f, k) ==
  /\ \A i \in 1..(k - 1) : ~Stops(f[i])
  /\ \A i \in 1..(k - 1) : ~Returns(f, i)

WalkState == [at : Positions, seen : SUBSET Int, ends : BOOLEAN]

\* The body of the loop, for a walk that began at start.
WalkStep(was, start, prev) ==
  LET to == Stride(was.at, prev)
      seen == was.seen \cup {was.at.cursor}
  IN  IF was.ends THEN was
      ELSE IF to.cursor \in seen
      THEN [at |-> start, seen |-> seen, ends |-> TRUE]
      ELSE [at |-> to, seen |-> seen,
            ends |-> to.cursor < 0 \/ Shown[to.cursor + 1] # "holder"]

WalkStart(start) == [at |-> start, seen |-> {}, ends |-> PageLength(start.page) = 0]

LEMMA StridesExist ==
  ASSUME ListTypes, NEW start \in Positions, NEW prev \in BOOLEAN, NEW n \in Nat
  PROVE  \E f \in [0..n -> Positions] : Strides(f, start, prev, n)
<1> DEFINE step == [a \in (1..n) \X Positions |-> Stride(a[2], prev)]
<1>1. step \in [(1..n) \X Positions -> Positions]
  BY StrideTyped
<1>2. ASSUME NEW k \in 1..n, NEW spot \in Positions PROVE step[<<k, spot>>] = Stride(spot, prev)
  OBVIOUS
<1> HIDE DEF step
<1>3. PICK f \in [0..n -> Positions] : Iterates(f, start, step, n)
  BY <1>1, RecursionExists
<1>4. ASSUME NEW k \in 1..n PROVE f[k] = Stride(f[k - 1], prev)
  <2>1. k - 1 \in 0..n
    OBVIOUS
  <2>2. f[k - 1] \in Positions
    BY <1>3, <2>1
  <2> QED BY <1>2, <1>3, <2>2 DEF Iterates
<1> QED BY <1>3, <1>4 DEF Strides, Iterates

LEMMA WalkStepTyped ==
  ASSUME ListTypes, NEW start \in Positions, NEW prev \in BOOLEAN, NEW was \in WalkState
  PROVE  WalkStep(was, start, prev) \in WalkState
<1>1. was.at \in Positions /\ was.seen \in SUBSET Int /\ was.at.cursor \in Int
  BY DEF WalkState, Positions
<1>2. Stride(was.at, prev) \in Positions
  BY <1>1, StrideTyped
<1> DEFINE to == Stride(was.at, prev)
           seen == was.seen \cup {was.at.cursor}
           ends == to.cursor < 0 \/ Shown[to.cursor + 1] # "holder"
<1>3. seen \in SUBSET Int /\ ends \in BOOLEAN
  BY <1>1
<1>4. WalkStep(was, start, prev)
        = IF was.ends THEN was
          ELSE IF to.cursor \in seen THEN [at |-> start, seen |-> seen, ends |-> TRUE]
          ELSE [at |-> to, seen |-> seen, ends |-> ends]
  BY DEF WalkStep
<1> HIDE DEF to, seen, ends
<1>5. to \in Positions
  BY <1>2 DEF to
<1> QED BY <1>3, <1>4, <1>5 DEF WalkState

\* The walk is the function that its recursion describes.
LEMMA WalkSteps ==
  ASSUME ListTypes, NEW start \in Positions, NEW prev \in BOOLEAN
  PROVE  \E w \in [0..(TotalSize + 2) -> WalkState] :
           /\ w[0] = WalkStart(start)
           /\ \A k \in 1..(TotalSize + 2) : w[k] = WalkStep(w[k - 1], start, prev)
           /\ MoveCursor(start, prev) = w[TotalSize + 2].at
<1> DEFINE n == TotalSize + 2
           Steps(h) == [k \in 0..n |->
                          IF k = 0 THEN WalkStart(start)
                          ELSE WalkStep(h[k - 1], start, prev)]
           w == CHOOSE h : h = Steps(h)
           step == [a \in (1..n) \X WalkState |-> WalkStep(a[2], start, prev)]
<1>1. n \in Nat
  BY ShownFacts
<1>2. WalkStart(start) \in WalkState
  BY DEF WalkStart, WalkState
<1>3. step \in [(1..n) \X WalkState -> WalkState]
  BY WalkStepTyped
<1>4. ASSUME NEW k \in 1..n, NEW was \in WalkState
      PROVE  step[<<k, was>>] = WalkStep(was, start, prev)
  OBVIOUS
<1> HIDE DEF step, n
<1>5. PICK g \in [0..n -> WalkState] : Iterates(g, WalkStart(start), step, n)
  BY <1>1, <1>2, <1>3, RecursionExists
<1>6. \A k \in 1..n : g[k] = WalkStep(g[k - 1], start, prev)
  <2> SUFFICES ASSUME NEW k \in 1..n PROVE g[k] = WalkStep(g[k - 1], start, prev)
    OBVIOUS
  <2>1. k - 1 \in 0..n
    BY <1>1
  <2>2. g[k - 1] \in WalkState
    BY <1>5, <2>1
  <2> QED BY <1>4, <1>5, <2>2 DEF Iterates
<1>7. g = Steps(g)
  <2>1. ASSUME NEW k \in 0..n
        PROVE  g[k] = IF k = 0 THEN WalkStart(start) ELSE WalkStep(g[k - 1], start, prev)
    <3>1. k = 0 \/ k \in 1..n
      BY <1>1
    <3> QED BY <1>5, <1>6, <3>1 DEF Iterates
  <2>2. g = [k \in 0..n |-> g[k]]
    BY <1>5
  <2> QED BY <2>1, <2>2
<1>8. w = Steps(w)
  BY <1>7
<1>9. MoveCursor(start, prev) = w[n].at
  BY DEF MoveCursor, WalkStep, WalkStart, n
<1> HIDE DEF w
<1>10. /\ w[0] = WalkStart(start)
       /\ \A k \in 1..n : w[k] = WalkStep(w[k - 1], start, prev)
  <2>1. \A k \in 0..n : w[k] = IF k = 0 THEN WalkStart(start)
                               ELSE WalkStep(w[k - 1], start, prev)
    BY <1>8
  <2>2. 0 \in 0..n /\ \A k \in 1..n : k \in 0..n /\ k # 0
    BY <1>1
  <2> QED BY <2>1, <2>2
<1>11. w \in [0..n -> WalkState]
  <2> DEFINE right == [k \in 0..n |-> w[k] \in WalkState]
  <2>0. \A k \in 0..n : right[k] <=> w[k] \in WalkState
    OBVIOUS
  <2>1. right \in [0..n -> BOOLEAN]
    OBVIOUS
  <2> HIDE DEF right
  <2>2. right[0]
    BY <1>1, <1>2, <1>10, <2>0
  <2>3. ASSUME NEW k \in 1..n, right[k - 1] PROVE right[k]
    <3>1. k - 1 \in 0..n /\ k \in 0..n
      BY <1>1
    <3>2. w[k - 1] \in WalkState
      BY <2>0, <2>3, <3>1
    <3> QED BY <1>10, <2>0, <3>1, <3>2, WalkStepTyped
  <2>4. \A k \in 0..n : right[k]
    BY <1>1, <2>1, <2>2, <2>3, LeastWrong
  <2>5. w = [k \in 0..n |-> w[k]]
    BY <1>8
  <2> QED BY <2>0, <2>4, <2>5
<1> QED BY <1>9, <1>10, <1>11 DEF n

LEMMA StridesStand ==
  ASSUME ListTypes, NEW page \in Nat, NEW start, Standing(start, page),
         NEW prev \in BOOLEAN, NEW n \in Nat,
         NEW f \in [0..n -> Positions], Strides(f, start, prev, n)
  PROVE  /\ \A k \in 0..n : Standing(f[k], page)
         /\ \A k \in 1..n : \/ f[k].cursor \in RotationBase(page)..RotationEnd(page)
                            \/ f[k].cursor = -1 /\ paging.includeUnselected
<1> DEFINE right == [k \in 0..n |-> Standing(f[k], page)]
<1>1. \A k \in 0..n : right[k] <=> Standing(f[k], page)
  OBVIOUS
<1>2. right \in [0..n -> BOOLEAN]
  BY DEF Standing
<1> HIDE DEF right
<1>3. right[0]
  BY <1>1 DEF Strides
<1>4. ASSUME NEW k \in 1..n, right[k - 1] PROVE right[k]
  <2>1. k - 1 \in 0..n /\ k \in 0..n
    OBVIOUS
  <2>2. Standing(f[k - 1], page) /\ f[k] = Stride(f[k - 1], prev)
    BY <1>1, <1>4, <2>1 DEF Strides
  <2>3. Standing(f[k], page)
    BY <2>2, StrideFacts
  <2> QED BY <1>1, <2>1, <2>3
<1>5. \A k \in 0..n : right[k]
  BY <1>2, <1>3, <1>4, LeastWrong
<1>6. ASSUME NEW k \in 1..n
      PROVE  \/ f[k].cursor \in RotationBase(page)..RotationEnd(page)
             \/ f[k].cursor = -1 /\ paging.includeUnselected
  <2>1. k - 1 \in 0..n
    OBVIOUS
  <2>2. Standing(f[k - 1], page) /\ f[k] = Stride(f[k - 1], prev)
    BY <1>1, <1>5, <2>1 DEF Strides
  <2> DEFINE spot == f[k - 1]
  <2> HIDE DEF spot
  <2>3. \/ Stride(spot, prev).cursor \in RotationBase(page)..RotationEnd(page)
        \/ /\ Stride(spot, prev) = [cursor |-> -1, page |-> spot.page]
           /\ paging.includeUnselected
    BY <2>2, StrideFacts DEF spot
  <2>4. f[k] = Stride(spot, prev)
    BY <2>2 DEF spot
  <2> QED BY <2>3, <2>4
<1> QED BY <1>1, <1>5, <1>6

\* As many numbers as there are cannot all be different.
LEMMA NotAllDifferent ==
  ASSUME NEW n \in Nat, NEW f \in [1..(n + 1) -> 0..(n - 1)]
  PROVE  \E i, k \in 1..(n + 1) : i < k /\ f[i] = f[k]
<1>1. /\ IsFiniteSet(1..(n + 1)) /\ Cardinality(1..(n + 1)) = n + 1
      /\ IsFiniteSet(0..(n - 1)) /\ Cardinality(0..(n - 1)) = n
  BY FS_Interval
<1>2. PICK i, k \in 1..(n + 1) : i # k /\ f[i] = f[k]
  <2> DEFINE S == 1..(n + 1)
             T == 0..(n - 1)
  <2>1. IsFiniteSet(S) /\ IsFiniteSet(T) /\ Cardinality(T) < Cardinality(S) /\ f \in [S -> T]
    BY <1>1
  <2> HIDE DEF S, T
  <2>2. \E i, k \in S : i # k /\ f[i] = f[k]
    BY ONLY <2>1, FS_PigeonHole
  <2> QED BY <2>2 DEF S
<1> QED BY <1>2

\* What the walk leaves when the k-th stride is its last.
Arrives(f, k, start, spot) ==
  /\ Wanders(f, k)
  /\ Returns(f, k) => spot = start
  /\ ~Returns(f, k) => Stops(f[k]) /\ spot = f[k]

LEMMA WalkFacts ==
  ASSUME ListTypes, NEW page \in Nat, NEW start, Standing(start, page),
         NEW prev \in BOOLEAN
  PROVE  \E f \in [0..(TotalSize + 2) -> Positions], k \in 1..(TotalSize + 2) :
           /\ Strides(f, start, prev, TotalSize + 2)
           /\ Arrives(f, k, start, MoveCursor(start, prev))
<1> DEFINE n == TotalSize + 2
<1>1. n \in Nat /\ TotalSize \in Nat /\ start \in Positions /\ PageLength(start.page) > 0
  BY ShownFacts DEF Standing
<1>2. PICK f \in [0..n -> Positions] : Strides(f, start, prev, n)
  BY <1>1, StridesExist
<1>3. PICK w \in [0..n -> WalkState] :
        /\ w[0] = WalkStart(start)
        /\ \A k \in 1..n : w[k] = WalkStep(w[k - 1], start, prev)
        /\ MoveCursor(start, prev) = w[n].at
  BY <1>1, WalkSteps
<1> DEFINE Going(k) == /\ ~w[k].ends /\ w[k].at = f[k]
                       /\ w[k].seen = {f[i].cursor : i \in 0..(k - 1)}
                       /\ Wanders(f, k + 1)
           Ended(k) == w[k].ends /\ \E j \in 1..k : Arrives(f, j, start, w[k].at)
           right == [k \in 0..n |-> Going(k) \/ Ended(k)]
<1>4. Going(0)
  <2>1. /\ WalkStart(start).at = start /\ WalkStart(start).seen = {}
        /\ ~WalkStart(start).ends
    <3>1. (PageLength(start.page) = 0) = FALSE
      BY <1>1
    <3>2. WalkStart(start) = [at |-> start, seen |-> {}, ends |-> FALSE]
      BY <3>1 DEF WalkStart
    <3> QED BY <3>2
  <2>2. {f[i].cursor : i \in 0..(0 - 1)} = {} /\ Wanders(f, 0 + 1)
    BY DEF Wanders
  <2> QED BY <1>2, <1>3, <2>1, <2>2 DEF Strides
<1>5. ASSUME NEW k \in 1..n, Going(k - 1) PROVE Going(k) \/ Ended(k)
  <2>0. k - 1 \in 0..n /\ k \in 0..n /\ k - 1 + 1 = k /\ k + 1 - 1 = k
    BY <1>1
  <2> DEFINE seen == w[k - 1].seen \cup {f[k - 1].cursor}
  <2>1. seen = {f[i].cursor : i \in 0..(k - 1)}
    <3>1. w[k - 1].seen = {f[i].cursor : i \in 0..(k - 1 - 1)}
      BY <1>5
    <3>2. 0..(k - 1) = 0..(k - 1 - 1) \cup {k - 1}
      OBVIOUS
    <3> QED BY <3>1, <3>2
  <2>2. f[k] = Stride(f[k - 1], prev)
    BY <1>2 DEF Strides
  <2>3. w[k] = IF f[k].cursor \in seen THEN [at |-> start, seen |-> seen, ends |-> TRUE]
               ELSE [at |-> f[k], seen |-> seen,
                     ends |-> f[k].cursor < 0 \/ Shown[f[k].cursor + 1] # "holder"]
    BY <1>3, <1>5, <2>2 DEF WalkStep
  <2>4. f[k].cursor \in seen <=> Returns(f, k)
    BY <2>1 DEF Returns
  <2>5. Wanders(f, k)
    BY <1>5, <2>0
  <2> HIDE DEF seen
  <2>6. CASE Returns(f, k)
    <3>1. w[k].ends /\ w[k].at = start
      BY <2>3, <2>4, <2>6
    <3>2. Arrives(f, k, start, w[k].at)
      BY <2>5, <2>6, <3>1 DEF Arrives
    <3> QED BY <3>1, <3>2
  <2>7. CASE ~Returns(f, k)
    <3>1. /\ w[k].at = f[k] /\ w[k].seen = seen
          /\ w[k].ends <=> Stops(f[k])
      <4> DEFINE stops == f[k].cursor < 0 \/ Shown[f[k].cursor + 1] # "holder"
      <4>1. w[k] = [at |-> f[k], seen |-> seen, ends |-> stops]
        BY <2>3, <2>4, <2>7
      <4>2. (stops <=> Stops(f[k])) /\ stops \in BOOLEAN
        BY DEF Stops
      <4> HIDE DEF stops
      <4>3. w[k].at = f[k] /\ w[k].seen = seen
        BY <4>1
      <4>4. w[k].ends <=> stops
        <5>1. CASE stops
          <6>1. w[k] = [at |-> f[k], seen |-> seen, ends |-> TRUE]
            BY <4>1, <4>2, <5>1
          <6> QED BY <5>1, <6>1
        <5>2. CASE ~stops
          <6>1. w[k] = [at |-> f[k], seen |-> seen, ends |-> FALSE]
            BY <4>1, <4>2, <5>2
          <6> QED BY <5>2, <6>1
        <5> QED BY <5>1, <5>2
      <4> QED BY <4>2, <4>3, <4>4
    <3>2. CASE Stops(f[k])
      <4>1. Arrives(f, k, start, w[k].at)
        BY <2>5, <2>7, <3>1, <3>2 DEF Arrives
      <4> QED BY <3>1, <3>2, <4>1
    <3>3. CASE ~Stops(f[k])
      <4>1. Wanders(f, k + 1)
        <5>1. \A i \in 1..(k + 1 - 1) : i = k \/ i \in 1..(k - 1)
          BY <2>0
        <5> QED BY <2>5, <2>7, <3>3, <5>1 DEF Wanders
      <4> QED BY <2>1, <3>1, <3>3, <4>1
    <3> QED BY <3>2, <3>3
  <2> QED BY <2>6, <2>7
<1>6. ASSUME NEW k \in 1..n, Ended(k - 1) PROVE Ended(k)
  <2>1. w[k] = w[k - 1]
    BY <1>3, <1>6 DEF WalkStep
  <2>2. \A j \in 1..(k - 1) : j \in 1..k
    OBVIOUS
  <2> QED BY <1>6, <2>1, <2>2
<1>7. Going(n) \/ Ended(n)
  <2>1. \A k \in 0..n : right[k] <=> Going(k) \/ Ended(k)
    OBVIOUS
  <2>2. right \in [0..n -> BOOLEAN]
    OBVIOUS
  <2> HIDE DEF Going, Ended, right
  <2>3. right[0]
    BY <1>1, <1>4, <2>1
  <2>4. ASSUME NEW k \in 1..n, right[k - 1] PROVE right[k]
    <3>1. k - 1 \in 0..n /\ k \in 0..n
      BY <1>1
    <3> QED BY <1>5, <1>6, <2>1, <2>4, <3>1
  <2>5. \A k \in 0..n : right[k]
    BY <1>1, <2>2, <2>3, <2>4, LeastWrong
  <2> QED BY <1>1, <2>1, <2>5
<1>8. ~Going(n)
  <2> SUFFICES ASSUME Going(n) PROVE FALSE
    OBVIOUS
  <2>0. \A i \in 1..n : \/ f[i].cursor \in RotationBase(page)..RotationEnd(page)
                        \/ f[i].cursor = -1 /\ paging.includeUnselected
    <3> HIDE DEF n, Going, Ended, right
    <3> QED BY ONLY <1>1, <1>2, ListTypes, page \in Nat, Standing(start, page),
               prev \in BOOLEAN, StridesStand
  <2>1. \A i \in 1..n : ~Stops(f[i]) /\ ~Returns(f, i)
    <3>1. Wanders(f, n + 1) /\ n + 1 - 1 = n /\ n \in Nat
      BY <1>1
    <3> HIDE DEF n, Going
    <3> QED BY <3>1 DEF Wanders
  <2>2. /\ RotationBase(page) \in Nat /\ RotationEnd(page) \in Nat
        /\ RotationEnd(page) < TotalSize
    BY RotationFacts
  <2>3. ASSUME NEW i \in 1..(TotalSize + 1) PROVE f[i].cursor \in 0..(TotalSize - 1)
    <3>1. i \in 1..n
      BY <1>1
    <3>2. ~(f[i].cursor < 0)
      BY <2>1, <3>1 DEF Stops
    <3>3. \/ f[i].cursor \in RotationBase(page)..RotationEnd(page)
          \/ f[i].cursor = -1 /\ paging.includeUnselected
      BY <2>0, <3>1
    <3> QED BY <1>1, <2>2, <3>2, <3>3
  <2> DEFINE g == [i \in 1..(TotalSize + 1) |-> f[i].cursor]
  <2>4. g \in [1..(TotalSize + 1) -> 0..(TotalSize - 1)]
    BY <2>3
  <2>5. \A i \in 1..(TotalSize + 1) : g[i] = f[i].cursor
    OBVIOUS
  <2> HIDE DEF g
  <2>6. PICK i \in 1..(TotalSize + 1), k \in 1..(TotalSize + 1) : i < k /\ g[i] = g[k]
    BY <1>1, <2>4, NotAllDifferent
  <2>7. i \in 0..(k - 1) /\ k \in 1..n
    BY <1>1, <2>6
  <2>8. Returns(f, k)
    BY <2>5, <2>6, <2>7 DEF Returns
  <2> QED BY <2>1, <2>7, <2>8
<1>9. PICK k \in 1..n : Arrives(f, k, start, w[n].at)
  BY <1>7, <1>8
<1> HIDE DEF n
<1>10. Arrives(f, k, start, MoveCursor(start, prev))
  BY <1>3, <1>9
<1> QED BY <1>2, <1>10 DEF n

\* A step from a candidate is taken back by one in the other direction.
LEMMA StepBack ==
  ASSUME ListTypes, NEW page \in Nat, NEW start, Standing(start, page),
         NEW prev \in BOOLEAN, Selectable(start.cursor)
  PROVE  MoveCursor(MoveCursor(start, prev), ~prev) = start
<1> DEFINE n == TotalSize + 2
           base == RotationBase(page)
           end == RotationEnd(page)
           to == MoveCursor(start, prev)
           back == MoveCursor(to, ~prev)
<1>1. n \in Nat /\ TotalSize \in Nat /\ (~prev) \in BOOLEAN
  BY ShownFacts
<1>2. base \in Nat /\ end \in Nat
  BY RotationFacts
<1>3. start.cursor \in base..end
  <2>1. start.cursor \in Nat /\ start.cursor < TotalSize /\ OnPage(start.cursor, start.page)
    BY <1>1 DEF Selectable, Standing
  <2> QED BY <2>1, RotationFacts
<1>4. PICK f \in [0..n -> Positions], k \in 1..n :
        Strides(f, start, prev, n) /\ Arrives(f, k, start, to)
  BY WalkFacts
<1> HIDE DEF n, base, end, to, back
<1>5. /\ \A i \in 0..n : Standing(f[i], page)
      /\ \A i \in 1..n : \/ f[i].cursor \in base..end
                         \/ f[i].cursor = -1 /\ paging.includeUnselected
  BY <1>1, <1>4, StridesStand DEF base, end
<1>6. /\ f[0] = start /\ \A i \in 1..n : f[i] = Stride(f[i - 1], prev)
      /\ \A i \in 1..(k - 1) : ~Stops(f[i])
      /\ \A i \in 1..(k - 1) : ~Returns(f, i)
  BY <1>4 DEF Strides, Arrives, Wanders
<1>7. ASSUME NEW i \in 0..(k - 1) PROVE f[i].cursor \in base..end
  <2>1. CASE i = 0
    BY <1>3, <1>6, <2>1
  <2>2. CASE i # 0
    <3>1. i \in 1..(k - 1) /\ i \in 1..n
      BY <1>1, <2>2
    <3>2. ~(f[i].cursor < 0)
      BY <1>6, <3>1 DEF Stops
    <3> QED BY <1>5, <3>1, <3>2
  <2> QED BY <2>1, <2>2
<1>8. ASSUME NEW i \in 1..k PROVE f[i - 1] = Stride(f[i], ~prev)
  <2>1. i - 1 \in 0..(k - 1) /\ i - 1 \in 0..n /\ i \in 1..n
    BY <1>1
  <2> DEFINE spot == f[i - 1]
  <2>2. Standing(spot, page) /\ spot.cursor \in base..end /\ f[i] = Stride(spot, prev)
    BY <1>5, <1>6, <1>7, <2>1
  <2> HIDE DEF spot
  <2>3. Stride(Stride(spot, prev), ~prev) = spot
    BY <2>2, StrideBack DEF base, end
  <2>4. Stride(f[i], ~prev) = spot
    BY <2>2, <2>3
  <2> QED BY <2>4 DEF spot
<1>9. to = f[k] /\ (Returns(f, k) => to = start)
  <2>1. CASE ~Returns(f, k)
    BY <1>4, <2>1 DEF Arrives
  <2>2. CASE Returns(f, k)
    <3>1. to = start
      BY <1>4, <2>2 DEF Arrives
    <3>2. PICK i \in 0..(k - 1) : f[k].cursor = f[i].cursor
      BY <2>2 DEF Returns
    <3>3. f[k] = f[i]
      <4>1. Standing(f[k], page) /\ Standing(f[i], page)
        BY <1>1, <1>5
      <4>2. f[k].cursor >= 0
        BY <1>2, <1>7, <3>2
      <4> DEFINE one == f[k]
                 other == f[i]
      <4>3. one.cursor = other.cursor
        BY <3>2
      <4> HIDE DEF one, other
      <4> QED BY <4>1, <4>2, <4>3, OnePage DEF one, other
    <3>4. i = 0
      <4> SUFFICES ASSUME i # 0 PROVE FALSE
        OBVIOUS
      <4>1. i \in 1..k /\ k \in 1..k /\ k - 1 \in 1..(k - 1) /\ i - 1 \in 0..(k - 1 - 1)
        BY <1>1
      <4>2. f[k - 1] = f[i - 1]
        BY <1>8, <3>3, <4>1
      <4>3. Returns(f, k - 1)
        BY <4>1, <4>2 DEF Returns
      <4> QED BY <1>6, <4>1, <4>3
    <3> QED BY <1>6, <3>1, <3>3, <3>4
  <2> QED BY <2>1, <2>2
<1>10. Standing(to, page)
  BY <1>1, <1>5, <1>9
<1>11. PICK h \in [0..n -> Positions], m \in 1..n :
         Strides(h, to, ~prev, n) /\ Arrives(h, m, to, back)
  BY <1>1, <1>10, WalkFacts DEF n, back
<1>12. ASSUME NEW j \in 0..k PROVE h[j] = f[k - j]
  <2> DEFINE right == [i \in 0..k |-> h[i] = f[k - i]]
  <2>1. \A i \in 0..k : right[i] <=> h[i] = f[k - i]
    OBVIOUS
  <2>2. right \in [0..k -> BOOLEAN]
    OBVIOUS
  <2> HIDE DEF right
  <2>3. right[0]
    <3>1. 0 \in 0..k /\ k - 0 = k
      OBVIOUS
    <3> QED BY <1>9, <1>11, <2>1, <3>1 DEF Strides
  <2>4. ASSUME NEW i \in 1..k, right[i - 1] PROVE right[i]
    <3>1. /\ i \in 1..n /\ i - 1 \in 0..k /\ i \in 0..k
          /\ k - (i - 1) \in 1..k /\ k - (i - 1) - 1 = k - i
      BY <1>1
    <3>2. h[i] = Stride(h[i - 1], ~prev) /\ h[i - 1] = f[k - (i - 1)]
      BY <1>11, <2>1, <2>4, <3>1 DEF Strides
    <3>3. f[k - (i - 1) - 1] = Stride(f[k - (i - 1)], ~prev)
      BY <1>8, <3>1
    <3> QED BY <2>1, <3>1, <3>2, <3>3
  <2>5. k \in Nat
    OBVIOUS
  <2>6. \A i \in 0..k : right[i]
    BY <2>2, <2>3, <2>4, <2>5, LeastWrong
  <2> QED BY <2>1, <2>6
<1>13. /\ \A i \in 1..(m - 1) : ~Stops(h[i])
       /\ Returns(h, m) => back = to
       /\ ~Returns(h, m) => Stops(h[m]) /\ back = h[m]
  BY <1>11 DEF Arrives, Wanders
<1>14. m <= k
  <2> SUFFICES ASSUME m > k PROVE FALSE
    BY <1>1
  <2>1. k \in 1..(m - 1) /\ k \in 0..k /\ k - k = 0
    BY <1>1
  <2>2. h[k] = start
    BY <1>6, <1>12, <2>1
  <2>3. Stops(start)
    BY DEF Selectable, Stops
  <2> QED BY <1>13, <2>1, <2>2, <2>3
<1>15. CASE Returns(h, m)
  <2>1. PICK i \in 0..(m - 1) : h[m].cursor = h[i].cursor
    BY <1>15 DEF Returns
  <2>2. /\ m \in 0..k /\ i \in 0..k /\ k - i \in 1..k /\ k - m \in 0..(k - i - 1)
        /\ k - i = k \/ k - i \in 1..(k - 1)
    BY <1>14
  <2>3. f[k - i].cursor = f[k - m].cursor
    BY <1>12, <2>1, <2>2
  <2>4. Returns(f, k - i)
    BY <2>2, <2>3 DEF Returns
  <2>5. Returns(f, k)
    BY <1>6, <2>2, <2>4
  <2> QED BY <1>9, <1>13, <1>15, <2>5 DEF back, to
<1>16. CASE ~Returns(h, m)
  <2>1. Stops(h[m]) /\ back = h[m]
    BY <1>13, <1>16
  <2>2. m \in 0..k /\ h[m] = f[k - m]
    BY <1>12, <1>14
  <2>3. m = k
    <3> SUFFICES ASSUME m # k PROVE FALSE
      OBVIOUS
    <3>1. k - m \in 1..(k - 1)
      BY <1>14
    <3> QED BY <1>6, <2>1, <2>2, <3>1
  <2>4. k - m = 0
    BY <2>3
  <2> QED BY <1>6, <2>1, <2>2, <2>4 DEF back, to
<1> QED BY <1>15, <1>16

LEMMA MoveTyped ==
  ASSUME ListTypes, NEW start \in Positions, NEW prev \in BOOLEAN
  PROVE  MoveCursor(start, prev) \in Positions
<1>1. TotalSize + 2 \in 0..(TotalSize + 2)
  BY ShownFacts
<1>2. PICK w \in [0..(TotalSize + 2) -> WalkState] :
        MoveCursor(start, prev) = w[TotalSize + 2].at
  BY WalkSteps
<1>3. w[TotalSize + 2] \in WalkState
  BY <1>1, <1>2
<1> QED BY <1>2, <1>3 DEF WalkState

\* The cursor is moved to a candidate, to nowhere, or not at all.
LEMMA MoveFacts ==
  ASSUME ListTypes, NEW page \in Nat, NEW start, Standing(start, page),
         NEW prev \in BOOLEAN
  PROVE  /\ Standing(MoveCursor(start, prev), page)
         /\ \/ MoveCursor(start, prev) = start
            \/ MoveCursor(start, prev).cursor = -1
            \/ /\ Selectable(MoveCursor(start, prev).cursor)
               /\ MoveCursor(start, prev).cursor \in RotationBase(page)..RotationEnd(page)
<1> DEFINE n == TotalSize + 2
           to == MoveCursor(start, prev)
           base == RotationBase(page)
           end == RotationEnd(page)
<1>1. n \in Nat /\ TotalSize \in Nat
  BY ShownFacts
<1>2. base \in Nat /\ end \in Nat /\ end < TotalSize
  BY RotationFacts
<1>3. PICK f \in [0..n -> Positions], k \in 1..n :
        Strides(f, start, prev, n) /\ Arrives(f, k, start, to)
  BY WalkFacts
<1> HIDE DEF n, to, base, end
<1>4. /\ Standing(f[k], page)
      /\ \/ f[k].cursor \in base..end
         \/ f[k].cursor = -1 /\ paging.includeUnselected
  <2>1. k \in 0..n
    BY <1>1
  <2> QED BY <1>1, <1>3, <2>1, StridesStand DEF base, end
<1>5. CASE to = start
  BY <1>5 DEF to
<1>6. CASE to = f[k] /\ Stops(f[k])
  <2>1. CASE to.cursor = -1
    BY <1>4, <1>6, <2>1 DEF to
  <2>2. CASE to.cursor \in base..end
    <3>1. Shown[to.cursor + 1] # "holder"
      BY <1>2, <1>6, <2>2 DEF Stops
    <3>2. to.cursor \in 0..(TotalSize - 1)
      BY <1>1, <1>2, <2>2
    <3> QED BY <1>4, <1>6, <2>2, <3>1, <3>2 DEF to, base, end, Selectable
  <2> QED BY <1>4, <1>6, <2>1, <2>2
<1> QED BY <1>3, <1>5, <1>6 DEF Arrives

\* How many strides it takes from a place in the rotation to another one.
Far(c, target, base, end, prev) ==
  LET detour == IF paging.includeUnselected THEN 1 ELSE 0
  IN  IF c < 0 THEN 1 + (IF prev THEN end - target ELSE target - base)
      ELSE IF prev
      THEN IF c >= target THEN c - target ELSE (c - base) + detour + (end - target) + 1
      ELSE IF c <= target THEN target - c ELSE (end - c) + detour + (target - base) + 1

LEMMA FarFacts ==
  ASSUME NEW base \in Nat, NEW end \in Nat, NEW target \in base..end, NEW prev \in BOOLEAN,
         NEW c \in Int, c \in base..end \/ (c = -1 /\ paging.includeUnselected)
  PROVE  /\ Far(c, target, base, end, prev) \in Nat
         /\ Far(c, target, base, end, prev)
              <= end - base + (IF paging.includeUnselected THEN 1 ELSE 0)
         /\ Far(c, target, base, end, prev) = 0 <=> c = target
<1>1. CASE prev
  BY <1>1 DEF Far
<1>2. CASE ~prev
  BY <1>2 DEF Far
<1> QED BY <1>1, <1>2

LEMMA FarNext ==
  ASSUME NEW base \in Nat, NEW end \in Nat, NEW target \in base..end, NEW prev \in BOOLEAN,
         NEW c \in base..end, c # target
  PROVE  Far(NextIn(c, base, end, prev), target, base, end, prev)
           = Far(c, target, base, end, prev) - 1
<1>1. CASE prev
  BY <1>1 DEF Far, NextIn
<1>2. CASE ~prev
  BY <1>2 DEF Far, NextIn
<1> QED BY <1>1, <1>2

LEMMA FarNowhere ==
  ASSUME NEW base \in Nat, NEW end \in Nat, NEW target \in base..end, NEW prev \in BOOLEAN
  PROVE  Far(IF prev THEN end ELSE base, target, base, end, prev)
           = Far(-1, target, base, end, prev) - 1
<1>1. CASE prev
  BY <1>1 DEF Far
<1>2. CASE ~prev
  BY <1>2 DEF Far
<1> QED BY <1>1, <1>2

\* Each stride comes nearer to a place that it does not leave.
LEMMA StrideNearer ==
  ASSUME ListTypes, NEW page \in Nat, NEW spot, Standing(spot, page), NEW prev \in BOOLEAN,
         paging.keepInSamePage \/ ~paging.includeUnselected,
         NEW target \in RotationBase(page)..RotationEnd(page),
         \/ spot.cursor \in RotationBase(page)..RotationEnd(page)
         \/ spot.cursor = -1 /\ paging.includeUnselected,
         spot.cursor # target
  PROVE  Far(Stride(spot, prev).cursor, target, RotationBase(page), RotationEnd(page), prev)
           = Far(spot.cursor, target, RotationBase(page), RotationEnd(page), prev) - 1
<1> DEFINE base == RotationBase(page)
           end == RotationEnd(page)
           to == Stride(spot, prev)
           c == spot.cursor
<1>1. base \in Nat /\ end \in Nat /\ c \in Int
  BY RotationFacts DEF Standing, Positions
<1>2. CASE c < 0
  <2>1. paging.includeUnselected /\ paging.keepInSamePage
    BY <1>1, <1>2
  <2>2. to.cursor = EndOfPage(page, prev)
    <3>1. spot.page = page
      BY <2>1 DEF Standing
    <3>2. to = [cursor |-> EndOfPage(spot.page, prev), page |-> spot.page]
      BY <1>2, StrideFacts
    <3> QED BY <3>1, <3>2
  <2>3. EndOfPage(page, prev) = IF prev THEN end ELSE base
    <3>1. PageBegin(page) \in Nat /\ PageLength(page) \in Nat
      BY PageFacts
    <3> QED BY <2>1, <3>1 DEF EndOfPage, RotationBase, RotationEnd
  <2>4. c = -1
    BY <1>1, <1>2
  <2> HIDE DEF to, base, end, c
  <2>5. to.cursor = IF prev THEN end ELSE base
    BY <2>2, <2>3
  <2>6. Far(to.cursor, target, base, end, prev) = Far(c, target, base, end, prev) - 1
    BY <1>1, <2>4, <2>5, FarNowhere DEF base, end
  <2> QED BY <2>6 DEF to, base, end, c
<1>3. CASE ~(c < 0)
  <2>1. to.cursor = NextIn(c, base, end, prev)
    BY <1>1, <1>3, StrideFacts
  <2>2. c \in base..end /\ target \in base..end /\ c # target
    BY <1>1, <1>3
  <2> HIDE DEF to, base, end, c
  <2>3. Far(to.cursor, target, base, end, prev) = Far(c, target, base, end, prev) - 1
    BY <1>1, <2>1, <2>2, FarNext
  <2> QED BY <2>3 DEF to, base, end, c
<1> QED BY <1>2, <1>3

\* How many strides it takes from any place, one at least.
StridesTo(spot, target, page, prev) ==
  1 + Far(Stride(spot, prev).cursor, target, RotationBase(page), RotationEnd(page), prev)

LEMMA StridesToFacts ==
  ASSUME ListTypes, NEW page \in Nat, NEW spot, Standing(spot, page), NEW prev \in BOOLEAN,
         NEW target \in RotationBase(page)..RotationEnd(page)
  PROVE  StridesTo(spot, target, page, prev) \in 1..(TotalSize + 1)
<1> DEFINE base == RotationBase(page)
           end == RotationEnd(page)
           c == Stride(spot, prev).cursor
<1>1. base \in Nat /\ end \in Nat /\ end < TotalSize /\ TotalSize \in Nat
  BY RotationFacts, ShownFacts
<1>2. c \in base..end \/ (c = -1 /\ paging.includeUnselected)
  <2> DEFINE to == Stride(spot, prev)
  <2>1. to.cursor \in base..end \/ (to = [cursor |-> -1, page |-> spot.page]
                                     /\ paging.includeUnselected)
    BY StrideFacts
  <2> HIDE DEF to
  <2>2. to.cursor \in base..end \/ (to.cursor = -1 /\ paging.includeUnselected)
    BY <2>1
  <2> QED BY <2>2 DEF to
<1> HIDE DEF base, end, c
<1>3. c \in Int
  BY <1>1, <1>2
<1>4. /\ Far(c, target, base, end, prev) \in Nat
      /\ Far(c, target, base, end, prev)
           <= end - base + (IF paging.includeUnselected THEN 1 ELSE 0)
  BY <1>1, <1>2, <1>3, FarFacts DEF base, end
<1>5. 1 + Far(c, target, base, end, prev) \in 1..(TotalSize + 1)
  BY <1>1, <1>4
<1> QED BY <1>5 DEF StridesTo, base, end, c

\* A step comes to the candidate, or nearer to it.
LEMMA MoveNearer ==
  ASSUME ListTypes, NEW page \in Nat, NEW start, Standing(start, page),
         NEW prev \in BOOLEAN, paging.keepInSamePage \/ ~paging.includeUnselected,
         NEW target \in RotationBase(page)..RotationEnd(page), Selectable(target),
         MoveCursor(start, prev).cursor # target
  PROVE  StridesTo(MoveCursor(start, prev), target, page, prev)
           <= StridesTo(start, target, page, prev) - 1
<1> DEFINE n == TotalSize + 2
           base == RotationBase(page)
           end == RotationEnd(page)
           to == MoveCursor(start, prev)
           far(spot) == Far(spot.cursor, target, base, end, prev)
           q == StridesTo(start, target, page, prev)
<1>1. n \in Nat /\ TotalSize \in Nat
  BY ShownFacts
<1>2. base \in Nat /\ end \in Nat
  BY RotationFacts
<1>3. PICK f \in [0..n -> Positions], k \in 1..n :
        Strides(f, start, prev, n) /\ Arrives(f, k, start, to)
  BY WalkFacts
<1>4. q \in Nat
  BY <1>1, StridesToFacts
<1> HIDE DEF n, base, end, to, far, q
<1>5. /\ \A i \in 0..n : Standing(f[i], page)
      /\ \A i \in 1..n : \/ f[i].cursor \in base..end
                         \/ f[i].cursor = -1 /\ paging.includeUnselected
  BY <1>1, <1>3, StridesStand DEF base, end
<1>6. /\ f[0] = start /\ \A i \in 1..n : f[i] = Stride(f[i - 1], prev)
      /\ \A i \in 1..(k - 1) : ~Stops(f[i])
      /\ Returns(f, k) => to = start
      /\ ~Returns(f, k) => to = f[k]
  BY <1>3 DEF Strides, Arrives, Wanders
<1>7. ASSUME NEW spot, Standing(spot, page), spot.cursor # target,
             \/ spot.cursor \in base..end
             \/ spot.cursor = -1 /\ paging.includeUnselected
      PROVE  far(spot) = StridesTo(spot, target, page, prev)
  <2>1. far(Stride(spot, prev)) = far(spot) - 1
    BY <1>7, StrideNearer DEF far, base, end
  <2>2. far(spot) \in Int
    <3> DEFINE c == spot.cursor
    <3>1. c \in base..end \/ (c = -1 /\ paging.includeUnselected)
      BY <1>7
    <3> HIDE DEF c
    <3>2. c \in Int
      BY <1>2, <3>1
    <3>3. Far(c, target, base, end, prev) \in Nat
      BY <1>2, <3>1, <3>2, FarFacts DEF base, end
    <3> QED BY <3>3 DEF far, c
  <2>3. far(Stride(spot, prev)) \in Int
    BY <2>1, <2>2
  <2> QED BY <2>1, <2>2, <2>3 DEF StridesTo, far, base, end
<1>8. \A i \in 1..k : far(f[i]) = q - i
  <2> DEFINE right == [i \in 0..k |-> i > 0 => far(f[i]) = q - i]
  <2>1. \A i \in 0..k : right[i] <=> (i > 0 => far(f[i]) = q - i)
    OBVIOUS
  <2>2. right \in [0..k -> BOOLEAN]
    OBVIOUS
  <2> HIDE DEF right
  <2>3. right[0]
    BY <2>1
  <2>4. ASSUME NEW i \in 1..k, right[i - 1] PROVE right[i]
    <3>0. i \in 1..n /\ i - 1 \in 0..n /\ i - 1 \in 0..k /\ i \in 0..k
      BY <1>1
    <3>1. f[i] = Stride(f[i - 1], prev) /\ Standing(f[i - 1], page)
      BY <1>5, <1>6, <3>0
    <3>2. StridesTo(f[i - 1], target, page, prev) = 1 + far(f[i])
      BY <3>1 DEF StridesTo, far, base, end
    <3>3. far(f[i]) \in Int
      <4>1. \/ f[i].cursor \in base..end
            \/ f[i].cursor = -1 /\ paging.includeUnselected
        BY <1>5, <3>0
      <4> DEFINE c == f[i].cursor
      <4>2. c \in Int
        BY <1>2, <4>1
      <4> HIDE DEF c
      <4>3. Far(c, target, base, end, prev) \in Nat
        BY <1>2, <4>1, <4>2, FarFacts DEF c, base, end
      <4> QED BY <4>3 DEF far, c
    <3>4. CASE i = 1
      <4>1. StridesTo(f[i - 1], target, page, prev) = q
        BY <1>6, <3>4 DEF q
      <4> QED BY <1>4, <2>1, <3>0, <3>2, <3>3, <3>4, <4>1
    <3>5. CASE i # 1
      <4>1. i - 1 \in 1..(k - 1) /\ i - 1 \in 1..n
        BY <1>1, <3>5
      <4> DEFINE spot == f[i - 1]
      <4>2. /\ Standing(spot, page) /\ ~Stops(spot)
            /\ \/ spot.cursor \in base..end
               \/ spot.cursor = -1 /\ paging.includeUnselected
        BY <1>5, <1>6, <3>1, <4>1
      <4> HIDE DEF spot
      <4>3. spot.cursor # target
        BY <4>2 DEF Stops, Selectable
      <4>4. far(spot) = StridesTo(spot, target, page, prev)
        BY <1>7, <4>2, <4>3
      <4>5. far(spot) = q - (i - 1)
        BY <2>1, <2>4, <3>0, <4>1 DEF spot
      <4>6. q - (i - 1) = 1 + far(f[i])
        BY <3>2, <4>4, <4>5 DEF spot
      <4>7. far(f[i]) = q - i
        BY <1>4, <3>3, <4>6
      <4> QED BY <2>1, <3>0, <4>7
    <3> QED BY <3>4, <3>5
  <2>5. \A i \in 0..k : right[i]
    <3>1. k \in Nat
      OBVIOUS
    <3> QED BY <2>2, <2>3, <2>4, <3>1, LeastWrong
  <2>6. \A i \in 1..k : i \in 0..k /\ i > 0
    OBVIOUS
  <2> QED BY <2>1, <2>5, <2>6
<1>9. to.cursor # target /\ k \in 1..n /\ k \in 0..n /\ k \in 1..k
  BY <1>1 DEF to
<1>10. CASE ~Returns(f, k)
  <2> DEFINE spot == f[k]
  <2>1. /\ to = spot /\ Standing(spot, page)
        /\ \/ spot.cursor \in base..end
           \/ spot.cursor = -1 /\ paging.includeUnselected
    BY <1>5, <1>6, <1>9, <1>10
  <2>2. far(spot) = q - k
    BY <1>8, <1>9
  <2> HIDE DEF spot
  <2>3. far(to) = StridesTo(to, target, page, prev)
    BY <1>7, <1>9, <2>1
  <2>4. StridesTo(to, target, page, prev) <= q - 1
    BY <1>4, <2>1, <2>2, <2>3
  <2> QED BY <2>4 DEF to, q
<1>11. ~Returns(f, k)
  <2> SUFFICES ASSUME Returns(f, k) PROVE FALSE
    OBVIOUS
  <2>1. PICK i \in 0..(k - 1) : f[k].cursor = f[i].cursor
    BY DEF Returns
  <2>2. far(f[k]) = q - k /\ far(f[i]) = far(f[k])
    BY <1>8, <1>9, <2>1 DEF far
  <2>3. i = 0
    <3> SUFFICES ASSUME i # 0 PROVE FALSE
      OBVIOUS
    <3>1. i \in 1..k
      OBVIOUS
    <3>2. far(f[i]) = q - i
      BY <1>8, <3>1
    <3> QED BY <1>4, <2>2, <3>2
  <2>4. to = start /\ f[i] = start
    BY <1>6, <2>3
  <2>5. \/ start.cursor \in base..end
        \/ start.cursor = -1 /\ paging.includeUnselected
    BY <1>5, <1>9, <2>1, <2>4
  <2>6. far(start) = q
    BY <1>7, <1>9, <2>4, <2>5 DEF q
  <2> QED BY <1>4, <2>2, <2>4, <2>6
<1> QED BY <1>10, <1>11

\* The steps in one direction, one after another.
LEMMA ReachedSteps ==
  ASSUME ListTypes, NEW prev \in BOOLEAN
  PROVE  \E g \in [0..(TotalSize + 2) -> Positions] :
           /\ g[0] = Here
           /\ \A k \in 1..(TotalSize + 2) : g[k] = MoveCursor(g[k - 1], prev)
           /\ Reached(prev) = {g[k].cursor : k \in 1..(TotalSize + 2)}
<1> DEFINE n == TotalSize + 2
           Steps(h) == [k \in 0..n |-> IF k = 0 THEN Here ELSE MoveCursor(h[k - 1], prev)]
           passed == CHOOSE h : h = Steps(h)
           step == [a \in (1..n) \X Positions |-> MoveCursor(a[2], prev)]
<1>1. n \in Nat
  BY ShownFacts
<1>2. Here \in Positions
  BY DEF Here, Positions, ListTypes
<1>3. step \in [(1..n) \X Positions -> Positions]
  BY MoveTyped
<1>4. ASSUME NEW k \in 1..n, NEW spot \in Positions
      PROVE  step[<<k, spot>>] = MoveCursor(spot, prev)
  OBVIOUS
<1> HIDE DEF step, n
<1>5. PICK g \in [0..n -> Positions] : Iterates(g, Here, step, n)
  BY <1>1, <1>2, <1>3, RecursionExists
<1>6. \A k \in 1..n : g[k] = MoveCursor(g[k - 1], prev)
  <2> SUFFICES ASSUME NEW k \in 1..n PROVE g[k] = MoveCursor(g[k - 1], prev)
    OBVIOUS
  <2>1. k - 1 \in 0..n
    BY <1>1
  <2>2. g[k - 1] \in Positions
    BY <1>5, <2>1
  <2> QED BY <1>4, <1>5, <2>2 DEF Iterates
<1>7. g = Steps(g)
  <2>1. ASSUME NEW k \in 0..n
        PROVE  g[k] = IF k = 0 THEN Here ELSE MoveCursor(g[k - 1], prev)
    <3>1. k = 0 \/ k \in 1..n
      BY <1>1
    <3> QED BY <1>5, <1>6, <3>1 DEF Iterates
  <2>2. g = [k \in 0..n |-> g[k]]
    BY <1>5
  <2> QED BY <2>1, <2>2
<1>8. passed = Steps(passed)
  BY <1>7
<1>9. Reached(prev) = {passed[k].cursor : k \in 1..n}
  BY DEF Reached, n
<1> HIDE DEF passed
<1>10. /\ passed[0] = Here
       /\ \A k \in 1..n : passed[k] = MoveCursor(passed[k - 1], prev)
  <2>1. \A k \in 0..n : passed[k] = IF k = 0 THEN Here ELSE MoveCursor(passed[k - 1], prev)
    BY <1>8
  <2>2. 0 \in 0..n /\ \A k \in 1..n : k \in 0..n /\ k # 0
    BY <1>1
  <2> QED BY <2>1, <2>2
<1>11. passed \in [0..n -> Positions]
  <2> DEFINE right == [k \in 0..n |-> passed[k] \in Positions]
  <2>0. \A k \in 0..n : right[k] <=> passed[k] \in Positions
    OBVIOUS
  <2>1. right \in [0..n -> BOOLEAN]
    OBVIOUS
  <2> HIDE DEF right
  <2>2. right[0]
    BY <1>1, <1>2, <1>10, <2>0
  <2>3. ASSUME NEW k \in 1..n, right[k - 1] PROVE right[k]
    <3>1. k - 1 \in 0..n /\ k \in 0..n
      BY <1>1
    <3>2. passed[k - 1] \in Positions
      BY <2>0, <2>3, <3>1
    <3> QED BY <1>10, <2>0, <3>1, <3>2, MoveTyped
  <2>4. \A k \in 0..n : right[k]
    BY <1>1, <2>1, <2>2, <2>3, LeastWrong
  <2>5. passed = [k \in 0..n |-> passed[k]]
    BY <1>8
  <2> QED BY <2>0, <2>4, <2>5
<1> QED BY <1>9, <1>10, <1>11 DEF n

LEMMA TypesGiveWalks == ListTypes => CursorWalks
<1> SUFFICES ASSUME ListTypes, PageLength(currentPage) > 0,
                    cursorIndex < 0 \/ OnPage(cursorIndex, currentPage),
                    NEW prev \in BOOLEAN
             PROVE  /\ Reached(prev) \ {-1, cursorIndex} \subseteq Targets
                    /\ paging.keepInSamePage \/ ~paging.includeUnselected
                         => Targets \subseteq Reached(prev)
                    /\ Selectable(cursorIndex)
                         => MoveCursor(MoveCursor(Here, prev), ~prev) = Here
  BY DEF CursorWalks
<1> DEFINE n == TotalSize + 2
           base == RotationBase(currentPage)
           end == RotationEnd(currentPage)
<1>1. n \in Nat /\ TotalSize \in Nat /\ currentPage \in Nat /\ pageSize \in Nat
  BY ShownFacts DEF ListTypes
<1>2. Here.cursor = cursorIndex /\ Here.page = currentPage /\ Standing(Here, currentPage)
  BY DEF Here, Standing, Positions, ListTypes
<1>3. base \in Nat /\ end \in Nat /\ end < TotalSize
  BY <1>1, <1>2, RotationFacts
<1>4. PICK g \in [0..n -> Positions] :
        /\ g[0] = Here
        /\ \A k \in 1..n : g[k] = MoveCursor(g[k - 1], prev)
        /\ Reached(prev) = {g[k].cursor : k \in 1..n}
  BY ReachedSteps
<1>5. ASSUME NEW c PROVE c \in Targets <=> Selectable(c) /\ c \in base..end
  <2>1. CASE paging.keepInSamePage
    <3>1. /\ PageBegin(currentPage) \in Nat /\ PageLength(currentPage) \in Nat
          /\ PageLength(currentPage) <= pageSize
          /\ base = PageBegin(currentPage)
          /\ end = PageBegin(currentPage) + PageLength(currentPage) - 1
      BY <1>1, <2>1, PageFacts DEF RotationBase, RotationEnd
    <3>2. c \in Targets <=> /\ c \in PageBegin(currentPage)..(PageBegin(currentPage) + pageSize - 1)
                            /\ Selectable(c)
      BY <2>1 DEF Targets
    <3>3. ASSUME Selectable(c), c \in PageBegin(currentPage)..(PageBegin(currentPage) + pageSize - 1)
          PROVE  c \in base..end
      <4>1. c \in Nat /\ c < TotalSize
        BY <1>1, <3>3 DEF Selectable
      <4>2. OnPage(c, currentPage)
        <5>1. PageBegin(currentPage) <= c /\ c < PageBegin(currentPage) + pageSize
          BY <1>1, <3>1, <3>3, <4>1
        <5>2. \A d \in Nat : OnPage(d, currentPage) <=>
                /\ PageBegin(currentPage) <= d
                /\ d < PageBegin(currentPage) + pageSize
          BY <1>1, PageFacts
        <5> QED BY <4>1, <5>1, <5>2
      <4>3. c < PageBegin(currentPage) + PageLength(currentPage)
        BY <1>1, <4>1, <4>2, PageFacts
      <4> QED BY <3>1, <3>3, <4>1, <4>3
    <3>4. c \in base..end => c \in PageBegin(currentPage)..(PageBegin(currentPage) + pageSize - 1)
      BY <1>1, <3>1
    <3> QED BY <3>2, <3>3, <3>4
  <2>2. CASE ~paging.keepInSamePage
    BY <2>2 DEF Targets, Selectable, RotationBase, RotationEnd
  <2> QED BY <2>1, <2>2
<1> HIDE DEF n, base, end
<1> DEFINE Fits(k) == /\ Standing(g[k], currentPage)
                      /\ g[k].cursor \in {-1, cursorIndex} \cup Targets
<1>6. \A k \in 0..n : Fits(k)
  <2> DEFINE right == [k \in 0..n |-> Fits(k)]
  <2>0. \A k \in 0..n : right[k] <=> Fits(k)
    OBVIOUS
  <2>1. right \in [0..n -> BOOLEAN]
    BY DEF Standing
  <2> HIDE DEF right
  <2>2. right[0]
    BY <1>1, <1>2, <1>4, <2>0
  <2>3. ASSUME NEW k \in 1..n, right[k - 1] PROVE right[k]
    <3>1. k - 1 \in 0..n /\ k \in 0..n
      BY <1>1
    <3> DEFINE spot == g[k - 1]
    <3>2. /\ Standing(spot, currentPage) /\ spot.cursor \in {-1, cursorIndex} \cup Targets
          /\ g[k] = MoveCursor(spot, prev)
      BY <1>4, <2>0, <2>3, <3>1
    <3> HIDE DEF spot
    <3>3. /\ Standing(MoveCursor(spot, prev), currentPage)
          /\ \/ MoveCursor(spot, prev) = spot
             \/ MoveCursor(spot, prev).cursor = -1
             \/ /\ Selectable(MoveCursor(spot, prev).cursor)
                /\ MoveCursor(spot, prev).cursor \in base..end
      BY <1>1, <3>2, MoveFacts DEF base, end
    <3>4. MoveCursor(spot, prev).cursor \in {-1, cursorIndex} \cup Targets
      BY <1>5, <3>2, <3>3
    <3> QED BY <2>0, <3>1, <3>2, <3>3, <3>4
  <2> HIDE DEF Fits
  <2>4. \A k \in 0..n : right[k]
    BY <1>1, <2>1, <2>2, <2>3, LeastWrong
  <2> QED BY <2>0, <2>4
<1>7. Reached(prev) \ {-1, cursorIndex} \subseteq Targets
  <2>1. \A k \in 1..n : k \in 0..n
    OBVIOUS
  <2> QED BY <1>4, <1>6, <2>1
<1>8. ASSUME paging.keepInSamePage \/ ~paging.includeUnselected, NEW target \in Targets,
             target \notin Reached(prev)
      PROVE  FALSE
  <2>1. Selectable(target) /\ target \in base..end
    BY <1>5, <1>8
  <2>2. \A k \in 1..n : g[k].cursor # target
    BY <1>4, <1>8
  <2> DEFINE left(k) == StridesTo(g[k], target, currentPage, prev)
             right == [k \in 0..n |-> left(k) <= TotalSize + 1 - k]
  <2>3. ASSUME NEW k \in 0..n PROVE left(k) \in 1..(TotalSize + 1)
    <3> DEFINE spot == g[k]
    <3>1. Standing(spot, currentPage)
      BY <1>6
    <3> HIDE DEF spot
    <3>2. StridesTo(spot, target, currentPage, prev) \in 1..(TotalSize + 1)
      BY <1>1, <2>1, <3>1, StridesToFacts DEF base, end
    <3> QED BY <3>2 DEF spot
  <2> HIDE DEF left
  <2>4. \A k \in 0..n : right[k] <=> left(k) <= TotalSize + 1 - k
    OBVIOUS
  <2>5. right \in [0..n -> BOOLEAN]
    OBVIOUS
  <2> HIDE DEF right
  <2>6. right[0]
    <3>1. 0 \in 0..n
      BY <1>1
    <3>2. left(0) \in 1..(TotalSize + 1)
      BY <2>3, <3>1
    <3> QED BY <1>1, <2>4, <3>1, <3>2
  <2>7. ASSUME NEW k \in 1..n, right[k - 1] PROVE right[k]
    <3>1. k - 1 \in 0..n /\ k \in 0..n
      BY <1>1
    <3>2. left(k) <= left(k - 1) - 1
      <4> DEFINE spot == g[k - 1]
      <4>1. /\ Standing(spot, currentPage) /\ g[k] = MoveCursor(spot, prev)
            /\ MoveCursor(spot, prev).cursor # target
        BY <1>4, <1>6, <2>2, <3>1
      <4> HIDE DEF spot
      <4>2. StridesTo(MoveCursor(spot, prev), target, currentPage, prev)
              <= StridesTo(spot, target, currentPage, prev) - 1
        BY <1>1, <1>8, <2>1, <4>1, MoveNearer DEF base, end
      <4> QED BY <4>1, <4>2 DEF left, spot
    <3>3. left(k) \in 1..(TotalSize + 1) /\ left(k - 1) \in 1..(TotalSize + 1)
      BY <2>3, <3>1
    <3>4. left(k - 1) <= TotalSize + 1 - (k - 1)
      BY <2>4, <2>7, <3>1
    <3> QED BY <1>1, <2>4, <3>1, <3>2, <3>3, <3>4
  <2>8. right[n]
    BY <1>1, <2>5, <2>6, <2>7, LeastWrong
  <2>9. n \in 0..n
    BY <1>1
  <2>10. left(n) <= TotalSize + 1 - n /\ left(n) \in 1..(TotalSize + 1)
    BY <2>3, <2>4, <2>8, <2>9
  <2> QED BY <1>1, <2>10 DEF n
<1>9. Selectable(cursorIndex) => MoveCursor(MoveCursor(Here, prev), ~prev) = Here
  BY <1>1, <1>2, StepBack
<1> QED BY <1>7, <1>8, <1>9

-----------------------------------------------------------------------------

LEMMA InsertTyped ==
  ASSUME NEW S, NEW s \in Seq(S), NEW w \in S, NEW i \in 1..(Len(s) + 1)
  PROVE  InsertAt(s, i, w) \in Seq(S)
<1> DEFINE a == SubSeq(s, 1, i - 1)
           c == SubSeq(s, i, Len(s))
<1>1. a \in Seq(S) /\ c \in Seq(S) /\ <<w>> \in Seq(S)
  BY SubSeqProperties
<1>2. InsertAt(s, i, w) = a \o <<w>> \o c
  BY DEF InsertAt
<1> HIDE DEF a, c
<1> QED BY <1>1, <1>2, ConcatProperties

LEMMA RemoveTyped ==
  ASSUME NEW S, NEW s \in Seq(S), NEW i \in DOMAIN s
  PROVE  RemoveAt(s, i) \in Seq(S) /\ Len(s) - 1 \in Nat
<1> DEFINE a == SubSeq(s, 1, i - 1)
           c == SubSeq(s, i + 1, Len(s))
<1>1. a \in Seq(S) /\ c \in Seq(S) /\ Len(s) - 1 \in Nat
  BY SubSeqProperties
<1>2. RemoveAt(s, i) = a \o c
  BY DEF RemoveAt
<1> HIDE DEF a, c
<1> QED BY <1>1, <1>2, ConcatProperties

LEMMA FixTyped ==
  ASSUME ListTypes, NEW total \in Nat, FixAfterUpdate(total)
  PROVE  currentPage' \in Nat /\ cursorIndex' \in Int
<1> DEFINE pages == (total + pageSize - 1) \div pageSize
<1>1. total + pageSize - 1 \in Nat /\ pageSize \in Nat \ {0}
  BY DEF ListTypes
<1>2. pages \in Nat
  <2> DEFINE c == total + pageSize - 1
  <2> HIDE DEF c
  <2>1. c \div pageSize \in Nat
    BY <1>1, DividedFacts DEF c
  <2> QED BY <2>1 DEF c
<1> HIDE DEF pages
<1> QED BY <1>2 DEF FixAfterUpdate, ListTypes, pages

LEMMA ClearTyped ==
  ASSUME ListTypes, ClearFilter
  PROVE  currentPage' \in Nat /\ cursorIndex' \in Int
<1>1. Len(words) \in Nat
  BY DEF ListTypes
<1> QED BY <1>1, FixTyped DEF ClearFilter, ListTypes

LEMMA ListTypesHold == ListSpec => []ListTypes
<1>1. ListInit => ListTypes
  <2> SUFFICES ASSUME ListInit PROVE ListTypes
    OBVIOUS
  <2>1. paging \in Paging
    BY DEF ListInit, Paging
  <2>2. words \in Seq(Words)
    BY DEF ListInit
  <2>3. pageSize \in Nat \ {0}
    BY CandidateAssumption DEF ListInit
  <2>4. filtered = FALSE /\ currentPage = 0 /\ cursorIndex = -1
    BY DEF ListInit
  <2>5. filtered \in BOOLEAN
    BY <2>4
  <2>6. currentPage \in Nat /\ cursorIndex \in Int
    BY <2>4
  <2> QED BY <2>1, <2>2, <2>3, <2>5, <2>6 DEF ListTypes
<1>2. ASSUME ListTypes, [ListNext]_listVars PROVE ListTypes'
  <2>0. /\ words \in Seq(Words) /\ pageSize \in Nat \ {0} /\ paging \in Paging
        /\ TotalSize \in Nat
    BY <1>2, ShownFacts DEF ListTypes
  <2>1. CASE WalkCandidates
    <3>1. PICK prev \in BOOLEAN : /\ currentPage' = MoveCursor(Here, prev).page
                                  /\ cursorIndex' = MoveCursor(Here, prev).cursor
      BY <2>1 DEF WalkCandidates
    <3>2. Here \in Positions
      BY <1>2 DEF Here, Positions, ListTypes
    <3>3. MoveCursor(Here, prev) \in Positions
      BY <1>2, <3>2, MoveTyped
    <3> QED BY <1>2, <2>1, <3>1, <3>3 DEF WalkCandidates, ListTypes, Positions
  <2>2. CASE SetPage
    <3>1. PICK page \in 0..(TotalPages - 1) :
            currentPage' = page /\ cursorIndex' = Turned(cursorIndex, currentPage, page).cursor
      BY <2>2 DEF SetPage
    <3>2. page \in Nat /\ cursorIndex \in Int /\ currentPage \in Nat
      BY <1>2, <3>1 DEF ListTypes
    <3>3. Turned(cursorIndex, currentPage, page) \in Positions
      BY <1>2, <3>2, TurnedFacts
    <3> QED BY <1>2, <2>2, <3>1, <3>2, <3>3 DEF SetPage, ListTypes, Positions
  <2>3. CASE SetPageSize
    BY <1>2, <2>3, CandidateAssumption DEF SetPageSize, ListTypes
  <2>4. CASE SetCursor
    BY <1>2, <2>0, <2>4 DEF SetCursor, ListTypes
  <2>5. CASE InsertWord
    <3>1. words' \in Seq(Words)
      BY <2>0, <2>5, InsertTyped DEF InsertWord
    <3> QED BY <1>2, <2>0, <2>5, <3>1, ClearTyped DEF InsertWord, ListTypes
  <2>6. CASE RemoveWord
    <3>1. words' \in Seq(Words) /\ Len(words) - 1 \in Nat
      BY <2>0, <2>6, RemoveTyped DEF RemoveWord
    <3> QED BY <1>2, <2>0, <2>6, <3>1, FixTyped DEF RemoveWord, ListTypes
  <2>7. CASE ReplaceWord
    <3>1. words' \in Seq(Words)
      BY <2>0, <2>7 DEF ReplaceWord
    <3> QED BY <1>2, <2>0, <2>7, <3>1, ClearTyped DEF ReplaceWord, ListTypes
  <2>8. CASE ClearWords
    <3>1. words' \in Seq(Words)
      BY <2>8 DEF ClearWords
    <3> QED BY <1>2, <2>0, <2>8, <3>1, ClearTyped DEF ClearWords, ListTypes
  <2>9. CASE SetFilter
    <3>1. Len(Unhidden) \in Nat
      BY <1>2, ShownFacts
    <3> QED BY <1>2, <2>0, <2>9, <3>1, FixTyped DEF SetFilter, ListTypes
  <2>10. CASE UnsetFilter
    BY <1>2, <2>0, <2>10, ClearTyped DEF UnsetFilter, ListTypes
  <2>11. CASE UNCHANGED listVars
    BY <1>2, <2>11 DEF listVars, ListTypes
  <2> QED BY <1>2, <2>1, <2>2, <2>3, <2>4, <2>5, <2>6, <2>7, <2>8, <2>9, <2>10, <2>11
          DEF ListNext
<1> QED BY <1>1, <1>2, PTL DEF ListSpec

\* CursorWalks: whatever happened to the list before, walking in either direction
\* comes to all candidates, and a step back takes back a step.
THEOREM CursorWalksAlways == ListSpec => []CursorWalks
BY ListTypesHold, TypesGiveWalks, PTL

=============================================================================
