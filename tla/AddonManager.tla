----------------------------- MODULE AddonManager -----------------------------
(***************************************************************************)
(* AddonManager: addons are loaded in passes over a hash table, in the     *)
(* order of the table, each as soon as what it depends on is there; those  *)
(* that are on demand only once somebody requests them.  Passes go on      *)
(* until one changes nothing.  Each action is one iteration of a loop.     *)
(*                                                                         *)
(* What the files say of the addons is the catalog: any dependencies, also *)
(* circular ones.  An addon of the wrong version is one that is disabled.  *)
(***************************************************************************)
EXTENDS Naturals, Sequences

CONSTANTS
  Table,      \* the addons in the order of addons_
  Catalogs    \* what the files may say

Addon == {Table[i] : i \in DOMAIN Table}

\* Kinds of dependencies, and what comes of loading an addon.
Status == {"works", "broken", "disabled"}

ASSUME TableAssumption ==
  /\ Table \in Seq(Addon)
  /\ \A i, j \in DOMAIN Table : Table[i] = Table[j] => i = j
ASSUME CatalogAssumption ==
  Catalogs \subseteq [requires : [Addon -> SUBSET Addon],
                      optional : [Addon -> SUBSET Addon],
                      onDemand : SUBSET Addon,
                      status : [Addon -> Status]]

VARIABLES
  catalog,
  known,       \* the addons in addons_
  failed,      \* failed_ of each, or isEnabled() false
  loadOrder,   \* loadOrder_
  requested,   \* requested_
  at,          \* the place in the table of the pass that runs, 0 if none does
  changed,     \* whether this pass has changed something
  unloading,   \* unloading_
  quitting,    \* exiting() of the instance
  settled      \* history: a pass has changed nothing, and nothing was asked since

addonVars == <<catalog, known, failed, loadOrder, requested, at, changed, unloading,
               quitting, settled>>

Loaded == {loadOrder[i] : i \in DOMAIN loadOrder}
Loadable(a) == a \in known \ failed

AddonInit ==
  /\ catalog \in Catalogs
  /\ known = {}
  /\ failed = {}
  /\ loadOrder = <<>>
  /\ requested = {}
  /\ at = 0
  /\ changed = FALSE
  /\ unloading = FALSE
  /\ quitting = FALSE
  /\ settled = FALSE

-----------------------------------------------------------------------------

\* Mutant of OptionalReady: what is optional is not waited for.
OptionalReady_Never(a) == TRUE

\* "if not available, don't bother load it; otherwise wait for it"
OptionalReady(a) ==
  \A dep \in catalog.optional[a] : Loadable(dep) => dep \in Loaded \cup catalog.onDemand

(***************************************************************************)
(* checkDependencies.  The first dependency that is not there decides; the *)
(* order in which a file lists them is left open.  One that is on demand   *)
(* is requested, which is worth another pass the first time.               *)
(***************************************************************************)
Missing(a) == catalog.requires[a] \ Loaded

CheckDependencies(a) ==
  IF Missing(a) = {}
  THEN {[result |-> IF OptionalReady(a) THEN "Satisfied" ELSE "Pending", asks |-> {}]}
  ELSE {IF ~Loadable(dep) THEN [result |-> "Failed", asks |-> {}]
        ELSE IF dep \in catalog.onDemand \ requested
        THEN [result |-> "PendingUpdateRequest", asks |-> {dep}]
        ELSE [result |-> "Pending", asks |-> {}] : dep \in Missing(a)}

\* loadAddon looks only at these.
Considers(a) ==
  /\ a \in known \ Loaded /\ Loadable(a)
  /\ a \in catalog.onDemand => a \in requested

\* Mutant of Advance: the pass that has loaded something is the last.
Advance_OnePass(didChange) ==
  /\ at' = IF at < Len(Table) THEN at + 1 ELSE 0
  /\ changed' = FALSE

\* The next iteration of the inner loop, or of the outer one.
Advance(didChange) ==
  IF at < Len(Table) THEN at' = at + 1 /\ changed' = (changed \/ didChange)
  ELSE /\ at' = IF changed \/ didChange THEN 1 ELSE 0
       /\ changed' = FALSE

\* loadAddon and realLoad for the addon the pass has come to.  An addon that is
\* loaded may ask the instance to exit, which ends the pass.
LoadAddon ==
  LET a == Table[at]
  IN  /\ at # 0
      /\ IF ~Considers(a)
         THEN Advance(FALSE) /\ UNCHANGED <<failed, loadOrder, requested, quitting>>
         ELSE \E check \in CheckDependencies(a) :
           LET loads == check.result = "Satisfied" /\ catalog.status[a] = "works"
           IN  /\ failed' = IF \/ check.result = "Failed"
                               \/ check.result = "Satisfied" /\ ~loads
                            THEN failed \cup {a} ELSE failed
               /\ loadOrder' = IF loads THEN Append(loadOrder, a) ELSE loadOrder
               /\ requested' = requested \cup check.asks
               /\ \/ /\ Advance(loads \/ check.result = "PendingUpdateRequest")
                     /\ UNCHANGED quitting
                  \/ loads /\ quitting' = TRUE /\ at' = 0 /\ changed' = FALSE
      /\ settled' = (at' = 0 /\ ~quitting')
      /\ UNCHANGED <<catalog, known, unloading>>

\* loadAddons, called by load() and by a request from outside of any addon's
\* constructor; it does nothing while the instance exits.
StartLoading ==
  IF quitting THEN UNCHANGED <<at, settled>>
  ELSE at' = (IF Table = <<>> THEN 0 ELSE 1) /\ settled' = FALSE

\* load(): addons that are known already stay as they are.
Load ==
  /\ at = 0 /\ ~unloading
  /\ known' = Addon
  /\ failed' = failed \cup {a \in Addon \ known : catalog.status[a] = "disabled"}
  /\ StartLoading
  /\ UNCHANGED <<catalog, loadOrder, requested, changed, unloading, quitting>>

\* addon(name, true).  From the destructor of an addon that is unloaded the pass
\* visits all addons and loads none.  Assumed: a manager that was unloaded is asked
\* for nothing until it is loaded again.
Request(a) ==
  /\ at = 0
  /\ unloading \/ known = Addon
  /\ Loadable(a) /\ a \in catalog.onDemand \ Loaded
  /\ requested' = requested \cup {a}
  /\ IF unloading THEN UNCHANGED <<at, settled>> ELSE StartLoading
  /\ UNCHANGED <<catalog, known, failed, loadOrder, changed, unloading, quitting>>

StartUnloading ==
  /\ at = 0 /\ ~unloading
  /\ unloading' = TRUE
  /\ settled' = FALSE
  /\ UNCHANGED <<catalog, known, failed, loadOrder, requested, at, changed, quitting>>

\* unload() destroys the addon that was loaded last.
UnloadNext ==
  /\ unloading /\ loadOrder # <<>>
  /\ known' = known \ {loadOrder[Len(loadOrder)]}
  /\ loadOrder' = SubSeq(loadOrder, 1, Len(loadOrder) - 1)
  /\ UNCHANGED <<catalog, failed, requested, at, changed, unloading, quitting, settled>>

EndUnloading ==
  /\ unloading /\ loadOrder = <<>>
  /\ unloading' = FALSE
  /\ requested' = {}
  /\ UNCHANGED <<catalog, known, failed, loadOrder, at, changed, quitting, settled>>

\* The instance is told to exit.
Exit ==
  /\ at = 0 /\ ~quitting
  /\ quitting' = TRUE
  /\ settled' = FALSE
  /\ UNCHANGED <<catalog, known, failed, loadOrder, requested, at, changed, unloading>>

AddonNext ==
  \/ Exit \/ Load \/ LoadAddon \/ StartUnloading \/ UnloadNext \/ EndUnloading
  \/ \E a \in Addon : Request(a)

AddonSpec == AddonInit /\ [][AddonNext]_addonVars

-----------------------------------------------------------------------------

Before(i) == {loadOrder[j] : j \in 1..(i - 1)}

\* "reverse the unload order": an addon only lives while what it depends on does,
\* whatever was loaded on demand in between: all it requires was loaded before it
\* and is unloaded after it, and so is what it can do without if it is there,
\* unless that is on demand.
DependenciesOutlive ==
  \A i \in DOMAIN loadOrder :
    LET a == loadOrder[i]
    IN  /\ catalog.requires[a] \subseteq Before(i)
        /\ (catalog.optional[a] \cap Loaded) \ catalog.onDemand \subseteq Before(i)

\* What a pass that changed nothing should have loaded.
LeftOut ==
  {a \in Addon : Considers(a) /\ Missing(a) = {} /\ OptionalReady(a)}

\* However the table is ordered, loading does not end while an addon could be
\* loaded, nor before what is on demand was requested for all who require it;
\* except for an addon that waited for one that then failed to load.
LoadingCompletes ==
  settled =>
    /\ \A a \in LeftOut : catalog.optional[a] \cap failed # {}
    /\ \A a \in Addon :
         Considers(a) /\ Missing(a) # {}
           => ~(Missing(a) \subseteq catalog.onDemand \ (requested \cup failed))

\* "if not available, don't bother load it": an addon is not kept waiting for one
\* that cannot be loaded.
NothingLeftOut == settled => LeftOut = {}
=============================================================================
