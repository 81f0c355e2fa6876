---------------------------- MODULE ServiceWatcher ----------------------------
(***************************************************************************)
(* ServiceWatcher, for one name on the bus: the first watcher of a name     *)
(* installs a match for NameOwnerChanged and asks for the owner, the others *)
(* join it, and with the last one both go away.  The bus is reached through *)
(* sd-bus: installing a match waits for the daemon and passes over signals  *)
(* that were read before, removing it does not wait.                        *)
(*                                                                         *)
(* The daemon answers every question; requests, and signals with answers,   *)
(* each arrive in the order they were sent in.  A question whose slot is    *)
(* destroyed is taken out of the channels, as nobody will see the answer.   *)
(***************************************************************************)
EXTENDS Sequences, SequencesExt, Filter

CONSTANTS
  Watchers,      \* entries that watchService hands out
  Owners,        \* who may own the name
  NoOwner,       \* the empty string
  Untold,        \* a watcher that was told nothing yet
  MaxSignals     \* bound on what waits to be read from the bus

ASSUME WatcherAssumption == NoOwner \notin Owners /\ Untold \notin Owners \cup {NoOwner}

VARIABLES
  owner,       \* the owner of the name, known to the daemon
  matched,     \* the daemon has the match rule
  requests,    \* on the way to the daemon: "GetNameOwner", "RemoveMatch"
  incoming,    \* on the way back
  watching,    \* the entries in watcherMap_
  toldOwner,   \* the last owner each entry was called with
  late         \* history: entries added while no question was open

watcherVars == <<owner, matched, requests, incoming, watching, toldOwner, late>>

WatcherInit ==
  /\ owner \in Owners \cup {NoOwner}
  /\ matched = FALSE
  /\ requests = <<>> /\ incoming = <<>>
  /\ watching = {} /\ late = {}
  /\ toldOwner = [w \in Watchers |-> Untold]

-----------------------------------------------------------------------------

Signals == [kind : {"signal"}, owner : Owners \cup {NoOwner}]
Replies == [kind : {"reply"}, owner : Owners \cup {NoOwner}]

IsReply(m) == m.kind = "reply"
WithoutQuery(reqs) == Kept(reqs, {"RemoveMatch"})
WithoutReply(msgs) == Kept(msgs, Signals)

\* querySlots_ has an entry.
QueryOpen ==
  "GetNameOwner" \in Range(requests) \/ \E i \in DOMAIN incoming : IsReply(incoming[i])

\* Mutant of Heard: a signal that was sent for an earlier match is heard.
Heard_Earlier(msgs) == msgs

\* What a match that is installed now will still be called for.
Heard(msgs) == Kept(msgs, Replies)

\* MultiHandlerTable::add
WatchService(w) ==
  /\ w \notin watching
  /\ watching' = watching \cup {w}
  /\ toldOwner' = [toldOwner EXCEPT ![w] = Untold]
  /\ IF watching = {}
     THEN /\ matched' = TRUE
          /\ requests' = <<"GetNameOwner">>
          /\ incoming' = Heard(incoming)
     ELSE UNCHANGED <<matched, requests, incoming>>
  /\ late' = IF watching = {} \/ QueryOpen THEN late \ {w} ELSE late \cup {w}
  /\ UNCHANGED owner

\* The entries that are destroyed leave; postRemove drops the slots with the last.
Leave(leaving, reqs, msgs) ==
  /\ watching' = watching \ leaving
  /\ IF leaving # {} /\ leaving = watching
     THEN /\ requests' = Append(WithoutQuery(reqs), "RemoveMatch")
          /\ incoming' = WithoutReply(msgs)
     ELSE requests' = reqs /\ incoming' = msgs

Unwatch(w) ==
  /\ w \in watching
  /\ Leave({w}, requests, incoming)
  /\ UNCHANGED <<owner, matched, toldOwner, late>>

\* Every entry is called, and some destroy themselves at that: a context whose
\* client is gone.
Tell(newOwner, reqs, msgs) ==
  /\ toldOwner' =
       [w \in Watchers |-> IF w \in watching THEN newOwner ELSE toldOwner[w]]
  /\ \E leaving \in SUBSET watching :
       (leaving # {} => newOwner = NoOwner) /\ Leave(leaving, reqs, msgs)

\* The signal makes the question superfluous.
DispatchSignal ==
  /\ incoming # <<>> /\ ~IsReply(Head(incoming))
  /\ IF watching = {}
     THEN incoming' = Tail(incoming) /\ UNCHANGED <<requests, watching, toldOwner>>
     ELSE Tell(Head(incoming).owner, WithoutQuery(requests), WithoutReply(Tail(incoming)))
  /\ UNCHANGED <<owner, matched, late>>

DispatchReply ==
  /\ incoming # <<>> /\ IsReply(Head(incoming))
  /\ Tell(Head(incoming).owner, requests, Tail(incoming))
  /\ UNCHANGED <<owner, matched, late>>

\* The daemon takes up a request.
Serve ==
  /\ requests # <<>>
  /\ requests' = Tail(requests)
  /\ IF Head(requests) = "RemoveMatch" THEN matched' = FALSE /\ UNCHANGED incoming
     ELSE /\ incoming' = Append(incoming, [kind |-> "reply", owner |-> owner])
          /\ UNCHANGED matched
  /\ UNCHANGED <<owner, watching, toldOwner, late>>

OwnerChanges ==
  /\ Len(incoming) < MaxSignals
  /\ owner' \in (Owners \cup {NoOwner}) \ {owner}
  /\ incoming' = IF matched THEN Append(incoming, [kind |-> "signal", owner |-> owner'])
                 ELSE incoming
  /\ UNCHANGED <<matched, requests, watching, toldOwner, late>>

WatcherNext ==
  \/ \E w \in Watchers : WatchService(w) \/ Unwatch(w)
  \/ DispatchSignal \/ DispatchReply \/ Serve \/ OwnerChanges

WatcherSpec == WatcherInit /\ [][WatcherNext]_watcherVars

-----------------------------------------------------------------------------

Quiet == requests = <<>> /\ incoming = <<>>

\* "to avoid race condition": however watchers come and go while the owner changes,
\* once the bus is quiet everyone who watches knows the owner, unless he came when
\* the question was already answered and was told nothing since.
WatchersKnowOwner ==
  Quiet => \A w \in watching :
             toldOwner[w] = owner \/ (w \in late /\ toldOwner[w] = Untold)

\* "this will also initiate a GetNameOwner call": everyone who watches is told.
EveryoneIsTold == Quiet => \A w \in watching : toldOwner[w] # Untold
=============================================================================
