--------------------------- MODULE EventDispatcher ---------------------------
(***************************************************************************)
(* EventDispatcher: functors that any thread schedules and the thread of   *)
(* an event loop runs.  The queue is behind a mutex; a pipe wakes the loop *)
(* up.  Each action is what happens under the mutex or in one system call. *)
(***************************************************************************)
EXTENDS Naturals, Sequences, FiniteSets

CONSTANTS
  Functor,      \* the functors that are scheduled, each at most once
  Guarded,      \* those scheduled with a context, by scheduleWithContext
  AttachBound   \* how many times the dispatcher is attached

ASSUME DispatcherAssumption == Guarded \subseteq Functor /\ AttachBound \in Nat

VARIABLES
  eventList,    \* eventList_
  attached,     \* asyncEvent_ is there
  pipe,         \* the pipe of asyncEvent_ holds something to read
  step,         \* where the loop is: outside of the callback, between reading
                \* the pipe and taking the queue, or running what it took
  running,      \* eventList of dispatchEvent, taken from the queue
  invalid,      \* functors whose context is gone
  scheduled,    \* history: the functors that were offered
  ran,          \* history: the functors that were run, in order
  since,        \* history: functors taken since the dispatcher was attached
  attachments   \* history: how many times it was attached

dispatcherVars == <<eventList, attached, pipe, step, running, invalid, scheduled,
                    ran, since, attachments>>

DispatcherInit ==
  /\ eventList = <<>> /\ running = <<>>
  /\ attached = FALSE /\ pipe = FALSE
  /\ step = "idle"
  /\ invalid = {} /\ scheduled = {} /\ since = {}
  /\ ran = <<>>
  /\ attachments = 0

-----------------------------------------------------------------------------

\* A new asyncEvent_, with a pipe that is empty.  Like Detach and Invalidate it
\* belongs to the thread of the loop, in a callback or between two of them.
Attach ==
  /\ ~attached
  /\ step # "read"
  /\ attachments < AttachBound
  /\ attached' = TRUE
  /\ pipe' = FALSE
  /\ since' = {}
  /\ attachments' = attachments + 1
  /\ UNCHANGED <<eventList, step, running, invalid, scheduled, ran>>

\* Detach leaves the queue alone: its functors run after all if it is attached
\* again and woken up.
Detach ==
  /\ attached
  /\ step # "read"
  /\ attached' = FALSE
  /\ pipe' = FALSE
  /\ UNCHANGED <<eventList, step, running, invalid, scheduled, ran, since,
                 attachments>>

\* scheduleWithContext does not schedule what is invalid already, and nothing is
\* scheduled while the dispatcher is not attached.
Schedule(f) ==
  /\ f \notin scheduled
  /\ scheduled' = scheduled \cup {f}
  /\ IF attached /\ f \notin invalid
     THEN /\ eventList' = Append(eventList, f)
          /\ pipe' = TRUE
          /\ since' = since \cup {f}
     ELSE UNCHANGED <<eventList, pipe, since>>
  /\ UNCHANGED <<attached, step, running, invalid, ran, attachments>>

\* A null functor only wakes the loop up.
ScheduleNull ==
  /\ attached
  /\ pipe' = TRUE
  /\ UNCHANGED <<eventList, attached, step, running, invalid, scheduled,
                 ran, since, attachments>>

\* A context goes away, in the thread of the loop.
Invalidate(f) ==
  /\ step # "read"
  /\ f \in Guarded \ invalid
  /\ invalid' = invalid \cup {f}
  /\ UNCHANGED <<eventList, attached, pipe, step, running, scheduled, ran,
                 since, attachments>>

\* Mutant of ReadPipe: the queue is taken first and the pipe emptied next.
ReadPipe_Late ==
  \/ /\ step = "idle" /\ attached /\ pipe
     /\ step' = "taken"
     /\ running' = eventList
     /\ eventList' = <<>>
     /\ UNCHANGED <<attached, pipe, invalid, scheduled, ran, since,
                    attachments>>
  \/ /\ step = "taken"
     /\ step' = "run"
     /\ pipe' = FALSE
     /\ UNCHANGED <<eventList, attached, running, invalid, scheduled, ran,
                    since, attachments>>

\* The loop finds the pipe readable and empties it, before the callback runs.
ReadPipe ==
  /\ step = "idle" /\ attached /\ pipe
  /\ pipe' = FALSE
  /\ step' = "read"
  /\ UNCHANGED <<eventList, attached, running, invalid, scheduled, ran,
                 since, attachments>>

\* Mutant of Dispatch: the queue is copied.
Dispatch_Copies ==
  /\ step = "read"
  /\ step' = "run"
  /\ running' = eventList
  /\ UNCHANGED <<eventList, attached, pipe, invalid, scheduled, ran, since,
                 attachments>>

\* The swap at the start of dispatchEvent.
Dispatch ==
  /\ step = "read"
  /\ step' = "run"
  /\ running' = eventList
  /\ eventList' = <<>>
  /\ UNCHANGED <<attached, pipe, invalid, scheduled, ran, since,
                 attachments>>

\* Mutant of Run: the context is not looked at again.
Run_Unchecked ==
  /\ step = "run" /\ running # <<>>
  /\ running' = Tail(running)
  /\ ran' = Append(ran, Head(running))
  /\ UNCHANGED <<eventList, attached, pipe, step, invalid, scheduled, since,
                 attachments>>

\* The next functor runs, unless its context is gone.
Run ==
  /\ step = "run" /\ running # <<>>
  /\ running' = Tail(running)
  /\ ran' = IF Head(running) \in invalid THEN ran ELSE Append(ran, Head(running))
  /\ UNCHANGED <<eventList, attached, pipe, step, invalid, scheduled, since,
                 attachments>>

EndDispatch ==
  /\ step = "run" /\ running = <<>>
  /\ step' = "idle"
  /\ UNCHANGED <<eventList, attached, pipe, running, invalid, scheduled,
                 ran, since, attachments>>

Loop == ReadPipe \/ Dispatch \/ Run \/ EndDispatch

DispatcherNext ==
  \/ Attach
  \/ Detach
  \/ ScheduleNull
  \/ \E f \in Functor : Schedule(f) \/ Invalidate(f)
  \/ Loop

\* The loop goes on for as long as something is ready.
DispatcherFairness == WF_dispatcherVars(Loop)

DispatcherSpec ==
  DispatcherInit /\ [][DispatcherNext]_dispatcherVars /\ DispatcherFairness

-----------------------------------------------------------------------------

\* What was taken from the queue comes before what is still in it.
Waiting == running \o eventList

Promise ==
  INSTANCE FunctorQueue WITH waiting <- Waiting, gone <- invalid, open <- attached

\* The dispatcher is a queue: nothing overtakes, is lost or is served twice,
\* although it is taken from the queue in batches while others are added; and
\* "only invoke certain function if the reference is still valid", at the moment
\* when it is invoked.
IsFunctorQueue == Promise!QueueSpec

\* No wake-up is lost: what was scheduled since the dispatcher was attached is
\* run, unless its context goes or the dispatcher is detached.
EventuallyServed ==
  \A f \in Functor :
    f \in since ~> (\E i \in DOMAIN ran : ran[i] = f) \/ f \in invalid \/ ~attached
=============================================================================
