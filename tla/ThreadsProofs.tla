------------------------------ MODULE ThreadsProofs ------------------------------
(***************************************************************************)
(* What the dispatcher promises to the threads that schedule functors, and *)
(* what the three readers that are built on a pair of dispatchers promise  *)
(* to their connections and to the clipboard, for any number of functors,  *)
(* events, replies and selections.                                         *)
(***************************************************************************)
EXTENDS EventDispatcher, WaylandEventReader, XCBEventReader, DataReader,
        SequenceTheorems, TLAPS

(***************************************************************************)
(* IsFunctorQueue, for any functors: the two queues of the dispatcher, one *)
(* filled by all threads and one emptied by the loop, are one queue.  The  *)
(* step that could break it is the swap, which forgets what was running.   *)
(***************************************************************************)

QueuesTyped ==
  /\ eventList \in Seq(Functor)
  /\ running \in Seq(Functor)

\* The loop takes the queue only when it has run all that it took before.
TakesWhenDone == step # "run" => running = <<>>

QueuesInv == QueuesTyped /\ TakesWhenDone

-----------------------------------------------------------------------------

LEMMA QueuesInit == DispatcherInit => QueuesInv
  BY DEF DispatcherInit, QueuesInv, QueuesTyped, TakesWhenDone

LEMMA QueuesStep == QueuesInv /\ [DispatcherNext]_dispatcherVars => QueuesInv'
<1> SUFFICES ASSUME QueuesInv, [DispatcherNext]_dispatcherVars PROVE QueuesInv'
  OBVIOUS
<1> USE DEF QueuesInv, QueuesTyped, TakesWhenDone
<1>1. CASE UNCHANGED dispatcherVars
  BY <1>1 DEF dispatcherVars
<1>2. CASE Attach \/ Detach
  BY <1>2 DEF Attach, Detach
<1>3. CASE ScheduleNull
  BY <1>3 DEF ScheduleNull
<1>4. ASSUME NEW f \in Functor, Schedule(f) PROVE QueuesInv'
  <2>1. eventList' \in Seq(Functor)
    BY <1>4 DEF Schedule
  <2>2. QED
    BY <1>4, <2>1 DEF Schedule
<1>5. ASSUME NEW f \in Functor, Invalidate(f) PROVE QueuesInv'
  BY <1>5 DEF Invalidate
<1>6. CASE ReadPipe
  BY <1>6 DEF ReadPipe
<1>7. CASE Dispatch
  BY <1>7 DEF Dispatch
<1>8. CASE Run
  <2>1. Tail(running) \in Seq(Functor)
    BY <1>8 DEF Run
  <2>2. QED
    BY <1>8, <2>1 DEF Run
<1>9. CASE EndDispatch
  BY <1>9 DEF EndDispatch
<1>10. QED
  BY <1>1, <1>2, <1>3, <1>4, <1>5, <1>6, <1>7, <1>8, <1>9 DEF DispatcherNext, Loop

-----------------------------------------------------------------------------

\* What is added to the queue comes last of all that waits.
LEMMA AddedLast ==
  ASSUME NEW S, NEW s \in Seq(S), NEW t \in Seq(S), NEW f \in S
  PROVE  s \o Append(t, f) = Append(s \o t, f)
<1>1. /\ s \o Append(t, f) \in Seq(S) /\ Append(s \o t, f) \in Seq(S)
      /\ Len(s \o Append(t, f)) = Len(Append(s \o t, f))
  OBVIOUS
<1>2. ASSUME NEW i \in 1..Len(s \o Append(t, f))
      PROVE  (s \o Append(t, f))[i] = Append(s \o t, f)[i]
  BY <1>2
<1>3. QED
  BY <1>1, <1>2, SeqEqual

\* What is run comes first of all that waits.
LEMMA RunFirst ==
  ASSUME NEW S, NEW s \in Seq(S), NEW t \in Seq(S), s # <<>>
  PROVE  /\ s \o t # <<>>
         /\ Head(s \o t) = Head(s)
         /\ Tail(s \o t) = Tail(s) \o t
<1>1. Len(s) \in Nat \ {0}
  OBVIOUS
<1>2. s \o t # <<>> /\ Head(s \o t) = Head(s)
  BY <1>1
<1>3. /\ Tail(s \o t) \in Seq(S) /\ Tail(s) \o t \in Seq(S)
      /\ Len(Tail(s \o t)) = Len(Tail(s) \o t)
  BY <1>1, <1>2
<1>4. ASSUME NEW i \in 1..Len(Tail(s \o t))
      PROVE  Tail(s \o t)[i] = (Tail(s) \o t)[i]
  BY <1>1, <1>2, <1>4
<1>5. QED
  BY <1>2, <1>3, <1>4, SeqEqual

LEMMA QueueInitHolds == DispatcherInit => Promise!QueueInit
  BY DEF DispatcherInit, Promise!QueueInit, Waiting

LEMMA QueueStepHolds ==
  QueuesInv /\ [DispatcherNext]_dispatcherVars => [Promise!QueueNext]_(Promise!queueVars)
<1> SUFFICES ASSUME QueuesInv, [DispatcherNext]_dispatcherVars
             PROVE  [Promise!QueueNext]_(Promise!queueVars)
  OBVIOUS
<1>1. ASSUME running' = running, eventList' = eventList, ran' = ran,
             invalid' = invalid, attached' = attached
      PROVE  UNCHANGED Promise!queueVars
  BY <1>1 DEF Promise!queueVars, Waiting
<1>2. CASE UNCHANGED dispatcherVars \/ ScheduleNull \/ ReadPipe \/ EndDispatch
  BY <1>1, <1>2 DEF dispatcherVars, ScheduleNull, ReadPipe, EndDispatch
<1>3. CASE Attach \/ Detach
  <2>1. Promise!OpenOrClose
    BY <1>3 DEF Attach, Detach, Promise!OpenOrClose, Waiting
  <2>2. QED
    BY <2>1 DEF Promise!QueueNext
<1>4. ASSUME NEW f \in Functor, Schedule(f)
      PROVE  [Promise!QueueNext]_(Promise!queueVars)
  <2>1. CASE attached /\ f \notin invalid
    <3>1. Waiting' = Append(Waiting, f)
      <4>1. running' = running /\ eventList' = Append(eventList, f)
        BY <1>4, <2>1 DEF Schedule
      <4>2. running \o Append(eventList, f) = Append(running \o eventList, f)
        BY AddedLast DEF QueuesInv, QueuesTyped
      <4>3. QED
        BY <4>1, <4>2 DEF Waiting
    <3>2. Promise!Take(f)
      BY <1>4, <2>1, <3>1 DEF Schedule, Promise!Take
    <3>3. QED
      BY <3>2 DEF Promise!QueueNext
  <2>2. CASE ~(attached /\ f \notin invalid)
    BY <1>1, <1>4, <2>2 DEF Schedule
  <2>3. QED
    BY <2>1, <2>2
<1>5. ASSUME NEW f \in Functor, Invalidate(f)
      PROVE  [Promise!QueueNext]_(Promise!queueVars)
  <2>1. Promise!LoseContext(f)
    BY <1>5 DEF Invalidate, Promise!LoseContext, Waiting
  <2>2. QED
    BY <2>1 DEF Promise!QueueNext
<1>6. CASE Dispatch
  <2>1. Waiting' = Waiting
    BY <1>6 DEF Dispatch, QueuesInv, QueuesTyped, TakesWhenDone, Waiting
  <2>2. QED
    BY <1>6, <2>1 DEF Dispatch, Promise!queueVars
<1>7. CASE Run
  <2>1. /\ Waiting # <<>> /\ Head(Waiting) = Head(running)
        /\ Waiting' = Tail(Waiting)
    BY <1>7, RunFirst DEF Run, QueuesInv, QueuesTyped, Waiting
  <2>2. Promise!Serve
    BY <1>7, <2>1 DEF Run, Promise!Serve
  <2>3. QED
    BY <2>2 DEF Promise!QueueNext
<1>8. QED
  BY <1>2, <1>3, <1>4, <1>5, <1>6, <1>7 DEF DispatcherNext, Loop

\* Whatever is scheduled, whenever and by however many threads, attached or not:
\* what the loop runs is what a single queue would serve.
THEOREM DispatcherIsQueue == DispatcherSpec => IsFunctorQueue
<1>1. DispatcherInit => QueuesInv /\ Promise!QueueInit
  BY QueuesInit, QueueInitHolds
<1>2. QueuesInv /\ [DispatcherNext]_dispatcherVars => QueuesInv'
  BY QueuesStep
<1>3. QueuesInv /\ [DispatcherNext]_dispatcherVars
        => [Promise!QueueNext]_(Promise!queueVars)
  BY QueueStepHolds
<1>4. QED
  BY <1>1, <1>2, <1>3, PTL DEF DispatcherSpec, IsFunctorQueue, Promise!QueueSpec

(***************************************************************************)
(* ReadsMatched, however many events come and whenever anybody leaves.     *)
(* The reason is a baton that the two threads pass to each other: at any   *)
(* time it is a functor on its way to the main thread, or with the main    *)
(* thread while it dispatches, or the flag isReading_, or with the reader  *)
(* thread while it reads; or it has been dropped.                          *)
(***************************************************************************)

Asks(i) == wlToMain[i] = "dispatch"
OnItsWay == \E i \in DOMAIN wlToMain : Asks(i)
WithMain == wlMain \in {"dispatch", "prepared"}
WithWorker == wlWorker \in {"read", "announce", "quit"}

ReaderTypes ==
  /\ quitting \in BOOLEAN
  /\ isReading \in BOOLEAN
  /\ wlToMain \in Seq({"dispatch", "remove"})
  /\ wlToWorker \in Seq({"exit"})

OneBaton ==
  /\ \A i, j \in DOMAIN wlToMain : Asks(i) /\ Asks(j) => i = j
  /\ OnItsWay => ~WithMain /\ ~isReading /\ ~WithWorker
  /\ WithMain => ~isReading /\ ~WithWorker
  /\ isReading => ~WithWorker

\* The main thread never has it again once the reader quits, and the reader thread
\* does not end before.
QuitFirst ==
  /\ quitting => ~WithMain
  /\ \/ wlMain \in {"tell", "tellAndJoin"}
     \/ wlWorker \in {"tell", "detach", "cancel", "ended"}
     \/ wlToWorker # <<>>
     => quitting

ReaderInv == ReaderTypes /\ OneBaton /\ QuitFirst /\ ReadsMatched

-----------------------------------------------------------------------------

LEMMA ReaderInit == WlInit => ReaderInv
<1> SUFFICES ASSUME WlInit PROVE ReaderInv
  OBVIOUS
<1>1. /\ wlToMain \in Seq({"dispatch", "remove"}) /\ DOMAIN wlToMain = {1}
      /\ wlToWorker \in Seq({"exit"})
  BY DEF WlInit
<1>2. ReaderTypes
  BY <1>1 DEF WlInit, ReaderTypes
<1>3. OneBaton
  BY <1>1 DEF WlInit, OneBaton, WithMain, WithWorker
<1>4. QuitFirst /\ ReadsMatched
  BY DEF WlInit, QuitFirst, ReadsMatched, WithMain
<1>5. QED
  BY <1>2, <1>3, <1>4 DEF ReaderInv

\* A step that leaves alone all that the invariant speaks of.
LEMMA ReaderUntouched ==
  ASSUME ReaderInv,
         UNCHANGED <<quitting, isReading, wlMain, wlWorker, wlToMain, wlToWorker, prepared>>
  PROVE  ReaderInv'
  BY DEF ReaderInv, ReaderTypes, OneBaton, Asks, OnItsWay, WithMain, WithWorker,
         QuitFirst, ReadsMatched

\* The reader thread is told nothing but to end.
LEMMA ToldToEnd ==
  ASSUME ReaderTypes PROVE ToWorker(<<"exit">>) \in Seq({"exit"})
<1>1. <<"exit">> \in Seq({"exit"})
  OBVIOUS
<1>2. wlToWorker \o <<"exit">> \in Seq({"exit"})
  BY <1>1 DEF ReaderTypes
<1>3. QED
  BY <1>2 DEF ToWorker, ReaderTypes

\* What taking the first functor, and adding one, does to those in the queue.
LEMMA FirstTaken ==
  ASSUME ReaderTypes, OneBaton, wlToMain # <<>>, wlToMain' = Tail(wlToMain)
  PROVE  /\ wlToMain' \in Seq({"dispatch", "remove"})
         /\ \A i, j \in DOMAIN wlToMain' : (Asks(i) /\ Asks(j))' => i = j
         /\ OnItsWay' => OnItsWay /\ Head(wlToMain) # "dispatch"
         /\ Head(wlToMain) = "dispatch" => OnItsWay
<1>1. /\ wlToMain' \in Seq({"dispatch", "remove"})
      /\ 1 \in DOMAIN wlToMain /\ Head(wlToMain) = wlToMain[1]
      /\ \A i \in DOMAIN wlToMain' :
           i \in Nat \ {0} /\ i + 1 \in DOMAIN wlToMain /\ wlToMain'[i] = wlToMain[i + 1]
  BY DEF ReaderTypes
<1>2. \A i \in DOMAIN wlToMain' : Asks(i)' => Asks(i + 1)
  BY <1>1 DEF Asks
<1>3. \A i, j \in DOMAIN wlToMain' : (Asks(i) /\ Asks(j))' => i = j
  BY <1>1, <1>2 DEF OneBaton
<1>4. \A i \in DOMAIN wlToMain' : Asks(i)' => wlToMain[1] # "dispatch"
  BY <1>1, <1>2 DEF OneBaton, Asks
<1>5. QED
  BY <1>1, <1>2, <1>3, <1>4 DEF OnItsWay, Asks

LEMMA OneAdded ==
  ASSUME ReaderTypes, OneBaton, NEW f \in {"dispatch", "remove"},
         wlToMain' = Append(wlToMain, f), f = "dispatch" => ~OnItsWay
  PROVE  /\ wlToMain' \in Seq({"dispatch", "remove"})
         /\ \A i, j \in DOMAIN wlToMain' : (Asks(i) /\ Asks(j))' => i = j
         /\ OnItsWay' => OnItsWay \/ f = "dispatch"
<1> DEFINE n == Len(wlToMain)
<1>1. /\ wlToMain' \in Seq({"dispatch", "remove"})
      /\ \A i \in DOMAIN wlToMain' :
           \/ i \in DOMAIN wlToMain /\ wlToMain'[i] = wlToMain[i]
           \/ i = n + 1 /\ wlToMain'[i] = f
  BY DEF ReaderTypes
<1>2. \A i \in DOMAIN wlToMain' :
        Asks(i)' => \/ i \in DOMAIN wlToMain /\ Asks(i)
                    \/ i = n + 1 /\ f = "dispatch"
  BY <1>1 DEF Asks
<1>3. \A i, j \in DOMAIN wlToMain' : (Asks(i) /\ Asks(j))' => i = j
  BY <1>2 DEF OneBaton, OnItsWay
<1>4. QED
  BY <1>1, <1>2, <1>3 DEF OnItsWay

-----------------------------------------------------------------------------

LEMMA MainHolds == ReaderInv /\ MainStep => ReaderInv'
<1> SUFFICES ASSUME ReaderInv, MainStep PROVE ReaderInv'
  OBVIOUS
<1> USE DEF ReaderInv, WithMain, WithWorker, queues, display
<1>1. ASSUME UNCHANGED wlToMain PROVE UNCHANGED OnItsWay /\ \A i : UNCHANGED Asks(i)
  BY <1>1 DEF OnItsWay, Asks
<1>2. CASE MainFunctor
  <2>1. /\ wlToMain' \in Seq({"dispatch", "remove"})
        /\ \A i, j \in DOMAIN wlToMain' : (Asks(i) /\ Asks(j))' => i = j
        /\ OnItsWay' => OnItsWay /\ Head(wlToMain) # "dispatch"
        /\ Head(wlToMain) = "dispatch" => OnItsWay
        /\ Head(wlToMain) \in {"dispatch", "remove"}
    BY <1>2, FirstTaken DEF MainFunctor, ReaderTypes
  <2>2. ReaderTypes'
    BY <1>2, <2>1 DEF MainFunctor, ReaderTypes
  <2>3. OneBaton'
    BY <1>2, <2>1 DEF MainFunctor, OneBaton, ReaderTypes
  <2>4. QuitFirst' /\ ReadsMatched'
    BY <1>2 DEF MainFunctor, QuitFirst, ReadsMatched
  <2>5. QED
    BY <2>2, <2>3, <2>4
<1>3. CASE DispatchPending
  <2>1. ReaderTypes' /\ OneBaton'
    BY <1>1, <1>3 DEF DispatchPending, ReaderTypes, OneBaton
  <2>2. QuitFirst' /\ ReadsMatched'
    BY <1>3 DEF DispatchPending, QuitFirst, ReadsMatched
  <2>3. QED
    BY <2>1, <2>2
<1>4. CASE LetRead
  <2>1. ReaderTypes' /\ OneBaton'
    BY <1>1, <1>4 DEF LetRead, ReaderTypes, OneBaton
  <2>2. QuitFirst' /\ ReadsMatched'
    BY <1>4 DEF LetRead, OneBaton, QuitFirst, ReadsMatched
  <2>3. QED
    BY <2>1, <2>2
<1>5. CASE MainQuit
  <2>1. ReaderTypes' /\ OneBaton'
    BY <1>1, <1>5 DEF MainQuit, ReaderTypes, OneBaton
  <2>2. QuitFirst' /\ ReadsMatched'
    BY <1>5 DEF MainQuit, QuitFirst, ReadsMatched
  <2>3. QED
    BY <2>1, <2>2
<1>6. CASE MainTell
  <2>1. wlToWorker' \in Seq({"exit"})
    BY <1>6, ToldToEnd DEF MainTell
  <2>2. /\ wlToMain' \in Seq({"dispatch", "remove"})
        /\ \A i, j \in DOMAIN wlToMain' : (Asks(i) /\ Asks(j))' => i = j
        /\ OnItsWay' => OnItsWay
    <3>1. CASE wlMain = "tell"
      BY <1>6, <3>1, OneAdded DEF MainTell
    <3>2. CASE wlMain # "tell"
      BY <1>6, <3>2 DEF MainTell, OnItsWay
    <3>3. QED
      BY <3>1, <3>2
  <2>3. ReaderTypes'
    BY <1>6, <2>1, <2>2 DEF MainTell, ReaderTypes
  <2>4. OneBaton'
    BY <1>6, <2>2 DEF MainTell, OneBaton
  <2>5. QuitFirst' /\ ReadsMatched'
    BY <1>6 DEF MainTell, QuitFirst, ReadsMatched
  <2>6. QED
    BY <2>3, <2>4, <2>5
<1>7. CASE Join
  <2>1. ReaderTypes' /\ OneBaton'
    BY <1>1, <1>7 DEF Join, ReaderTypes, OneBaton
  <2>2. QuitFirst' /\ ReadsMatched'
    BY <1>7 DEF Join, QuitFirst, ReadsMatched
  <2>3. QED
    BY <2>1, <2>2
<1>8. QED
  BY <1>2, <1>3, <1>4, <1>5, <1>6, <1>7 DEF MainStep

LEMMA WorkerHolds == ReaderInv /\ WorkerStep => ReaderInv'
<1> SUFFICES ASSUME ReaderInv, WorkerStep PROVE ReaderInv'
  OBVIOUS
<1> USE DEF ReaderInv, WithMain, WithWorker, queues, display
<1>1. ASSUME UNCHANGED wlToMain PROVE UNCHANGED OnItsWay /\ \A i : UNCHANGED Asks(i)
  BY <1>1 DEF OnItsWay, Asks
<1>2. CASE WlAttach \/ OnIOEvent \/ WlDetach
  <2>1. ReaderTypes' /\ OneBaton'
    BY <1>1, <1>2 DEF WlAttach, OnIOEvent, WlDetach, ReaderTypes, OneBaton
  <2>2. QuitFirst' /\ ReadsMatched'
    BY <1>2 DEF WlAttach, OnIOEvent, WlDetach, QuitFirst, ReadsMatched
  <2>3. QED
    BY <2>1, <2>2
<1>3. CASE WorkerFunctor
  <2>1. wlToWorker' \in Seq({"exit"})
    BY <1>3 DEF WorkerFunctor, ReaderTypes
  <2>2. ReaderTypes' /\ OneBaton'
    BY <1>1, <1>3, <2>1 DEF WorkerFunctor, ReaderTypes, OneBaton
  <2>3. QuitFirst' /\ ReadsMatched'
    BY <1>3 DEF WorkerFunctor, QuitFirst, ReadsMatched
  <2>4. QED
    BY <2>2, <2>3
<1>4. CASE Wait
  <2>1. ReaderTypes' /\ OneBaton'
    BY <1>1, <1>4 DEF Wait, ReaderTypes, OneBaton
  <2>2. QuitFirst' /\ ReadsMatched'
    BY <1>4 DEF Wait, QuitFirst, ReadsMatched, ReaderTypes
  <2>3. QED
    BY <2>1, <2>2
<1>5. CASE ReadEvents \/ CancelRead
  <2>1. ReaderTypes' /\ OneBaton'
    BY <1>1, <1>5 DEF ReadEvents, CancelRead, ReaderTypes, OneBaton
  <2>2. QuitFirst' /\ ReadsMatched'
    BY <1>5 DEF ReadEvents, CancelRead, QuitFirst, ReadsMatched
  <2>3. QED
    BY <2>1, <2>2
<1>6. CASE AnnounceRead
  <2>1. /\ wlToMain' \in Seq({"dispatch", "remove"})
        /\ \A i, j \in DOMAIN wlToMain' : (Asks(i) /\ Asks(j))' => i = j
    BY <1>6, OneAdded DEF AnnounceRead, OneBaton
  <2>2. ReaderTypes' /\ OneBaton'
    BY <1>6, <2>1 DEF AnnounceRead, ReaderTypes, OneBaton
  <2>3. QuitFirst' /\ ReadsMatched'
    BY <1>6 DEF AnnounceRead, QuitFirst, ReadsMatched
  <2>4. QED
    BY <2>2, <2>3
<1>7. CASE WorkerQuit
  <2>1. ReaderTypes' /\ OneBaton'
    BY <1>1, <1>7 DEF WorkerQuit, ReaderTypes, OneBaton
  <2>2. QuitFirst' /\ ReadsMatched'
    BY <1>7 DEF WorkerQuit, QuitFirst, OneBaton, ReadsMatched
  <2>3. QED
    BY <2>1, <2>2
<1>8. CASE WorkerTell
  <2>1. wlToWorker' \in Seq({"exit"})
    BY <1>8, ToldToEnd DEF WorkerTell
  <2>2. /\ wlToMain' \in Seq({"dispatch", "remove"})
        /\ \A i, j \in DOMAIN wlToMain' : (Asks(i) /\ Asks(j))' => i = j
        /\ OnItsWay' => OnItsWay
    BY <1>8, OneAdded DEF WorkerTell
  <2>3. ReaderTypes' /\ OneBaton'
    BY <1>8, <2>1, <2>2 DEF WorkerTell, ReaderTypes, OneBaton
  <2>4. QuitFirst' /\ ReadsMatched'
    BY <1>8 DEF WorkerTell, QuitFirst, ReadsMatched
  <2>5. QED
    BY <2>3, <2>4
<1>9. CASE EndRun
  <2>1. ReaderTypes' /\ OneBaton'
    BY <1>1, <1>9 DEF EndRun, ReaderTypes, OneBaton
  <2>2. QuitFirst' /\ ReadsMatched'
    BY <1>9 DEF EndRun, QuitFirst, ReadsMatched
  <2>3. QED
    BY <2>1, <2>2
<1>10. QED
  BY <1>2, <1>3, <1>4, <1>5, <1>6, <1>7, <1>8, <1>9 DEF WorkerStep

LEMMA ReaderStep == ReaderInv /\ [WlNext]_wlVars => ReaderInv'
<1> SUFFICES ASSUME ReaderInv, [WlNext]_wlVars PROVE ReaderInv'
  OBVIOUS
<1>1. CASE UNCHANGED wlVars \/ Send \/ HangUp
  BY <1>1, ReaderUntouched DEF wlVars, Send, HangUp, queues
<1>2. CASE Destroy
  <2>1. UNCHANGED OnItsWay /\ \A i : UNCHANGED Asks(i)
    BY <1>2 DEF Destroy, queues, OnItsWay, Asks
  <2>2. QED
    BY <1>2, <2>1 DEF Destroy, queues, display, ReaderInv, ReaderTypes, OneBaton,
                      WithMain, WithWorker, QuitFirst, ReadsMatched
<1>3. QED
  BY <1>1, <1>2, MainHolds, WorkerHolds DEF WlNext

\* However many events come, whenever the socket is closed, and whoever tells the
\* reader to quit: every announced read has one place where it is read or cancelled.
THEOREM ReadsMatchedAlways == WlSpec => []ReadsMatched
<1>1. WlInit => ReaderInv
  BY ReaderInit
<1>2. ReaderInv /\ [WlNext]_wlVars => ReaderInv'
  BY ReaderStep
<1>3. ReaderInv => ReadsMatched
  BY DEF ReaderInv
<1>4. QED
  BY <1>1, <1>2, <1>3, PTL DEF WlSpec

(***************************************************************************)
(* XOrder, for any number of events, replies and wake-ups: whichever of    *)
(* the two threads moves events from one place to the next, it takes them  *)
(* from the front of the one and adds them at the end of the other.        *)
(***************************************************************************)

PlacesTyped ==
  /\ processed \in Seq(Nat)
  /\ events \in Seq(Nat)
  /\ batch \in Seq(Nat)
  /\ xQueue \in Seq(Nat)
  /\ xSocket \in Seq(Nat)
  /\ xSent \in Nat

PlacesInv == PlacesTyped /\ XOrder

-----------------------------------------------------------------------------
(* Moving things between neighbours in a chain of sequences.                *)

LEMMA MoveOne ==
  ASSUME NEW s \in Seq(Nat), NEW t \in Seq(Nat), t # <<>>
  PROVE  /\ Append(s, Head(t)) \in Seq(Nat) /\ Tail(t) \in Seq(Nat)
         /\ Append(s, Head(t)) \o Tail(t) = s \o t
<1>1. /\ Head(t) \in Nat /\ Tail(t) \in Seq(Nat) /\ Len(t) \in Nat \ {0}
      /\ Len(Tail(t)) = Len(t) - 1 /\ Head(t) = t[1]
      /\ \A i \in 1..Len(Tail(t)) : Tail(t)[i] = t[i + 1]
  BY HeadTailProperties
<1>2. /\ Append(s, Head(t)) \in Seq(Nat)
      /\ Len(Append(s, Head(t)) \o Tail(t)) = Len(s \o t)
  BY <1>1
<1>3. ASSUME NEW i \in 1..Len(s \o t)
      PROVE  (Append(s, Head(t)) \o Tail(t))[i] = (s \o t)[i]
  BY <1>1, <1>2, <1>3
<1>4. QED
  BY <1>1, <1>2, <1>3, SeqEqual

LEMMA Regroup ==
  \A s, t, u \in Seq(Nat) : (s \o t) \o u = s \o (t \o u)
  BY ConcatAssociative

LEMMA NothingMore ==
  \A s \in Seq(Nat) : s \o <<>> = s
  BY ConcatEmptySeq

LEMMA AppendLast ==
  ASSUME NEW s \in Seq(Nat), NEW t \in Seq(Nat), NEW n \in Nat
  PROVE  s \o Append(t, n) = Append(s \o t, n)
<1>1. /\ s \o Append(t, n) \in Seq(Nat) /\ Append(s \o t, n) \in Seq(Nat)
      /\ Len(s \o Append(t, n)) = Len(Append(s \o t, n))
  OBVIOUS
<1>2. ASSUME NEW i \in 1..Len(s \o Append(t, n))
      PROVE  (s \o Append(t, n))[i] = Append(s \o t, n)[i]
  BY <1>2
<1>3. QED
  BY <1>1, <1>2, SeqEqual

LEMMA CountOn ==
  ASSUME NEW n \in Nat
  PROVE  Append([i \in 1..n |-> i], n + 1) = [i \in 1..(n + 1) |-> i]
<1> DEFINE s == [i \in 1..n |-> i]
           t == [i \in 1..(n + 1) |-> i]
<1>1. s \in Seq(Nat) /\ Len(s) = n /\ t \in Seq(Nat) /\ Len(t) = n + 1
  OBVIOUS
<1>2. Append(s, n + 1) \in Seq(Nat) /\ Len(Append(s, n + 1)) = n + 1
  BY <1>1
<1>3. ASSUME NEW i \in 1..(n + 1) PROVE Append(s, n + 1)[i] = t[i]
  BY <1>1, <1>3
<1>4. QED
  BY <1>1, <1>2, <1>3, SeqEqual

\* The shapes in which the steps take the chain of all places apart.
LEMMA AfterReply ==
  ASSUME NEW c \in Seq(Nat), NEW q \in Seq(Nat), NEW s \in Seq(Nat)
  PROVE  (c \o (q \o s)) \o <<>> = (c \o q) \o s
<1>1. c \o (q \o s) \in Seq(Nat)
  OBVIOUS
<1>2. (c \o q) \o s = c \o (q \o s)
  BY Regroup
<1>3. QED
  BY <1>1, <1>2, NothingMore

LEMMA AfterPoll ==
  ASSUME NEW c \in Seq(Nat), NEW b \in Seq(Nat), NEW t \in Seq(Nat), t # <<>>
  PROVE  (c \o Append(b, Head(t))) \o Tail(t) = (c \o b) \o t
<1>1. /\ Append(b, Head(t)) \in Seq(Nat) /\ Tail(t) \in Seq(Nat)
      /\ Append(b, Head(t)) \o Tail(t) = b \o t
  BY MoveOne
<1>2. (c \o Append(b, Head(t))) \o Tail(t) = c \o (Append(b, Head(t)) \o Tail(t))
  BY <1>1, Regroup
<1>3. (c \o b) \o t = c \o (b \o t)
  BY Regroup
<1>4. QED
  BY <1>1, <1>2, <1>3

LEMMA AfterRead ==
  ASSUME NEW c \in Seq(Nat), NEW b \in Seq(Nat), NEW t \in Seq(Nat), t # <<>>
  PROVE  ((c \o Append(b, Head(t))) \o Tail(t)) \o <<>> = ((c \o b) \o <<>>) \o t
<1>1. c \o b \in Seq(Nat) /\ (c \o b) \o t \in Seq(Nat)
  OBVIOUS
<1>2. (c \o Append(b, Head(t))) \o Tail(t) = (c \o b) \o t
  BY AfterPoll
<1>3. (c \o b) \o <<>> = c \o b /\ ((c \o b) \o t) \o <<>> = (c \o b) \o t
  BY <1>1, NothingMore
<1>4. QED
  BY <1>2, <1>3

LEMMA AfterSplice ==
  ASSUME NEW c \in Seq(Nat), NEW e \in Seq(Nat), NEW b \in Seq(Nat)
  PROVE  (c \o (e \o b)) \o <<>> = (c \o e) \o b
<1>1. c \o (e \o b) \in Seq(Nat)
  OBVIOUS
<1>2. (c \o e) \o b = c \o (e \o b)
  BY Regroup
<1>3. QED
  BY <1>1, <1>2, NothingMore

-----------------------------------------------------------------------------

LEMMA PlacesInit == XInit => PlacesInv
<1> SUFFICES ASSUME XInit PROVE PlacesInv
  OBVIOUS
<1>1. PlacesTyped
  BY DEF XInit, PlacesTyped
<1>2. <<>> \o <<>> = <<>>
  OBVIOUS
<1>3. [n \in 1..0 |-> n] = <<>>
  OBVIOUS
<1>4. QED
  BY <1>1, <1>2, <1>3 DEF XInit, PlacesInv, XOrder

\* All that is on its way before libxcb has it.
Taken == (processed \o events) \o batch

LEMMA PlacesStep == PlacesInv /\ [XNext]_xVars => PlacesInv'
<1> SUFFICES ASSUME PlacesInv, [XNext]_xVars PROVE PlacesInv'
  OBVIOUS
<1>1. PlacesTyped
  BY DEF PlacesInv
<1>2. processed \o events \in Seq(Nat) /\ Taken \in Seq(Nat) /\ Taken \o xQueue \in Seq(Nat)
  BY <1>1 DEF PlacesTyped, Taken
<1>3. (Taken \o xQueue) \o xSocket = [n \in 1..xSent |-> n]
  BY DEF PlacesInv, XOrder, Taken
<1>4. ASSUME UNCHANGED <<processed, events, batch, xQueue, xSocket, xSent>>
      PROVE  PlacesInv'
  BY <1>4 DEF PlacesInv, PlacesTyped, XOrder
<1>5. CASE UNCHANGED xVars \/ XBreak \/ XDestroy \/ XJoin \/ DeferRemoval \/ PostEvent
  BY <1>4, <1>5 DEF xVars, XBreak, XDestroy, XJoin, DeferRemoval, PostEvent, library
<1>6. CASE XAttach \/ XWorkerFunctor \/ XReadable \/ Enter \/ Announce \/ XDetach
  BY <1>4, <1>6 DEF XAttach, XWorkerFunctor, XReadable, Enter, Announce, XDetach, library
<1>7. CASE XSend
  <2>1. PlacesTyped'
    BY <1>1, <1>7 DEF XSend, PlacesTyped
  <2>2. (Taken \o xQueue) \o Append(xSocket, xSent + 1)
          = Append([n \in 1..xSent |-> n], xSent + 1)
    <3>1. xSocket \in Seq(Nat) /\ xSent + 1 \in Nat
      BY <1>1 DEF PlacesTyped
    <3>2. (Taken \o xQueue) \o Append(xSocket, xSent + 1)
            = Append((Taken \o xQueue) \o xSocket, xSent + 1)
      BY <1>2, <3>1, AppendLast
    <3>3. QED
      BY <1>3, <3>2
  <2>3. Append([n \in 1..xSent |-> n], xSent + 1) = [n \in 1..(xSent + 1) |-> n]
    BY <1>1, CountOn DEF PlacesTyped
  <2>4. XOrder'
    BY <1>7, <2>2, <2>3 DEF XSend, XOrder, Taken
  <2>5. QED
    BY <2>1, <2>4 DEF PlacesInv
<1>8. CASE WaitForReply
  <2>1. PlacesTyped'
    BY <1>1, <1>8 DEF WaitForReply, PlacesTyped
  <2>2. (Taken \o (xQueue \o xSocket)) \o <<>> = (Taken \o xQueue) \o xSocket
    <3>1. xQueue \in Seq(Nat) /\ xSocket \in Seq(Nat)
      BY <1>1 DEF PlacesTyped
    <3>2. QED
      BY <1>2, <3>1, AfterReply
  <2>3. XOrder'
    BY <1>3, <1>8, <2>2 DEF WaitForReply, XOrder, Taken
  <2>4. QED
    BY <2>1, <2>3 DEF PlacesInv
<1>9. CASE ProcessEvent
  <2>1. PlacesTyped'
    BY <1>1, <1>9 DEF ProcessEvent, PlacesTyped, library
  <2>2. (processed \o events) \o <<>> = processed \o events
    BY <1>2, NothingMore
  <2>3. XOrder'
    BY <1>3, <1>9, <2>2 DEF ProcessEvent, XOrder, Taken, library
  <2>4. QED
    BY <2>1, <2>3 DEF PlacesInv
<1>10. CASE Poll
  <2>1. CASE xQueue # <<>>
    <3>1. /\ PlacesTyped'
          /\ ((processed \o events) \o Append(batch, Head(xQueue))) \o Tail(xQueue)
               = Taken \o xQueue
      <4>1. /\ batch \in Seq(Nat) /\ xQueue \in Seq(Nat)
            /\ Append(batch, Head(xQueue)) \in Seq(Nat) /\ Tail(xQueue) \in Seq(Nat)
        BY <1>1, <2>1, MoveOne DEF PlacesTyped
      <4>2. PlacesTyped'
        BY <1>1, <1>10, <2>1, <4>1 DEF Poll, PlacesTyped
      <4>3. QED
        BY <1>2, <2>1, <4>1, <4>2, AfterPoll DEF Taken
    <3>2. XOrder'
      BY <1>3, <1>10, <2>1, <3>1 DEF Poll, XOrder
    <3>3. QED
      BY <3>1, <3>2 DEF PlacesInv
  <2>2. CASE xQueue = <<>> /\ flagIn /\ xSocket # <<>>
    <3>1. /\ PlacesTyped'
          /\ (((processed \o events) \o Append(batch, Head(xSocket)))
                \o Tail(xSocket)) \o <<>> = (Taken \o <<>>) \o xSocket
      <4>1. /\ batch \in Seq(Nat) /\ xSocket \in Seq(Nat)
            /\ Append(batch, Head(xSocket)) \in Seq(Nat) /\ Tail(xSocket) \in Seq(Nat)
        BY <1>1, <2>2, MoveOne DEF PlacesTyped
      <4>2. PlacesTyped'
        BY <1>1, <1>10, <2>2, <4>1 DEF Poll, PlacesTyped
      <4>3. QED
        <5>1. (((processed \o events) \o Append(batch, Head(xSocket)))
                 \o Tail(xSocket)) \o <<>> = (((processed \o events) \o batch) \o <<>>) \o xSocket
          <6>1. \A c \in Seq(Nat) :
                  ((c \o Append(batch, Head(xSocket))) \o Tail(xSocket)) \o <<>>
                    = ((c \o batch) \o <<>>) \o xSocket
            BY <2>2, <4>1, AfterRead, Zenon
          <6>2. QED
            BY <1>2, <6>1, Zenon
        <5>2. QED
          BY <4>2, <5>1 DEF Taken
    <3>2. XOrder'
      BY <1>3, <1>10, <2>2, <3>1 DEF Poll, XOrder
    <3>3. QED
      BY <3>1, <3>2 DEF PlacesInv
  <2>3. CASE xQueue = <<>> /\ ~(flagIn /\ xSocket # <<>>)
    BY <1>4, <1>10, <2>3 DEF Poll
  <2>4. QED
    BY <2>1, <2>2, <2>3
<1>11. CASE Splice
  <2>1. PlacesTyped'
    BY <1>1, <1>11 DEF Splice, PlacesTyped, library
  <2>2. (processed \o (events \o batch)) \o <<>> = Taken
    BY <1>1, AfterSplice DEF PlacesTyped, Taken
  <2>3. XOrder'
    BY <1>3, <1>11, <2>2 DEF Splice, XOrder, library
  <2>4. QED
    BY <2>1, <2>3 DEF PlacesInv
<1>12. QED
  BY <1>5, <1>6, <1>7, <1>8, <1>9, <1>10, <1>11 DEF XNext, XMainStep, XWorkerStep, Removal

\* However many events come, whichever thread reads them, whenever the connection
\* breaks or is removed: none is lost, doubled or overtaken on its way.
THEOREM XOrderAlways == XSpec => []XOrder
<1>1. XInit => PlacesInv
  BY PlacesInit
<1>2. PlacesInv /\ [XNext]_xVars => PlacesInv'
  BY PlacesStep
<1>3. PlacesInv => XOrder
  BY DEF PlacesInv
<1>4. QED
  BY <1>1, <1>2, <1>3, PTL DEF XSpec

-----------------------------------------------------------------------------

(***************************************************************************)
(* OnlyCurrentText, for any number of selections.  What decides whether    *)
(* text may reach the clipboard is known when the text is asked for, two   *)
(* threads earlier: the invariant follows each task from the queue of the  *)
(* reader through the tasks to the queue of the main thread.               *)
(***************************************************************************)

Functors ==
  {<<"add", t>> : t \in Task} \cup {<<"remove", o>> : o \in Nat} \cup {<<"exit">>}

OfferTypes ==
  /\ kind \in Seq(Kinds)
  /\ Len(kind) <= OfferBound
  /\ current \in 0..Len(kind)
  /\ isPassword \in BOOLEAN
  /\ clipboard \in [offer : 0..Len(kind), password : BOOLEAN]
  /\ tasks \subseteq Task
  /\ dToMain \in Seq(Task)
  /\ dToWorker \in Seq(Functors)

\* What is asked suits the offer; and of the current offer text is asked only when
\* it is known whether it is marked.
Sound(t) ==
  /\ t.offer \in DOMAIN kind
  /\ t.what = "mark" => kind[t.offer] # "plain"
  /\ t.what = "text" =>
       /\ kind[t.offer] # "secret"
       /\ t.offer = current => isPassword = (kind[t.offer] = "marked")

TasksSound ==
  /\ \A t \in tasks : Sound(t)
  /\ \A i \in DOMAIN dToMain : Sound(dToMain[i])
  /\ \A i \in DOMAIN dToWorker : dToWorker[i][1] = "add" => Sound(dToWorker[i][2])

\* The current offer has not been received before, and no later one has.
NotYetReceived == current # 0 => clipboard.offer < current

OfferInv == OfferTypes /\ TasksSound /\ NotYetReceived

-----------------------------------------------------------------------------

LEMMA OfferInit == DInit => OfferInv
<1> SUFFICES ASSUME DInit PROVE OfferInv
  OBVIOUS
<1>1. OfferTypes
  <2>1. /\ <<>> \in Seq(Kinds) /\ <<>> \in Seq(Task) /\ <<>> \in Seq(Functors)
        /\ Len(<<>>) = 0 /\ 0 <= OfferBound
    BY OfferAssumption
  <2>2. [offer |-> 0, password |-> FALSE] \in [offer : 0..0, password : BOOLEAN]
    OBVIOUS
  <2>3. QED
    BY <2>1, <2>2 DEF DInit, OfferTypes
<1>2. TasksSound /\ NotYetReceived
  BY DEF DInit, TasksSound, NotYetReceived
<1>3. QED
  BY <1>1, <1>2 DEF OfferInv

\* What was asked stays sound while the offers that there are stay what they are,
\* and so does what is known of the current one, if it stays.
OffersStay ==
  /\ DOMAIN kind \subseteq DOMAIN kind'
  /\ \A o \in DOMAIN kind : kind'[o] = kind[o]
  /\ \/ /\ current' = current
        /\ \/ isPassword' = isPassword
           \/ isPassword' = TRUE /\ kind[current] = "marked"
     \/ current' \notin DOMAIN kind

LEMMA NothingChanges ==
  ASSUME kind' = kind, current' = current, isPassword' = isPassword PROVE OffersStay
<1>1. DOMAIN kind \subseteq DOMAIN kind' /\ \A o \in DOMAIN kind : kind'[o] = kind[o]
  OBVIOUS
<1>2. QED
  BY <1>1, Zenon DEF OffersStay

LEMMA SoundStays ==
  ASSUME NEW t, Sound(t), OffersStay PROVE Sound(t)'
  BY DEF Sound, OffersStay

\* What is in the queue of the reader after it was told something.
LEMMA QueueAfter ==
  ASSUME OfferTypes, NEW fs \in Seq(Functors), ToReader(fs)
  PROVE  /\ dToWorker' \in Seq(Functors)
         /\ \A i \in DOMAIN dToWorker' :
              \/ \E j \in DOMAIN dToWorker : dToWorker'[i] = dToWorker[j]
              \/ \E j \in DOMAIN fs : dToWorker'[i] = fs[j]
<1>1. CASE ~dAttached
  BY <1>1 DEF ToReader, OfferTypes
<1>2. CASE dAttached
  <2>1. /\ dToWorker' = dToWorker \o fs /\ dToWorker' \in Seq(Functors)
        /\ Len(dToWorker) \in Nat /\ Len(fs) \in Nat
        /\ DOMAIN dToWorker = 1..Len(dToWorker) /\ DOMAIN fs = 1..Len(fs)
        /\ DOMAIN dToWorker' = 1..(Len(dToWorker) + Len(fs))
    BY <1>2 DEF ToReader, OfferTypes
  <2>2. ASSUME NEW i \in DOMAIN dToWorker'
        PROVE  \/ \E j \in DOMAIN dToWorker : dToWorker'[i] = dToWorker[j]
               \/ \E j \in DOMAIN fs : dToWorker'[i] = fs[j]
    <3>1. CASE i <= Len(dToWorker)
      BY <2>1, <3>1 DEF OfferTypes
    <3>2. CASE i > Len(dToWorker)
      <4>1. i - Len(dToWorker) \in DOMAIN fs /\ dToWorker'[i] = fs[i - Len(dToWorker)]
        BY <2>1, <3>2 DEF OfferTypes
      <4>2. QED
        BY <4>1
    <3>3. QED
      BY <2>1, <3>1, <3>2
  <2>3. QED
    BY <2>1, <2>2
<1>3. QED
  BY <1>1, <1>2

LEMMA ForgetTypes ==
  ASSUME NEW o \in Nat
  PROVE  /\ Forget(o) \in Seq(Functors)
         /\ \A i \in DOMAIN Forget(o) : Forget(o)[i][1] # "add"
<1>1. <<"remove", o>> \in Functors
  BY DEF Functors
<1>2. QED
  BY <1>1 DEF Forget

\* A step of the main thread that tells the reader fs, in which all that is asked
\* is sound.
LEMMA TasksStaySound ==
  ASSUME OfferInv, NEW fs \in Seq(Functors), ToReader(fs), OffersStay,
         UNCHANGED tasks,
         \A i \in DOMAIN dToMain' : \E j \in DOMAIN dToMain : dToMain'[i] = dToMain[j],
         \A i \in DOMAIN fs : fs[i][1] = "add" => Sound(fs[i][2])'
  PROVE  TasksSound'
<1>1. \A t : Sound(t) => Sound(t)'
  BY SoundStays
<1>2. \A i \in DOMAIN dToWorker' :
        \/ \E j \in DOMAIN dToWorker : dToWorker'[i] = dToWorker[j]
        \/ \E j \in DOMAIN fs : dToWorker'[i] = fs[j]
  BY QueueAfter DEF OfferInv
<1>3. (\A t \in tasks : Sound(t))'
  BY <1>1 DEF OfferInv, TasksSound
<1>4. (\A i \in DOMAIN dToMain : Sound(dToMain[i]))'
  <2>1. ASSUME NEW i \in DOMAIN dToMain', NEW t, t = dToMain'[i] PROVE Sound(t)'
    BY <1>1, <2>1 DEF OfferInv, TasksSound
  <2>2. QED
    BY <2>1 DEF Sound
<1>5. (\A i \in DOMAIN dToWorker : dToWorker[i][1] = "add" => Sound(dToWorker[i][2]))'
  <2>1. ASSUME NEW i \in DOMAIN dToWorker', dToWorker'[i][1] = "add",
               NEW t, t = dToWorker'[i][2]
        PROVE  Sound(t)'
    BY <1>1, <1>2, <2>1 DEF OfferInv, TasksSound
  <2>2. QED
    BY <2>1 DEF Sound
<1>6. QED
  BY <1>3, <1>4, <1>5 DEF TasksSound

\* What is asked of an offer, and the queue it makes.
LEMMA AskTypes ==
  ASSUME NEW o \in 1..OfferBound, NEW w \in {"mark", "text"}
  PROVE  /\ <<Ask(o, w)>> \in Seq(Functors)
         /\ Ask(o, w)[2] = [offer |-> o, what |-> w]
<1>1. [offer |-> o, what |-> w] \in Task
  BY DEF Task
<1>2. Ask(o, w) \in Functors
  BY <1>1 DEF Ask, Functors
<1>3. QED
  BY <1>2 DEF Ask

-----------------------------------------------------------------------------

LEMMA SelectHolds ==
  ASSUME OfferInv, NEW k \in Kinds, Select(k) PROVE OfferInv'
<1> DEFINE n == Len(kind)
           w == IF k = "plain" THEN "text" ELSE "mark"
<1>1. /\ n \in Nat /\ n < OfferBound /\ n + 1 \in 1..OfferBound
      /\ kind' = Append(kind, k) /\ current' = n + 1 /\ isPassword' = FALSE
      /\ UNCHANGED <<tasks, dToMain, clipboard>>
      /\ current \in 0..n
  BY OfferAssumption DEF Select, OfferInv, OfferTypes
<1>2. PICK fs \in Seq(Functors) :
        /\ fs = Forget(current) \o <<Ask(n + 1, w)>>
        /\ \A i \in DOMAIN fs : fs[i][1] = "add" => fs[i][2] = [offer |-> n + 1, what |-> w]
  <2>1. /\ Forget(current) \in Seq(Functors)
        /\ \A i \in DOMAIN Forget(current) : Forget(current)[i][1] # "add"
    <3>1. current \in Nat
      BY <1>1
    <3>2. QED
      BY <3>1, ForgetTypes
  <2>2. /\ <<Ask(n + 1, w)>> \in Seq(Functors)
        /\ Ask(n + 1, w)[2] = [offer |-> n + 1, what |-> w]
    BY <1>1, AskTypes
  <2>3. ASSUME NEW f \in Seq(Functors), \A i \in DOMAIN f : f[i][1] # "add",
               NEW a, <<a>> \in Seq(Functors), a[2] = [offer |-> n + 1, what |-> w]
        PROVE  /\ f \o <<a>> \in Seq(Functors)
               /\ \A i \in DOMAIN (f \o <<a>>) :
                    (f \o <<a>>)[i][1] = "add"
                      => (f \o <<a>>)[i][2] = [offer |-> n + 1, what |-> w]
    <3>1. /\ f \o <<a>> \in Seq(Functors)
          /\ \A i \in DOMAIN (f \o <<a>>) :
               \/ i \in DOMAIN f /\ (f \o <<a>>)[i] = f[i]
               \/ (f \o <<a>>)[i] = a
      BY <2>3
    <3>2. QED
      BY <2>3, <3>1
  <2>4. QED
    BY <2>1, <2>2, <2>3
<1>3. ToReader(fs)
  BY <1>2 DEF Select
<1>4. /\ kind' \in Seq(Kinds) /\ Len(kind') = n + 1
      /\ DOMAIN kind = 1..n /\ DOMAIN kind' = 1..(n + 1)
      /\ \A o \in 1..n : kind'[o] = kind[o]
      /\ kind'[n + 1] = k
  BY <1>1 DEF OfferInv, OfferTypes
<1>5. OffersStay
  BY <1>1, <1>4 DEF OffersStay
<1>6. OfferTypes'
  <2>1. dToWorker' \in Seq(Functors)
    BY <1>3, QueueAfter DEF OfferInv
  <2>2. clipboard' \in [offer : 0..(n + 1), password : BOOLEAN]
    BY <1>1 DEF OfferInv, OfferTypes
  <2>3. current' \in 0..(n + 1) /\ n + 1 <= OfferBound
    BY <1>1, OfferAssumption
  <2>4. QED
    BY <1>1, <1>4, <2>1, <2>2, <2>3 DEF OfferInv, OfferTypes
<1>7. ASSUME NEW t, t = [offer |-> n + 1, what |-> w] PROVE Sound(t)'
  <2>1. t.offer = n + 1 /\ n + 1 \in DOMAIN kind' /\ kind'[t.offer] = k
    BY <1>1, <1>4, <1>7
  <2>2. CASE k = "plain"
    <3>1. t.what = "text" /\ isPassword' = (kind'[t.offer] = "marked")
      BY <1>1, <1>7, <2>1, <2>2
    <3>2. QED
      BY <2>1, <2>2, <3>1 DEF Sound
  <2>3. CASE k # "plain"
    <3>1. t.what = "mark"
      BY <1>7, <2>3
    <3>2. QED
      BY <2>1, <2>3, <3>1 DEF Sound
  <2>4. QED
    BY <2>2, <2>3
<1>8. \A i \in DOMAIN fs : fs[i][1] = "add" => Sound(fs[i][2])'
  BY <1>2, <1>7
<1>9. TasksSound'
  BY <1>1, <1>3, <1>5, <1>8, TasksStaySound
<1>10. NotYetReceived'
  BY <1>1 DEF NotYetReceived, OfferInv, OfferTypes
<1>11. QED
  BY <1>6, <1>9, <1>10 DEF OfferInv

LEMMA ForgetHolds ==
  ASSUME OfferInv, current' = 0, ToReader(Forget(current)),
         UNCHANGED <<kind, isPassword, dToMain, tasks, clipboard>>
  PROVE  OfferInv'
<1>1. /\ Forget(current) \in Seq(Functors)
      /\ \A i \in DOMAIN Forget(current) : Forget(current)[i][1] # "add"
  <2>1. current \in Nat
    BY DEF OfferInv, OfferTypes
  <2>2. QED
    BY <2>1, ForgetTypes
<1>2. OffersStay
  BY DEF OffersStay, OfferInv, OfferTypes
<1>3. dToWorker' \in Seq(Functors)
  BY <1>1, QueueAfter DEF OfferInv
<1>4. OfferTypes'
  BY <1>3 DEF OfferInv, OfferTypes
<1>5. TasksSound'
  BY <1>1, <1>2, TasksStaySound
<1>6. QED
  BY <1>4, <1>5 DEF OfferInv, NotYetReceived

\* What the first data for the main thread is of.
LEMMA FirstData ==
  ASSUME OfferInv, dToMain # <<>>
  PROVE  /\ Head(dToMain) \in Task /\ Tail(dToMain) \in Seq(Task)
         /\ Sound(Head(dToMain))
         /\ \A i \in DOMAIN Tail(dToMain) :
              \E j \in DOMAIN dToMain : Tail(dToMain)[i] = dToMain[j]
<1>1. /\ 1 \in DOMAIN dToMain /\ Head(dToMain) = dToMain[1]
      /\ Head(dToMain) \in Task /\ Tail(dToMain) \in Seq(Task)
      /\ \A i \in DOMAIN Tail(dToMain) :
           i + 1 \in DOMAIN dToMain /\ Tail(dToMain)[i] = dToMain[i + 1]
  BY DEF OfferInv, OfferTypes
<1>2. QED
  BY <1>1 DEF OfferInv, TasksSound

LEMMA MainDataHolds == OfferInv /\ MainData => OfferInv'
<1> SUFFICES ASSUME OfferInv, MainData PROVE OfferInv'
  OBVIOUS
<1> DEFINE d == Head(dToMain)
<1>1. /\ dToMain # <<>> /\ dToMain' = Tail(dToMain) /\ UNCHANGED <<kind, tasks>>
  BY DEF MainData
<1>2. /\ d \in Task /\ Tail(dToMain) \in Seq(Task) /\ Sound(d)
      /\ \A i \in DOMAIN dToMain' : \E j \in DOMAIN dToMain : dToMain'[i] = dToMain[j]
  BY <1>1, FirstData
\* Whatever it tells the reader.
<1>3. ASSUME NEW fs \in Seq(Functors), ToReader(fs), OffersStay,
             \A i \in DOMAIN fs : fs[i][1] = "add" => Sound(fs[i][2])',
             current' \in {0, current}, isPassword' \in BOOLEAN,
             clipboard' \in [offer : 0..Len(kind), password : BOOLEAN],
             current' # 0 => clipboard' = clipboard
      PROVE  OfferInv'
  <2>1. dToWorker' \in Seq(Functors)
    BY <1>3, QueueAfter DEF OfferInv
  <2>2. OfferTypes'
    BY <1>1, <1>2, <1>3, <2>1 DEF OfferInv, OfferTypes
  <2>3. TasksSound'
    BY <1>1, <1>2, <1>3, TasksStaySound
  <2>4. NotYetReceived'
    BY <1>3 DEF OfferInv, NotYetReceived
  <2>5. QED
    BY <2>2, <2>3, <2>4 DEF OfferInv
<1>4. <<>> \in Seq(Functors) /\ DOMAIN <<>> = {}
  OBVIOUS
<1>5. ASSUME UNCHANGED <<current, isPassword, clipboard, dToWorker>> PROVE OfferInv'
  <2>1. ToReader(<<>>)
    BY <1>5 DEF ToReader, OfferInv, OfferTypes
  <2>2. OffersStay
    BY <1>1, <1>5, NothingChanges
  <2>3. QED
    BY <1>3, <1>4, <1>5, <2>1, <2>2 DEF OfferInv, OfferTypes
<1>6. CASE d.offer # current
  BY <1>5, <1>6 DEF MainData
<1>7. CASE d.offer = current /\ d.what = "mark"
  <2>1. Marked(current)
    BY <1>7 DEF MainData
  <2>2. CASE kind[current] = "secret"
    BY <1>5, <2>1, <2>2 DEF Marked
  <2>3. CASE kind[current] # "secret"
    <3>1. /\ isPassword' = TRUE /\ ToReader(<<Ask(current, "text")>>)
          /\ UNCHANGED <<current, clipboard>>
      BY <2>1, <2>3 DEF Marked
    <3>2. current \in 1..OfferBound /\ current \in DOMAIN kind /\ kind[current] = "marked"
      <4>1. current \in DOMAIN kind /\ kind[current] # "plain"
        BY <1>2, <1>7 DEF Sound
      <4>2. current \in 1..OfferBound /\ kind[current] \in Kinds
        BY <4>1, OfferAssumption DEF OfferInv, OfferTypes
      <4>3. QED
        BY <2>3, <4>1, <4>2 DEF Kinds
    <3>3. /\ <<Ask(current, "text")>> \in Seq(Functors)
          /\ Ask(current, "text")[2] = [offer |-> current, what |-> "text"]
      BY <3>2, AskTypes
    <3>4. OffersStay
      BY <1>1, <3>1, <3>2 DEF OffersStay
    <3>5. ASSUME NEW t, t = [offer |-> current, what |-> "text"] PROVE Sound(t)'
      BY <1>1, <3>1, <3>2, <3>5 DEF Sound
    <3>6. \A i \in DOMAIN <<Ask(current, "text")>> :
            Sound(<<Ask(current, "text")>>[i][2])'
      <4>1. Sound(Ask(current, "text")[2])'
        BY <3>1, <3>3, <3>5 DEF Sound
      <4>2. QED
        BY <4>1
    <3>7. QED
      BY <1>3, <3>1, <3>3, <3>4, <3>6 DEF OfferInv, OfferTypes
  <2>4. QED
    BY <2>2, <2>3
<1>8. CASE d.offer = current /\ d.what # "mark"
  <2>1. /\ clipboard' = [offer |-> current, password |-> isPassword] /\ current' = 0
        /\ ToReader(Forget(current)) /\ isPassword' = isPassword
    BY <1>8 DEF MainData, Received
  <2>2. /\ Forget(current) \in Seq(Functors)
        /\ \A i \in DOMAIN Forget(current) : Forget(current)[i][1] # "add"
    BY ForgetTypes DEF OfferInv, OfferTypes
  <2>3. OffersStay
    BY <1>1, <2>1 DEF OffersStay, OfferInv, OfferTypes
  <2>4. QED
    BY <1>3, <2>1, <2>2, <2>3 DEF OfferInv, OfferTypes
<1>9. QED
  BY <1>6, <1>7, <1>8

\* Steps of the reader thread, and of the main thread while it ends: what is left
\* was there, or was asked for.
LEMMA LessToDo ==
  ASSUME OfferInv, UNCHANGED <<kind, current, isPassword, clipboard>>,
         tasks' \subseteq Task, dToMain' \in Seq(Task), dToWorker' \in Seq(Functors),
         \A t \in tasks' : Sound(t),
         \A i \in DOMAIN dToMain' : Sound(dToMain'[i]),
         \A i \in DOMAIN dToWorker' :
           dToWorker'[i][1] = "add" => \E j \in DOMAIN dToWorker : dToWorker'[i] = dToWorker[j]
  PROVE  OfferInv'
<1>1. OfferTypes' /\ NotYetReceived'
  BY DEF OfferInv, OfferTypes, NotYetReceived
<1>2. OffersStay
  BY NothingChanges
<1>3. \A t : Sound(t) => Sound(t)'
  BY <1>2, SoundStays
<1>4. (\A t \in tasks : Sound(t))'
  BY <1>3
<1>5. (\A i \in DOMAIN dToMain : Sound(dToMain[i]))'
  <2>1. ASSUME NEW i \in DOMAIN dToMain', NEW t, t = dToMain'[i] PROVE Sound(t)'
    BY <1>3, <2>1
  <2>2. QED
    BY <2>1 DEF Sound
<1>6. (\A i \in DOMAIN dToWorker : dToWorker[i][1] = "add" => Sound(dToWorker[i][2]))'
  <2>1. ASSUME NEW i \in DOMAIN dToWorker', dToWorker'[i][1] = "add",
               NEW t, t = dToWorker'[i][2]
        PROVE  Sound(t)'
    BY <1>3, <2>1 DEF OfferInv, TasksSound
  <2>2. QED
    BY <2>1 DEF Sound
<1>7. QED
  BY <1>1, <1>4, <1>5, <1>6 DEF OfferInv, TasksSound

LEMMA OfferStep == OfferInv /\ [DNext]_dVars => OfferInv'
<1> SUFFICES ASSUME OfferInv, [DNext]_dVars PROVE OfferInv'
  OBVIOUS
<1>1. /\ tasks \subseteq Task /\ dToMain \in Seq(Task) /\ dToWorker \in Seq(Functors)
      /\ \A t \in tasks : Sound(t)
      /\ \A i \in DOMAIN dToMain : Sound(dToMain[i])
  BY DEF OfferInv, OfferTypes, TasksSound
<1>2. ASSUME UNCHANGED <<kind, current, isPassword, clipboard, tasks, dToMain, dToWorker>>
      PROVE  OfferInv'
  BY <1>1, <1>2, LessToDo
<1>3. CASE UNCHANGED dVars \/ SetTerminate \/ DJoin \/ DAttach \/ CheckTerminate
  BY <1>2, <1>3 DEF dVars, SetTerminate, DJoin, DAttach, CheckTerminate
<1>4. CASE Unselect
  BY <1>4, ForgetHolds DEF Unselect
<1>5. CASE DDestroy
  BY <1>5, ForgetHolds DEF DDestroy
<1>6. CASE TellToExit
  <2>1. <<<<"exit">>>> \in Seq(Functors) /\ ToReader(<<<<"exit">>>>)
    BY <1>6 DEF TellToExit, Functors
  <2>2. /\ dToWorker' \in Seq(Functors)
        /\ \A i \in DOMAIN dToWorker' :
             dToWorker'[i][1] = "add" => \E j \in DOMAIN dToWorker : dToWorker'[i] = dToWorker[j]
    <3>1. PICK fs \in Seq(Functors) : fs = <<<<"exit">>>>
      BY <2>1
    <3>2. \A j \in DOMAIN fs : fs[j][1] # "add"
      BY <3>1
    <3>3. /\ dToWorker' \in Seq(Functors)
          /\ \A i \in DOMAIN dToWorker' :
               \/ \E j \in DOMAIN dToWorker : dToWorker'[i] = dToWorker[j]
               \/ \E j \in DOMAIN fs : dToWorker'[i] = fs[j]
      <4>1. OfferTypes /\ ToReader(fs)
        BY <2>1, <3>1 DEF OfferInv
      <4>2. QED
        BY <4>1, QueueAfter
    <3>4. QED
      BY <3>2, <3>3
  <2>3. QED
    BY <1>1, <1>6, <2>2, LessToDo DEF TellToExit
<1>7. CASE TaskFunctor
  <2> DEFINE h == Head(dToWorker)
  <2>1. /\ h \in Functors /\ dToWorker' = Tail(dToWorker) /\ dToWorker' \in Seq(Functors)
        /\ 1 \in DOMAIN dToWorker /\ h = dToWorker[1]
        /\ \A i \in DOMAIN dToWorker' : \E j \in DOMAIN dToWorker : dToWorker'[i] = dToWorker[j]
    <3>1. /\ h \in Functors /\ dToWorker' = Tail(dToWorker) /\ dToWorker' \in Seq(Functors)
          /\ 1 \in DOMAIN dToWorker /\ h = dToWorker[1]
          /\ \A i \in DOMAIN dToWorker' :
               i + 1 \in DOMAIN dToWorker /\ dToWorker'[i] = dToWorker[i + 1]
      <4>1. dToWorker # <<>> /\ dToWorker' = Tail(dToWorker)
        BY <1>7 DEF TaskFunctor
      <4>2. QED
        BY <1>1, <4>1
    <3>2. QED
      BY <3>1
  <2>2. h[1] = "add" => h[2] \in Task /\ Sound(h[2])
    BY <2>1 DEF Functors, OfferInv, TasksSound
  <2>3. tasks' \subseteq tasks \cup (IF h[1] = "add" THEN {h[2]} ELSE {})
    BY <1>7 DEF TaskFunctor
  <2>4. QED
    BY <1>1, <1>7, <2>1, <2>2, <2>3, LessToDo DEF TaskFunctor
<1>8. CASE DDetach
  BY <1>1, <1>8, LessToDo DEF DDetach
<1>9. ASSUME NEW t \in Task, TaskEnds(t) PROVE OfferInv'
  <2>1. /\ dToMain' \in Seq(Task)
        /\ \A i \in DOMAIN dToMain' : Sound(dToMain'[i])
    <3>1. CASE dToMain' = dToMain
      BY <1>1, <3>1
    <3>2. CASE dToMain' = Append(dToMain, t)
      <4>1. /\ dToMain' \in Seq(Task)
            /\ \A i \in DOMAIN dToMain' :
                 \/ dToMain'[i] = t
                 \/ i \in DOMAIN dToMain /\ dToMain'[i] = dToMain[i]
        <5>1. ASSUME NEW s \in Seq(Task)
              PROVE  /\ Append(s, t) \in Seq(Task)
                     /\ \A i \in DOMAIN Append(s, t) :
                          \/ Append(s, t)[i] = t
                          \/ i \in DOMAIN s /\ Append(s, t)[i] = s[i]
          BY <1>9
        <5>2. QED
          BY <1>1, <3>2, <5>1
      <4>2. QED
        BY <1>1, <1>9, <4>1 DEF TaskEnds
    <3>3. QED
      BY <1>9, <3>1, <3>2 DEF TaskEnds
  <2>2. QED
    BY <1>1, <1>9, <2>1, LessToDo DEF TaskEnds
<1>10. ASSUME NEW t \in Task, TaskFails(t) PROVE OfferInv'
  BY <1>1, <1>10, LessToDo DEF TaskFails
<1>11. QED
  BY <1>3, <1>4, <1>5, <1>6, <1>7, <1>8, <1>9, <1>10, SelectHolds, MainDataHolds
     DEF DNext, DMainStep, DWorkerStep

-----------------------------------------------------------------------------

TextStep ==
  clipboard' # clipboard =>
    /\ clipboard'.offer = current /\ clipboard'.offer > clipboard.offer
    /\ kind[current] # "secret"
    /\ clipboard'.password = (kind[current] = "marked")

LEMMA TextStepHolds == OfferInv /\ [DNext]_dVars => [TextStep]_dVars
<1> SUFFICES ASSUME OfferInv, DNext, clipboard' # clipboard PROVE TextStep
  BY DEF TextStep
<1>1. MainData
  BY DEF DNext, Select, Unselect, DDestroy, DMainStep, SetTerminate, TellToExit, DJoin,
         DWorkerStep, DAttach, CheckTerminate, TaskFunctor, DDetach, TaskEnds, TaskFails
<1>2. /\ Head(dToMain).offer = current /\ Head(dToMain).what # "mark"
      /\ clipboard' = [offer |-> current, password |-> isPassword]
      /\ dToMain # <<>>
  BY <1>1 DEF MainData, Marked, Received
<1>3. Head(dToMain) \in Task /\ Sound(Head(dToMain))
  BY <1>2, FirstData
<1>4. Head(dToMain).what = "text"
  BY <1>2, <1>3 DEF Task
<1>5. /\ current \in DOMAIN kind /\ kind[current] # "secret"
      /\ isPassword = (kind[current] = "marked")
  BY <1>2, <1>3, <1>4 DEF Sound
<1>6. current > clipboard.offer
  BY <1>5 DEF OfferInv, OfferTypes, NotYetReceived
<1>7. QED
  BY <1>2, <1>5, <1>6 DEF TextStep

\* However many selections there are and however late their data is read: none of
\* an offer that was replaced, and no secret, reaches the clipboard.
THEOREM OnlyCurrentTextAlways == DSpec => OnlyCurrentText
<1>1. DInit => OfferInv
  BY OfferInit
<1>2. OfferInv /\ [DNext]_dVars => OfferInv'
  BY OfferStep
<1>3. OfferInv /\ [DNext]_dVars => [TextStep]_dVars
  BY TextStepHolds
<1>4. QED
  BY <1>1, <1>2, <1>3, PTL DEF DSpec, OnlyCurrentText, TextStep
=============================================================================
