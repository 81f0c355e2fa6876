-------------------------- MODULE WaylandEventReader --------------------------
(***************************************************************************)
(* WaylandEventReader: a thread reads from the socket of a compositor, the *)
(* main thread dispatches what was read.  libwayland wants each reader to  *)
(* announce itself (wl_display_prepare_read) and then either to read or to *)
(* cancel; here the main thread announces and the reader thread reads.     *)
(*                                                                         *)
(* Each action is what a thread does between two points where the other    *)
(* one can come in: the mutex, a wait, a call of libwayland or of a        *)
(* dispatcher.  The two dispatchers are queues, as EventDispatcher shows.  *)
(***************************************************************************)
EXTENDS Naturals, Sequences

CONSTANT WlEventBound      \* how many events the compositor sends

ASSUME WlAssumption == WlEventBound \in Nat

VARIABLES
  quitting, isReading,     \* quitting_ and isReading_, behind mutex_
  wlMain,                  \* where the main thread is
  wlWorker,                \* where the reader thread is
  wlToMain,                \* functors for the main thread
  wlToWorker, wlAttached,  \* functors for the reader thread, and whether its
                           \* dispatcher is attached to its loop
  ioEvent,                 \* the reader watches the socket
  hangup,                  \* the flags of the event it handles have Err or Hup
  prepared,                \* libwayland: announced and neither read nor cancelled
  socket, queue,           \* libwayland: events in the socket, and read from it
  hup, wlError,            \* the socket is closed; libwayland knows of an error
  sent, dispatched,        \* history: events sent and events dispatched
  unheard                  \* history: the reader was told to leave before it
                           \* could be told anything

wlVars == <<quitting, isReading, wlMain, wlWorker, wlToMain, wlToWorker,
            wlAttached, ioEvent, hangup, prepared, socket, queue, hup, wlError,
            sent, dispatched, unheard>>

queues == <<wlToMain, wlToWorker, wlAttached, unheard>>
display == <<prepared, socket, queue, hup, wlError, sent, dispatched>>

\* Mutant of WlInit: the first dispatch is left to the socket.
WlInit_NoDispatch ==
  /\ quitting = FALSE /\ isReading = FALSE
  /\ wlMain = "free" /\ wlWorker = "start"
  /\ wlToMain = <<>>
  /\ wlToWorker = <<>> /\ wlAttached = FALSE
  /\ ioEvent = FALSE /\ hangup = FALSE
  /\ prepared = 0 /\ socket = 0 /\ queue = 0
  /\ hup = FALSE /\ wlError = FALSE
  /\ sent = 0 /\ dispatched = 0
  /\ unheard = FALSE

\* The constructor: a first dispatch is scheduled and the thread is started.
WlInit ==
  /\ quitting = FALSE /\ isReading = FALSE
  /\ wlMain = "free" /\ wlWorker = "start"
  /\ wlToMain = <<"dispatch">>
  /\ wlToWorker = <<>> /\ wlAttached = FALSE
  /\ ioEvent = FALSE /\ hangup = FALSE
  /\ prepared = 0 /\ socket = 0 /\ queue = 0
  /\ hup = FALSE /\ wlError = FALSE
  /\ sent = 0 /\ dispatched = 0
  /\ unheard = FALSE

-----------------------------------------------------------------------------
(* The compositor, and whoever else takes the connection down.              *)

Send ==
  /\ ~hup /\ sent < WlEventBound
  /\ sent' = sent + 1
  /\ socket' = socket + 1
  /\ UNCHANGED <<quitting, isReading, wlMain, wlWorker, queues, ioEvent, hangup,
                 prepared, queue, hup, wlError, dispatched>>

HangUp ==
  /\ ~hup
  /\ hup' = TRUE
  /\ UNCHANGED <<quitting, isReading, wlMain, wlWorker, queues, ioEvent, hangup,
                 prepared, socket, queue, wlError, sent, dispatched>>

\* The destructor of the connection begins.
Destroy ==
  /\ wlMain = "free"
  /\ wlMain' = "destroy"
  /\ UNCHANGED <<quitting, isReading, wlWorker, queues, ioEvent, hangup, display>>

-----------------------------------------------------------------------------
(* The main thread.                                                         *)

MainFunctor ==
  /\ wlMain = "free" /\ wlToMain # <<>>
  /\ wlToMain' = Tail(wlToMain)
  /\ wlMain' = CASE Head(wlToMain) = "remove" -> "destroy"
                 [] quitting \/ isReading -> "free"
                 [] OTHER -> "dispatch"
  /\ UNCHANGED <<quitting, isReading, wlWorker, wlToWorker, wlAttached, unheard,
                 ioEvent, hangup, display>>

\* wl_display_dispatch_pending, and wl_display_prepare_read, which succeeds when
\* nothing is left to dispatch.
DispatchPending ==
  /\ wlMain = "dispatch"
  /\ IF wlError
     THEN /\ wlMain' = "quit"
          /\ UNCHANGED <<prepared, queue, dispatched>>
     ELSE /\ wlMain' = "prepared"
          /\ prepared' = prepared + 1
          /\ queue' = 0
          /\ dispatched' = dispatched + queue
  /\ UNCHANGED <<quitting, isReading, wlWorker, queues, ioEvent, hangup, socket,
                 hup, wlError, sent>>

\* The end of dispatch.
LetRead ==
  /\ wlMain = "prepared"
  /\ isReading' = TRUE
  /\ wlMain' = "free"
  /\ UNCHANGED <<quitting, wlWorker, queues, ioEvent, hangup, display>>

\* quit(), first part, called by dispatch or by the destructor.
MainQuit ==
  /\ wlMain \in {"quit", "destroy"}
  /\ quitting' = TRUE
  /\ wlMain' = IF wlMain = "quit" THEN "tell" ELSE "tellAndJoin"
  /\ UNCHANGED <<isReading, wlWorker, queues, ioEvent, hangup, display>>

ToWorker(functors) ==
  IF wlAttached THEN wlToWorker \o functors ELSE wlToWorker

\* quit(), second part.  The functor that the destructor leaves for the main
\* thread is void, for it is for this reader only.
MainTell ==
  /\ wlMain \in {"tell", "tellAndJoin"}
  /\ wlToWorker' = ToWorker(<<"exit">>)
  /\ unheard' = (unheard \/ wlWorker = "start")
  /\ wlToMain' = IF wlMain = "tell" THEN Append(wlToMain, "remove") ELSE <<>>
  /\ wlMain' = IF wlMain = "tell" THEN "free" ELSE "join"
  /\ UNCHANGED <<quitting, isReading, wlWorker, wlAttached, ioEvent, hangup, display>>

Join ==
  /\ wlMain = "join" /\ wlWorker = "ended"
  /\ wlMain' = "gone"
  /\ UNCHANGED <<quitting, isReading, wlWorker, queues, ioEvent, hangup, display>>

MainStep == MainFunctor \/ DispatchPending \/ LetRead \/ MainQuit \/ MainTell \/ Join

-----------------------------------------------------------------------------
(* The reader thread.                                                       *)

\* The start of run().
WlAttach ==
  /\ wlWorker = "start"
  /\ wlAttached' = TRUE
  /\ ioEvent' = TRUE
  /\ wlWorker' = "loop"
  /\ UNCHANGED <<quitting, isReading, wlMain, wlToMain, wlToWorker, unheard, hangup,
                 display>>

\* The only functor this thread gets makes its loop exit.
WorkerFunctor ==
  /\ wlWorker = "loop" /\ wlToWorker # <<>>
  /\ wlToWorker' = Tail(wlToWorker)
  /\ wlWorker' = "detach"
  /\ ioEvent' = FALSE
  /\ UNCHANGED <<quitting, isReading, wlMain, wlToMain, wlAttached, unheard, hangup,
                 display>>

OnIOEvent ==
  /\ wlWorker = "loop" /\ ioEvent
  /\ socket > 0 \/ hup
  /\ hangup' = hup
  /\ wlWorker' = "wait"
  /\ UNCHANGED <<quitting, isReading, wlMain, queues, ioEvent, display>>

\* Mutant of Wait: the wait is only for the main thread to let it read.
Wait_IgnoresQuit ==
  /\ wlWorker = "wait"
  /\ isReading
  /\ isReading' = quitting
  /\ ioEvent' = ~quitting
  /\ wlWorker' = IF quitting THEN "loop" ELSE "read"
  /\ UNCHANGED <<quitting, wlMain, queues, hangup, display>>

\* Mutant of Wait: the flag stays set while the thread reads.
Wait_KeepsReading ==
  /\ wlWorker = "wait"
  /\ quitting \/ isReading
  /\ ioEvent' = ~quitting
  /\ wlWorker' = IF quitting THEN "loop" ELSE "read"
  /\ UNCHANGED <<quitting, isReading, wlMain, queues, hangup, display>>

\* The wait for the condition; a socket is no longer watched when quitting.
Wait ==
  /\ wlWorker = "wait"
  /\ quitting \/ isReading
  /\ isReading' = (isReading /\ quitting)
  /\ ioEvent' = ~quitting
  /\ wlWorker' = IF quitting THEN "loop" ELSE "read"
  /\ UNCHANGED <<quitting, wlMain, queues, hangup, display>>

\* wl_display_read_events takes all there is, and finds out about the error.
ReadEvents ==
  /\ wlWorker = "read" /\ ~hangup
  /\ prepared' = prepared - 1
  /\ queue' = queue + socket
  /\ socket' = 0
  /\ wlError' = hup
  /\ wlWorker' = "announce"
  /\ UNCHANGED <<quitting, isReading, wlMain, queues, ioEvent, hangup, hup, sent,
                 dispatched>>

AnnounceRead ==
  /\ wlWorker = "announce"
  /\ wlToMain' = Append(wlToMain, "dispatch")
  /\ wlWorker' = "loop"
  /\ UNCHANGED <<quitting, isReading, wlMain, wlToWorker, wlAttached, unheard,
                 ioEvent, hangup, display>>

CancelRead ==
  /\ wlWorker = "read" /\ hangup
  /\ prepared' = prepared - 1
  /\ wlWorker' = "quit"
  /\ UNCHANGED <<quitting, isReading, wlMain, queues, ioEvent, hangup, socket, queue,
                 hup, wlError, sent, dispatched>>

\* quit(), called by the reader thread.
WorkerQuit ==
  /\ wlWorker = "quit"
  /\ quitting' = TRUE
  /\ wlWorker' = "tell"
  /\ UNCHANGED <<isReading, wlMain, queues, ioEvent, hangup, display>>

WorkerTell ==
  /\ wlWorker = "tell"
  /\ wlToWorker' = ToWorker(<<"exit">>)
  /\ wlToMain' = Append(wlToMain, "remove")
  /\ ioEvent' = FALSE
  /\ wlWorker' = "loop"
  /\ UNCHANGED <<quitting, isReading, wlMain, wlAttached, unheard, hangup, display>>

\* The end of run().
WlDetach ==
  /\ wlWorker = "detach"
  /\ wlAttached' = FALSE
  /\ wlWorker' = "cancel"
  /\ UNCHANGED <<quitting, isReading, wlMain, wlToMain, wlToWorker, unheard, ioEvent,
                 hangup, display>>

EndRun ==
  /\ wlWorker = "cancel"
  /\ prepared' = IF isReading THEN prepared - 1 ELSE prepared
  /\ wlWorker' = "ended"
  /\ UNCHANGED <<quitting, isReading, wlMain, queues, ioEvent, hangup, socket, queue,
                 hup, wlError, sent, dispatched>>

WorkerStep ==
  \/ WlAttach \/ WorkerFunctor \/ OnIOEvent \/ Wait \/ ReadEvents \/ AnnounceRead
  \/ CancelRead \/ WorkerQuit \/ WorkerTell \/ WlDetach \/ EndRun

WlNext == Send \/ HangUp \/ Destroy \/ MainStep \/ WorkerStep

\* Both threads are scheduled.
WlFairness == WF_wlVars(MainStep) /\ WF_wlVars(WorkerStep)

WlSpec == WlInit /\ [][WlNext]_wlVars /\ WlFairness

-----------------------------------------------------------------------------

\* Every read that was announced to libwayland has exactly one place where it
\* will be read or cancelled, so that none is announced twice and none is left
\* when the thread has ended.
ReadsMatched ==
  prepared = (IF wlMain = "prepared" THEN 1 ELSE 0)
           + (IF isReading /\ wlWorker # "ended" THEN 1 ELSE 0)
           + (IF wlWorker = "read" THEN 1 ELSE 0)

\* What the compositor sends is dispatched, unless the reader quits.
EventsDispatched ==
  \A n \in 1..WlEventBound : sent >= n ~> dispatched >= n \/ quitting

\* "Make sure the connection will be removed": when the socket is closed the
\* connection goes away, and the thread that destroys it is not held up, provided
\* that the reader was there to be told.
RemovalEnds ==
  /\ hup ~> wlMain = "gone" \/ unheard
  /\ wlMain = "join" ~> wlMain = "gone" \/ unheard

\* "The destructor will join the reader thread so it's ok."
DestructorJoins == wlMain = "join" ~> wlMain = "gone"
=============================================================================
