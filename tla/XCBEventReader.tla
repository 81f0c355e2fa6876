---------------------------- MODULE XCBEventReader ----------------------------
(***************************************************************************)
(* XCBEventReader: a thread takes the events of an X server from libxcb,   *)
(* the main thread processes them.  The main thread also asks the server   *)
(* for replies; libxcb then reads whatever is in the socket and keeps the  *)
(* events in a queue of its own, of which the file descriptor that the     *)
(* reader watches tells nothing.  So each iteration of the main loop ends  *)
(* with waking the reader up.                                              *)
(***************************************************************************)
EXTENDS Naturals, Sequences

CONSTANTS
  XEventBound,     \* how many events the server sends
  ReplyBound       \* how many replies the main thread waits for

ASSUME XAssumption == XEventBound \in Nat /\ ReplyBound \in Nat

VARIABLES
  xMain,           \* where the main thread is
  xWorker,         \* where the reader thread is
  xToMain,         \* functors for the main thread
  xToWorker, xAttached,    \* functors for the reader thread, and whether its
                   \* dispatcher is attached to its loop
  post,            \* the post event of the main loop is due
  deferred,        \* deferEvent_ is set
  flagIn,          \* the flags onIOEvent was called with have In
  hadError,        \* hadError_
  batch,           \* events, local to onIOEvent
  events,          \* events_, behind mutex_
  xSocket, xQueue, \* libxcb: events in the socket and in its queue
  xError,          \* libxcb: the connection is broken
  xSent,           \* history: how many events the server sent
  processed,       \* history: the events the main thread has seen, in order
  replies,         \* how many replies it waited for
  missed           \* history: the last wake-up came before the reader's
                   \* dispatcher was attached

xVars == <<xMain, xWorker, xToMain, xToWorker, xAttached, post, deferred, flagIn,
           hadError, batch, events, xSocket, xQueue, xError, xSent, processed,
           replies, missed>>

library == <<xSocket, xQueue, xError, xSent>>

XInit ==
  /\ xMain = "free" /\ xWorker = "start"
  /\ xToMain = <<>> /\ xToWorker = <<>> /\ xAttached = FALSE
  /\ post = TRUE /\ deferred = FALSE
  /\ flagIn = FALSE /\ hadError = FALSE
  /\ batch = <<>> /\ events = <<>>
  /\ xSocket = <<>> /\ xQueue = <<>> /\ xError = FALSE
  /\ xSent = 0 /\ processed = <<>> /\ replies = 0
  /\ missed = FALSE

-----------------------------------------------------------------------------
(* The X server.                                                            *)

XSend ==
  /\ ~xError /\ xSent < XEventBound
  /\ xSent' = xSent + 1
  /\ xSocket' = Append(xSocket, xSent + 1)
  /\ UNCHANGED <<xMain, xWorker, xToMain, xToWorker, xAttached, post, deferred,
                 flagIn, hadError, batch, events, xQueue, xError, processed,
                 replies, missed>>

XBreak ==
  /\ ~xError
  /\ xError' = TRUE
  /\ UNCHANGED <<xMain, xWorker, xToMain, xToWorker, xAttached, post, deferred,
                 flagIn, hadError, batch, events, xSocket, xQueue, xSent, processed,
                 replies, missed>>

-----------------------------------------------------------------------------
(* The main thread, one callback of its loop at a time.                     *)

\* A callback waits for a reply: what is in the socket goes to libxcb's queue.
WaitForReply ==
  /\ xMain = "free" /\ ~xError
  /\ replies < ReplyBound
  /\ replies' = replies + 1
  /\ xQueue' = xQueue \o xSocket
  /\ xSocket' = <<>>
  /\ post' = TRUE
  /\ UNCHANGED <<xMain, xWorker, xToMain, xToWorker, xAttached, deferred, flagIn,
                 hadError, batch, events, xError, xSent, processed, missed>>

ProcessEvent ==
  /\ xMain = "free" /\ xToMain # <<>> /\ Head(xToMain) = "process"
  /\ xToMain' = Tail(xToMain)
  /\ processed' = processed \o events
  /\ events' = <<>>
  /\ post' = TRUE
  /\ UNCHANGED <<xMain, xWorker, xToWorker, xAttached, deferred, flagIn, hadError,
                 batch, library, replies, missed>>

DeferRemoval ==
  /\ xMain = "free" /\ xToMain # <<>> /\ Head(xToMain) = "fail"
  /\ xToMain' = Tail(xToMain)
  /\ deferred' = TRUE
  /\ post' = TRUE
  /\ UNCHANGED <<xMain, xWorker, xToWorker, xAttached, flagIn, hadError, batch,
                 events, library, processed, replies, missed>>

\* Mutant of PostEvent: the reader is left to the file descriptor.
PostEvent_NoWakeUp ==
  /\ xMain = "free" /\ post
  /\ post' = FALSE
  /\ UNCHANGED <<xMain, xWorker, xToMain, xToWorker, xAttached, deferred, flagIn,
                 hadError, batch, events, library, processed, replies, missed>>

PostEvent ==
  /\ xMain = "free" /\ post
  /\ post' = FALSE
  /\ IF xError THEN UNCHANGED <<xToWorker, missed>>
     ELSE /\ xToWorker' = IF xAttached THEN Append(xToWorker, "wake") ELSE xToWorker
          /\ missed' = ~xAttached
  /\ UNCHANGED <<xMain, xWorker, xToMain, xAttached, deferred, flagIn, hadError,
                 batch, events, library, processed, replies>>

\* The destructor, from the deferred event or because the module goes away.
XDestroy ==
  /\ xMain = "free"
  /\ xToWorker' = IF xAttached THEN Append(xToWorker, "exit") ELSE xToWorker
  /\ missed' = (xWorker = "start")
  /\ xMain' = "join"
  /\ UNCHANGED <<xWorker, xToMain, xAttached, post, deferred, flagIn, hadError, batch,
                 events, library, processed, replies>>

Removal == deferred /\ XDestroy

XJoin ==
  /\ xMain = "join" /\ xWorker = "ended"
  /\ xMain' = "gone"
  /\ UNCHANGED <<xWorker, xToMain, xToWorker, xAttached, post, deferred, flagIn,
                 hadError, batch, events, library, processed, replies, missed>>

XMainStep == ProcessEvent \/ DeferRemoval \/ PostEvent \/ Removal \/ XJoin

-----------------------------------------------------------------------------
(* The reader thread.                                                       *)

XAttach ==
  /\ xWorker = "start"
  /\ xAttached' = TRUE
  /\ xWorker' = "loop"
  /\ UNCHANGED <<xMain, xToMain, xToWorker, post, deferred, flagIn, hadError, batch,
                 events, library, processed, replies, missed>>

XWorkerFunctor ==
  /\ xWorker = "loop" /\ xToWorker # <<>>
  /\ xToWorker' = Tail(xToWorker)
  /\ flagIn' = FALSE
  /\ xWorker' = IF Head(xToWorker) = "exit" THEN "detach" ELSE "enter"
  /\ UNCHANGED <<xMain, xToMain, xAttached, post, deferred, hadError, batch, events,
                 library, processed, replies, missed>>

XReadable ==
  /\ xWorker = "loop"
  /\ xSocket # <<>> \/ xError
  /\ flagIn' = TRUE
  /\ xWorker' = "enter"
  /\ UNCHANGED <<xMain, xToMain, xToWorker, xAttached, post, deferred, hadError,
                 batch, events, library, processed, replies, missed>>

\* Mutant of Enter: an error is told about only by a call for the descriptor.
Enter_Silent ==
  /\ xWorker = "enter"
  /\ IF xError
     THEN /\ hadError' = TRUE
          /\ xToMain' = IF hadError \/ ~flagIn THEN xToMain
                        ELSE Append(xToMain, "fail")
          /\ xWorker' = IF flagIn THEN "detach" ELSE "loop"
     ELSE /\ xWorker' = "poll"
          /\ UNCHANGED <<hadError, xToMain>>
  /\ UNCHANGED <<xMain, xToWorker, xAttached, post, deferred, flagIn, batch, events,
                 library, processed, replies, missed>>

\* The start of onIOEvent.  An error ends the loop when the call came for the
\* file descriptor, and is left to that call when it came by a wake-up.
Enter ==
  /\ xWorker = "enter"
  /\ IF xError
     THEN /\ hadError' = TRUE
          /\ xToMain' = IF hadError THEN xToMain ELSE Append(xToMain, "fail")
          /\ xWorker' = IF flagIn THEN "detach" ELSE "loop"
     ELSE /\ xWorker' = "poll"
          /\ UNCHANGED <<hadError, xToMain>>
  /\ UNCHANGED <<xMain, xToWorker, xAttached, post, deferred, flagIn, batch, events,
                 library, processed, replies, missed>>

\* xcb_poll_for_event reads the socket when the queue is empty,
\* xcb_poll_for_queued_event does not.
Poll ==
  /\ xWorker = "poll"
  /\ IF xQueue # <<>>
     THEN /\ batch' = Append(batch, Head(xQueue))
          /\ xQueue' = Tail(xQueue)
          /\ UNCHANGED <<xSocket, xWorker>>
     ELSE IF flagIn /\ xSocket # <<>>
     THEN /\ batch' = Append(batch, Head(xSocket))
          /\ xQueue' = Tail(xSocket)
          /\ xSocket' = <<>>
          /\ UNCHANGED xWorker
     ELSE /\ xWorker' = "splice"
          /\ UNCHANGED <<batch, xQueue, xSocket>>
  /\ UNCHANGED <<xMain, xToMain, xToWorker, xAttached, post, deferred, flagIn,
                 hadError, events, xError, xSent, processed, replies, missed>>

\* Mutant of Splice: what was read last is put in front.
Splice_InFront ==
  /\ xWorker = "splice"
  /\ events' = batch \o events
  /\ batch' = <<>>
  /\ xWorker' = IF events' # <<>> THEN "announce" ELSE "loop"
  /\ UNCHANGED <<xMain, xToMain, xToWorker, xAttached, post, deferred, flagIn,
                 hadError, library, processed, replies, missed>>

Splice ==
  /\ xWorker = "splice"
  /\ events' = events \o batch
  /\ batch' = <<>>
  /\ xWorker' = IF events' # <<>> THEN "announce" ELSE "loop"
  /\ UNCHANGED <<xMain, xToMain, xToWorker, xAttached, post, deferred, flagIn,
                 hadError, library, processed, replies, missed>>

Announce ==
  /\ xWorker = "announce"
  /\ xToMain' = Append(xToMain, "process")
  /\ xWorker' = "loop"
  /\ UNCHANGED <<xMain, xToWorker, xAttached, post, deferred, flagIn, hadError, batch,
                 events, library, processed, replies, missed>>

XDetach ==
  /\ xWorker = "detach"
  /\ xAttached' = FALSE
  /\ xWorker' = "ended"
  /\ UNCHANGED <<xMain, xToMain, xToWorker, post, deferred, flagIn, hadError, batch,
                 events, library, processed, replies, missed>>

XWorkerStep ==
  XAttach \/ XWorkerFunctor \/ XReadable \/ Enter \/ Poll \/ Splice \/ Announce \/ XDetach

XNext ==
  XSend \/ XBreak \/ WaitForReply \/ XDestroy \/ XMainStep \/ XWorkerStep

\* Both threads are scheduled.
XFairness == WF_xVars(XMainStep) /\ WF_xVars(XWorkerStep)

XSpec == XInit /\ [][XNext]_xVars /\ XFairness

-----------------------------------------------------------------------------

\* Between the server and the main thread no event is lost, doubled or overtaken,
\* whoever of the two threads got it out of the socket.
XOrder ==
  processed \o events \o batch \o xQueue \o xSocket = [n \in 1..xSent |-> n]

\* No event is left in libxcb's queue: what the server sends is processed, unless
\* the connection ends, or the main loop has gone to sleep before the reader
\* could be woken up.
XEventsProcessed ==
  \A n \in 1..XEventBound :
    xSent >= n ~> Len(processed) >= n \/ xError \/ xMain # "free" \/ missed

\* A broken connection is removed, and its reader does not hold up whoever removes
\* it, provided that it was there to be told.
XRemovalEnds == xError \/ xMain = "join" ~> xMain = "gone" \/ missed
=============================================================================
