------------------------------ MODULE DataReader ------------------------------
(***************************************************************************)
(* The clipboard of a Wayland compositor: DataDevice and DataOffer live in *)
(* the main thread, DataReaderThread reads what an offer has to give from  *)
(* a pipe in a thread of its own.  An offer that a password manager marks  *)
(* is asked for its mark first and for its text next.                      *)
(*                                                                         *)
(* The primary selection goes the same way and is left out.  Offers are    *)
(* numbered in the order in which the compositor makes them; a task is     *)
(* what is asked of which offer.  The dispatchers are queues, as           *)
(* EventDispatcher shows.                                                  *)
(***************************************************************************)
EXTENDS Naturals, Sequences

CONSTANT OfferBound        \* how many selections there are

ASSUME OfferAssumption == OfferBound \in Nat

\* An offer without a mark, one whose mark says that it is a secret and is
\* honoured, and one with a mark that does not stop it.
Kinds == {"plain", "secret", "marked"}

VARIABLES
  kind,            \* the kinds of the offers so far
  current,         \* clipboardOffer_, 0 if there is none
  isPassword,      \* its isPassword_
  dMain,           \* where the main thread is
  dWorker,         \* where the reader thread is
  terminate,       \* terminate_, behind mutex_
  dToMain,         \* data that was read, for the main thread
  dToWorker, dAttached,    \* functors for the reader thread, and whether its
                   \* dispatcher is attached to its loop
  tasks,           \* tasks_
  clipboard        \* what the clipboard was given last

dVars == <<kind, current, isPassword, dMain, dWorker, terminate, dToMain, dToWorker,
           dAttached, tasks, clipboard>>

Task == [offer : 1..OfferBound, what : {"mark", "text"}]

DInit ==
  /\ kind = <<>> /\ current = 0 /\ isPassword = FALSE
  /\ dMain = "free" /\ dWorker = "start" /\ terminate = FALSE
  /\ dToMain = <<>> /\ dToWorker = <<>> /\ dAttached = FALSE
  /\ tasks = {}
  /\ clipboard = [offer |-> 0, password |-> FALSE]

-----------------------------------------------------------------------------
(* The main thread.                                                         *)

Ask(offer, what) == <<"add", [offer |-> offer, what |-> what]>>

\* Mutant of Forget: the task is left to end by itself.
Forget_Nothing(offer) == <<>>

\* The destructor of an offer has the last task that it began removed.
Forget(offer) == IF offer = 0 THEN <<>> ELSE <<<<"remove", offer>>>>

ToReader(functors) ==
  dToWorker' = IF dAttached THEN dToWorker \o functors ELSE dToWorker

\* The compositor announces a selection; the offer that was there is replaced.
Select(k) ==
  /\ dMain = "free"
  /\ Len(kind) < OfferBound
  /\ kind' = Append(kind, k)
  /\ current' = Len(kind) + 1
  /\ isPassword' = FALSE
  /\ ToReader(Forget(current) \o
              <<Ask(Len(kind) + 1, IF k = "plain" THEN "text" ELSE "mark")>>)
  /\ UNCHANGED <<dMain, dWorker, terminate, dToMain, dAttached, tasks, clipboard>>

Unselect ==
  /\ dMain = "free" /\ current # 0
  /\ current' = 0
  /\ ToReader(Forget(current))
  /\ UNCHANGED <<kind, isPassword, dMain, dWorker, terminate, dToMain, dAttached,
                 tasks, clipboard>>

\* The answer to the question for a mark.
Marked(offer) ==
  /\ IF kind[offer] = "secret" THEN UNCHANGED <<isPassword, dToWorker>>
     ELSE isPassword' = TRUE /\ ToReader(<<Ask(offer, "text")>>)
  /\ UNCHANGED <<current, clipboard>>

\* The text goes to the clipboard, and the offer has done its part.
Received(offer) ==
  /\ clipboard' = [offer |-> offer, password |-> isPassword]
  /\ current' = 0
  /\ ToReader(Forget(offer))
  /\ UNCHANGED isPassword

\* Mutant of MainData: the offer may be gone.
MainData_Unguarded ==
  /\ dMain = "free" /\ dToMain # <<>>
  /\ dToMain' = Tail(dToMain)
  /\ IF Head(dToMain).what = "mark" THEN Marked(Head(dToMain).offer)
     ELSE Received(Head(dToMain).offer)
  /\ UNCHANGED <<kind, dMain, dWorker, terminate, dAttached, tasks>>

\* Data arrives in the main thread, if its offer is still the current one.
MainData ==
  /\ dMain = "free" /\ dToMain # <<>>
  /\ dToMain' = Tail(dToMain)
  /\ IF Head(dToMain).offer # current
     THEN UNCHANGED <<current, isPassword, clipboard, dToWorker>>
     ELSE IF Head(dToMain).what = "mark" THEN Marked(current)
     ELSE Received(current)
  /\ UNCHANGED <<kind, dMain, dWorker, terminate, dAttached, tasks>>

\* The device goes away, its offers before its thread.
DDestroy ==
  /\ dMain = "free"
  /\ current' = 0
  /\ ToReader(Forget(current))
  /\ dMain' = "terminate"
  /\ UNCHANGED <<kind, isPassword, dWorker, terminate, dToMain, dAttached, tasks,
                 clipboard>>

SetTerminate ==
  /\ dMain = "terminate"
  /\ terminate' = TRUE
  /\ dMain' = "tell"
  /\ UNCHANGED <<kind, current, isPassword, dWorker, dToMain, dToWorker, dAttached,
                 tasks, clipboard>>

TellToExit ==
  /\ dMain = "tell"
  /\ ToReader(<<<<"exit">>>>)
  /\ dMain' = "join"
  /\ UNCHANGED <<kind, current, isPassword, dWorker, terminate, dToMain, dAttached,
                 tasks, clipboard>>

DJoin ==
  /\ dMain = "join" /\ dWorker = "ended"
  /\ dMain' = "gone"
  /\ UNCHANGED <<kind, current, isPassword, dWorker, terminate, dToMain, dToWorker,
                 dAttached, tasks, clipboard>>

DMainStep == MainData \/ SetTerminate \/ TellToExit \/ DJoin

-----------------------------------------------------------------------------
(* The reader thread.                                                       *)

DAttach ==
  /\ dWorker = "start"
  /\ dAttached' = TRUE
  /\ dWorker' = "attached"
  /\ UNCHANGED <<kind, current, isPassword, dMain, terminate, dToMain, dToWorker,
                 tasks, clipboard>>

\* Mutant of CheckTerminate: the loop is entered in any case.
CheckTerminate_Never ==
  /\ dWorker = "attached"
  /\ dWorker' = "loop"
  /\ UNCHANGED <<kind, current, isPassword, dMain, terminate, dToMain, dToWorker,
                 dAttached, tasks, clipboard>>

CheckTerminate ==
  /\ dWorker = "attached"
  /\ dWorker' = IF terminate THEN "detach" ELSE "loop"
  /\ UNCHANGED <<kind, current, isPassword, dMain, terminate, dToMain, dToWorker,
                 dAttached, tasks, clipboard>>

\* A task is added if its offer still exists, or what an offer asked for is
\* removed, or the loop is left.
TaskFunctor ==
  /\ dWorker = "loop" /\ dToWorker # <<>>
  /\ dToWorker' = Tail(dToWorker)
  /\ LET what == Head(dToWorker)[1]
     IN  /\ tasks' = CASE what = "add" ->
                            IF Head(dToWorker)[2].offer = current
                            THEN tasks \cup {Head(dToWorker)[2]} ELSE tasks
                       [] what = "remove" ->
                            {t \in tasks : t.offer # Head(dToWorker)[2]}
                       [] OTHER -> tasks
         /\ dWorker' = IF what = "exit" THEN "detach" ELSE "loop"
  /\ UNCHANGED <<kind, current, isPassword, dMain, terminate, dToMain, dAttached,
                 clipboard>>

\* handleTaskIO at the end of the data.
TaskEnds(t) ==
  /\ dWorker = "loop" /\ t \in tasks
  /\ tasks' = tasks \ {t}
  /\ dToMain' = IF t.offer = current THEN Append(dToMain, t) ELSE dToMain
  /\ UNCHANGED <<kind, current, isPassword, dMain, dWorker, terminate, dToWorker,
                 dAttached, clipboard>>

\* The pipe fails, the data is too long or takes longer than a second.
TaskFails(t) ==
  /\ dWorker = "loop" /\ t \in tasks
  /\ tasks' = tasks \ {t}
  /\ UNCHANGED <<kind, current, isPassword, dMain, dWorker, terminate, dToMain,
                 dToWorker, dAttached, clipboard>>

DDetach ==
  /\ dWorker = "detach"
  /\ dAttached' = FALSE
  /\ tasks' = {}
  /\ dWorker' = "ended"
  /\ UNCHANGED <<kind, current, isPassword, dMain, terminate, dToMain, dToWorker,
                 clipboard>>

DWorkerStep == DAttach \/ CheckTerminate \/ TaskFunctor \/ DDetach

DNext ==
  \/ \E k \in Kinds : Select(k)
  \/ Unselect \/ DDestroy
  \/ DMainStep \/ DWorkerStep
  \/ \E t \in Task : TaskEnds(t) \/ TaskFails(t)

\* Both threads are scheduled; nothing is assumed of the client that writes.
DFairness == WF_dVars(DMainStep) /\ WF_dVars(DWorkerStep)

DSpec == DInit /\ [][DNext]_dVars /\ DFairness

-----------------------------------------------------------------------------

\* Data of an offer that was replaced or withdrawn never reaches the clipboard,
\* however late it is read, so what the clipboard holds never goes back; and
\* "Wayland clipboard contains password, ignore": a secret never gets there, and
\* other text that came with a mark gets there marked.
OnlyCurrentText ==
  [][ clipboard' # clipboard =>
        /\ clipboard'.offer = current /\ clipboard'.offer > clipboard.offer
        /\ kind[current] # "secret"
        /\ clipboard'.password = (kind[current] = "marked") ]_dVars

\* A client that never writes keeps no task alive after its offer is gone.
NoTaskLeft ==
  \A t \in Task : t \in tasks ~> t \notin tasks \/ t.offer = current

\* "If dispatcher is not attached, the schedule will do nothing.  But after attach,
\* reader thread will check terminate_": the destructor is never held up.
ReaderEnds == dMain = "join" ~> dMain = "gone"
=============================================================================
