------------------------------ MODULE MC_Threads ------------------------------
(***************************************************************************)
(* What runs in more than one thread, side by side in one run: a           *)
(* dispatcher, and the three readers that are built on two dispatchers     *)
(* each.  Only one of them moves in a behaviour, so their states add up    *)
(* and do not multiply.                                                    *)
(***************************************************************************)
EXTENDS EventDispatcher, WaylandEventReader, XCBEventReader, DataReader

CONSTANTS f1, f2, f3

Functors == {f1, f2, f3}
WithContext == {f2}

VARIABLE part

allVars == <<part, dispatcherVars, wlVars, xVars, dVars>>

InitAll ==
  /\ part \in {"dispatcher", "wayland", "x", "data"}
  /\ DispatcherInit /\ WlInit /\ XInit /\ DInit

Dispatcher(A) ==
  part = "dispatcher" /\ A /\ UNCHANGED <<part, wlVars, xVars, dVars>>

Wayland(A) ==
  part = "wayland" /\ A /\ UNCHANGED <<part, dispatcherVars, xVars, dVars>>

X(A) == part = "x" /\ A /\ UNCHANGED <<part, dispatcherVars, wlVars, dVars>>

Data(A) == part = "data" /\ A /\ UNCHANGED <<part, dispatcherVars, wlVars, xVars>>

NextAll ==
  \/ Dispatcher(DispatcherNext)
  \/ Wayland(WlNext)
  \/ X(XNext)
  \/ Data(DNext)

\* The fairness of each module, for its part.
FairnessAll ==
  /\ WF_allVars(Dispatcher(Loop))
  /\ WF_allVars(Wayland(MainStep)) /\ WF_allVars(Wayland(WorkerStep))
  /\ WF_allVars(X(XMainStep)) /\ WF_allVars(X(XWorkerStep))
  /\ WF_allVars(Data(DMainStep)) /\ WF_allVars(Data(DWorkerStep))

SpecAll == InitAll /\ [][NextAll]_allVars /\ FairnessAll
=============================================================================
