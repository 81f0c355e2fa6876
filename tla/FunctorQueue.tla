---------------------------- MODULE FunctorQueue ----------------------------
(***************************************************************************)
(* What an EventDispatcher promises to those who schedule functors: while  *)
(* it is attached to an event loop each functor is taken and served, once, *)
(* in the order in which they came; to serve one is to run it, or to skip  *)
(* it if its context is gone by then.  A functor that comes while it is    *)
(* not attached is dropped.                                                *)
(***************************************************************************)
EXTENDS Sequences

CONSTANT Functor

VARIABLES
  waiting,   \* functors that were taken and not served, in order
  ran,       \* functors that were run, in order
  gone,      \* functors whose context is gone
  open       \* whether functors are taken

queueVars == <<waiting, ran, gone, open>>

QueueInit ==
  /\ waiting = <<>>
  /\ ran = <<>>
  /\ gone = {}
  /\ open = FALSE

Take(f) ==
  /\ open
  /\ waiting' = Append(waiting, f)
  /\ UNCHANGED <<ran, gone, open>>

Serve ==
  /\ waiting # <<>>
  /\ waiting' = Tail(waiting)
  /\ ran' = IF Head(waiting) \in gone THEN ran ELSE Append(ran, Head(waiting))
  /\ UNCHANGED <<gone, open>>

LoseContext(f) ==
  /\ gone' = gone \cup {f}
  /\ UNCHANGED <<waiting, ran, open>>

OpenOrClose ==
  /\ open' = ~open
  /\ UNCHANGED <<waiting, ran, gone>>

QueueNext ==
  \/ \E f \in Functor : Take(f) \/ LoseContext(f)
  \/ Serve
  \/ OpenOrClose

QueueSpec == QueueInit /\ [][QueueNext]_queueVars
=============================================================================
