------------------------------ MODULE TextQueue ------------------------------
(***************************************************************************)
(* What the way from an engine to a client promises of text: it is a       *)
(* single queue.  Whatever is produced, by an engine or by a key that the  *)
(* client types itself, goes behind all that was produced before, and the  *)
(* client takes some from the front.  Text is numbered as it is produced.  *)
(***************************************************************************)
EXTENDS Naturals, Sequences

VARIABLES
  waiting,  \* text that was produced and that the client has not taken
  taken     \* text that the client has taken

textVars == <<waiting, taken>>

TextInit == waiting = <<>> /\ taken = <<>>

Produce ==
  /\ waiting' = Append(waiting, Len(taken) + Len(waiting) + 1)
  /\ UNCHANGED taken

Take ==
  \E n \in 1..Len(waiting) :
    /\ taken' = taken \o SubSeq(waiting, 1, n)
    /\ waiting' = SubSeq(waiting, n + 1, Len(waiting))

TextNext == Produce \/ Take

TextSpec == TextInit /\ [][TextNext]_textVars
=============================================================================
