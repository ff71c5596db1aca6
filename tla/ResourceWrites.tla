----------------------------- MODULE ResourceWrites -----------------------------
(***************************************************************************)
(* MachineAgent's calls as writes of one thread to one resource, each      *)
(* begun when the one before has ended.  MachineAgent counts a repeated    *)
(* PUT as no effect of its own; here the resource keeps the write that     *)
(* landed last, so that a repetition shows when another write came between.*)
(* Calls are the numbers 1, 2, ... in program order.                       *)
(***************************************************************************)
EXTENDS MachineAgent

VARIABLE stored   \* the call whose write the resource holds, 0 at first

writeVars == <<vars, stored>>

WriteInit == Init /\ stored = 0

\* The thread makes its calls one after the other.
Begin(c) == /\ \A d \in Calls : d < c => pc[d] = "done"
            /\ Start(c) \/ Refuse(c)
            /\ UNCHANGED stored

\* A copy of the request reaches the server, or does not.  A key the server
\* has seen makes the copy no write.
Lands(c) ==
  \/ applied' = applied /\ stored' = stored
  \/ /\ applied' = Applied(c)
     /\ stored' = IF req[c].keyed /\ applied[c] > 0 THEN stored ELSE c

Wire(c) == \/ Lose(c) /\ UNCHANGED stored
           \/ (LateDelivery(c) \/ \E s \in Statuses : Answer(c, s)) /\ Lands(c)

WriteNext ==
  \/ \E c \in Calls : Begin(c) \/ Wire(c) \/ (SdkStep(c) /\ UNCHANGED stored)
  \/ (Close \/ Finished) /\ UNCHANGED stored

WriteSpec == WriteInit /\ [][WriteNext]_writeVars

\* _consequence's docstring on the idempotent methods, "replaying them cannot
\* duplicate an effect by definition": a write changes the resource once.
EffectIsNotRepeated ==
  [][\A c \in Calls : stored # c /\ stored' = c => applied[c] = 0]_writeVars
================================================================================
