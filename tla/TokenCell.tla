------------------------------- MODULE TokenCell -------------------------------
(***************************************************************************)
(* What a MachineTokenManager promises its callers, with no lock, clock or *)
(* network: one cell that holds at most one access token.  Tokens are      *)
(* numbered in the order the authorization server issued them.  A caller   *)
(* is served the token the cell holds, or renews it, or fails; renewing    *)
(* and forgetting move a frontier that no later answer falls behind.       *)
(***************************************************************************)
EXTENDS Naturals

CONSTANTS Callers,    \* the threads that share one manager
          Tokens      \* issue numbers: positive, 0 is no token

VARIABLES cell,       \* the token held now, 0 when there is none
          oldest,     \* the oldest token that may still be handed out
          served      \* the last answer of each caller, 0 is an error

vars == <<cell, oldest, served>>

Init == /\ cell = 0
        /\ oldest = 1
        /\ served = [c \in Callers |-> 0]

\* get_token finds a token it may reuse.
Serve(c) == /\ cell # 0
            /\ served' = [served EXCEPT ![c] = cell]
            /\ UNCHANGED <<cell, oldest>>

\* get_token or refresh replaces whatever is held by a newer token.
Renew(c, t) == /\ t >= oldest
               /\ t > cell
               /\ cell' = t
               /\ oldest' = t
               /\ served' = [served EXCEPT ![c] = t]

\* An acquisition fails: the caller has an error, the cell is as it was.
Fail(c) == /\ served' = [served EXCEPT ![c] = 0]
           /\ UNCHANGED <<cell, oldest>>

\* clear() or close(): only tokens from t on may be handed out again.
Forget(t) == /\ t >= oldest
             /\ t > cell
             /\ cell' = 0
             /\ oldest' = t
             /\ UNCHANGED served

Next == \/ \E c \in Callers : \/ Serve(c)
                              \/ Fail(c)
                              \/ \E t \in Tokens : Renew(c, t)
        \/ \E t \in Tokens : Forget(t)

Spec == Init /\ [][Next]_vars
================================================================================
