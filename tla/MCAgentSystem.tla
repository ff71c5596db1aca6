----------------------------- MODULE MCAgentSystem -----------------------------
(* AgentSystem for TLC: a write that may be replayed, one that may not, and    *)
(* one to an untrusted destination.  Calls are interchangeable.                *)
EXTENDS AgentSystem, TLC

Put == [method |-> "PUT", keyed |-> FALSE, body |-> "value",
        admitted |-> TRUE, timed |-> TRUE]
MCWorkload == {Put, [Put EXCEPT !.method = "POST"], [Put EXCEPT !.admitted = FALSE]}

Symmetry == Permutations(Calls)
================================================================================
