------------------------------ MODULE AgentSystem ------------------------------
(***************************************************************************)
(* One MachineAgent with the MachineTokenManager it owns: calls in threads *)
(* of their own, and a thread that closes the agent.  Every step of a call *)
(* that MachineAgent leaves to a TokenCell is here a step of the manager,  *)
(* with its lock, its clock and its exchange with the token endpoint, so a *)
(* call may wait for the lock while others refresh, close, and time passes.*)
(***************************************************************************)
EXTENDS TokenManager, FiniteSets

CONSTANTS Closer,      \* the thread that calls close()
          MaxCloses,   \* bound on its calls
          Methods, Bodies, Timed, MaxRetries,   \* see MachineAgent
          Workload     \* the requests the calls make

Calls == Callers \ {Closer}

VARIABLES stage, req, round, attempt, result, outcome, rejected, sent,
          truncated, late, applied,   \* of the calls: see MachineAgent
          deadline    \* history: when the servers stop accepting each token
                      \* the manager has held, 0 for any other

A == INSTANCE MachineAgent WITH
       Tokens <- 1..(MaxMints + 1), cell <- cached.serial, oldest <- barrier,
       served <- [c \in Calls |-> returned[c]], pc <- stage

ASSUME CloserAssumption == Closer \in Callers /\ MaxCloses \in Nat
ASSUME FiniteAssumption == IsFiniteSet(Callers)
ASSUME AllOpsAssumption == Ops = {"get", "refresh", "clear"}
ASSUME RequestAssumption == MaxRetries \in Nat /\ Timed \subseteq BOOLEAN
ASSUME WorkloadAssumption == Workload \subseteq A!Requests

agentVars == <<stage, req, round, attempt, result, outcome, rejected, sent,
               truncated, late, applied>>
systemVars == <<vars, agentVars, deadline>>

SystemTypeOK ==
  /\ TypeOK /\ A!TypeOK
  /\ deadline \in [1..MaxMints -> Nat]

SystemInit ==
  /\ Init
  /\ req \in [Calls -> Workload]
  /\ stage = [c \in Calls |-> "ready"]
  /\ round = [c \in Calls |-> 1]
  /\ attempt = [c \in Calls |-> 0]
  /\ result = [c \in Calls |-> "none"]
  /\ outcome = [c \in Calls |-> "none"]
  /\ rejected = [c \in Calls |-> 0]
  /\ sent = [c \in Calls |-> 0]
  /\ truncated = [c \in Calls |-> FALSE]
  /\ late = [c \in Calls |-> 0]
  /\ applied = [c \in Calls |-> 0]
  /\ deadline = [t \in 1..MaxMints |-> 0]

\* The history part of every step.
Observe == deadline' = [t \in 1..MaxMints |->
                         IF t = cached'.serial THEN cached'.validUntil ELSE deadline[t]]

--------------------------------------------------------------------------------
(***************************************************************************)
(* Steps of one call.                                                      *)
(***************************************************************************)

\* Outside the manager.
Local(c) ==
  /\ UNCHANGED vars
  /\ \/ A!Start(c) \/ A!Refuse(c)
     \/ \E e \in {"connect_timeout", "unsent"} : A!NotSent(c, e)
     \/ A!Transmit(c)
     \/ A!Retry(c) \/ A!GiveUpUnknown(c) \/ A!GiveUp(c)
     \/ A!ReturnResponse(c) \/ A!RecoverFrom401(c)
  /\ Observe

\* send() calls get_token; the recovery from a 401 calls refresh.
\* Mutant: the recovery calls get_token.
AskGet(c) ==
  /\ stage[c] \in {"token", "refresh"} /\ Call(c, "get")
  /\ UNCHANGED agentVars
  /\ Observe
Ask(c) ==
  /\ \/ stage[c] = "token" /\ Call(c, "get")
     \/ stage[c] = "refresh" /\ Call(c, "refresh")
  /\ UNCHANGED agentVars
  /\ Observe

\* Inside the manager: the lock is taken, the form is posted, a token issued.
Acquire(c) ==
  /\ GetMiss(c) \/ Refresh(c) \/ Post(c) \/ \E e \in Lifetimes : Issue(c, e)
  /\ UNCHANGED agentVars
  /\ Observe

\* The manager returns to the call, with a token or an exception.
TokenArrives(c) ==
  /\ GetHit(c) \/ Receive(c)
  /\ A!TakeToken(c) \/ A!Replay(c)
  /\ Observe

TokenFails(c) ==
  /\ AcquireFails(c)
  /\ \/ A!TokenError(c) \/ A!RefreshError(c)
     \/ /\ pc[c] = "signing"
        /\ \E e \in {"connect_timeout", "unsent"} : A!SignerError(c, e)
  /\ Observe

CallStep(c) ==
  Local(c) \/ Ask(c) \/ Acquire(c) \/ TokenArrives(c) \/ TokenFails(c)

\* The resource server answers, or nothing comes back.
WireStep(c) == /\ UNCHANGED vars
               /\ A!WireStep(c)
               /\ Observe

LateDelivery(c) == /\ UNCHANGED vars
                   /\ A!LateDelivery(c)
                   /\ Observe

--------------------------------------------------------------------------------
\* close(): the manager is cleared, the calls in progress are not stopped.
Close ==
  /\ \/ calls[Closer] < MaxCloses /\ Call(Closer, "clear")
     \/ Clear(Closer)
  /\ UNCHANGED agentVars
  /\ Observe

PassTime == /\ Tick \/ ClockStep
            /\ UNCHANGED agentVars
            /\ Observe

SystemFinished == /\ \A c \in Calls : stage[c] = "done" /\ late[c] = 0
                  /\ UNCHANGED systemVars

SystemNext == \/ \E c \in Calls : CallStep(c) \/ WireStep(c) \/ LateDelivery(c)
              \/ Close \/ PassTime \/ SystemFinished

SystemSpec == SystemInit /\ [][SystemNext]_systemVars

--------------------------------------------------------------------------------
(***************************************************************************)
(* Properties.                                                             *)
(***************************************************************************)

\* The agent over the real manager behaves as the agent over a token cell:
\* MachineAgent's properties are the system's.
IsMachineAgent == A!Spec

\* The comment on _REFRESH_SKEW_SEC, "a long request must not race the expiry
\* boundary": a request that ends within Margin of the moment it was given its
\* token presents one the servers accept throughout.
LongLives == \A e \in Lifetimes : e = 0 \/ e > Skew
RequestOutrunsExpiry ==
  [][\A c \in Calls :
       stage[c] = "token" /\ stage'[c] = "send" /\ LongLives =>
         LET until == deadline'[returned'[c]]
         IN  until # 0 => now + Margin < until]_systemVars

\* Of the tokens the manager has held, the ones still good beyond any leeway
\* are one, and one more for each 401 recovered from and each close: however
\* the calls interleave, nothing else spends an issuance.
LiveTokens == {t \in 1..MaxMints : deadline[t] > now + Skew + MaxDrift}
LiveTokensAreAccountedFor ==
  Cardinality(LiveTokens) <=
    1 + Cardinality({c \in Calls : rejected[c] # 0}) + calls[Closer]

\* A token that a 401 led to a refresh is handed to no call again.
RejectedTokenIsRetired == A!RejectedTokenIsRetired
================================================================================
