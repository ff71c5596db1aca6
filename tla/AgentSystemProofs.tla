--------------------------- MODULE AgentSystemProofs ---------------------------
(***************************************************************************)
(* Proofs about AgentSystem: the composition of the agent and the manager, *)
(* for any number of calls, tokens and retries, any leeway, latency, drift *)
(* and workload.  The manager's invariant is TokenManagerProofs' IInv.     *)
(***************************************************************************)
EXTENDS AgentSystem, TokenManagerProofs

\* A call is in the manager exactly for what its stage asked for.
StageInv == \A c \in Calls : pc[c] # "idle" =>
              \/ stage[c] = "token" /\ op[c] = "get"
              \/ stage[c] = "refresh" /\ op[c] = "refresh"

ShapeInv == /\ stage \in [Calls -> {"ready", "token", "send", "inflight", "answered",
                                   "failed", "refresh", "done"}]
            /\ deadline \in [1..MaxMints -> Nat]

SystemInv == IInv /\ ShapeInv /\ StageInv

--------------------------------------------------------------------------------
\* A step of the system is a step of the manager, or none of it.
LEMMA ManagerStep == [SystemNext]_systemVars => [Next]_vars
<1> SUFFICES ASSUME [SystemNext]_systemVars PROVE [Next]_vars
  OBVIOUS
<1> USE DEF Calls
<1>1. ASSUME NEW c \in Calls, Local(c) \/ WireStep(c) \/ LateDelivery(c)
      PROVE UNCHANGED vars
  BY <1>1 DEF Local, WireStep, LateDelivery
<1>2. ASSUME NEW c \in Calls, Ask(c) PROVE Next
  BY <1>2, AllOpsAssumption DEF Ask, Next
<1>3. ASSUME NEW c \in Calls, Acquire(c) \/ TokenArrives(c) \/ TokenFails(c)
      PROVE Next
  BY <1>3 DEF Acquire, TokenArrives, TokenFails, Next, Proceed
<1>4. ASSUME Close \/ PassTime PROVE Next
  BY <1>4, AllOpsAssumption, CloserAssumption DEF Close, PassTime, Next, Proceed
<1>5. SystemFinished \/ UNCHANGED systemVars => UNCHANGED vars
  BY DEF SystemFinished, systemVars
<1> QED
  BY <1>1, <1>2, <1>3, <1>4, <1>5 DEF SystemNext, CallStep

LEMMA SystemInitInv == SystemInit => SystemInv
<1> SUFFICES ASSUME SystemInit PROVE SystemInv
  OBVIOUS
<1>1. IInv
  BY InitInv DEF SystemInit
<1>2. ShapeInv /\ StageInv
  BY DEF SystemInit, Init, ShapeInv, StageInv, Calls
<1> QED
  BY <1>1, <1>2 DEF SystemInv

\* What the steps of a call do to its stage: MachineAgent's own part of them.
LEMMA StageMoves ==
  ASSUME NEW c \in Calls, ShapeInv
  PROVE  /\ Local(c) \/ WireStep(c) =>
               /\ stage' \in [Calls -> {"ready", "token", "send", "inflight", "answered",
                                        "failed", "refresh", "done"}]
               /\ stage[c] \notin {"token", "refresh"}
               /\ \A d \in Calls : d # c => stage'[d] = stage[d]
         /\ TokenArrives(c) \/ TokenFails(c) =>
               /\ stage' \in [Calls -> {"ready", "token", "send", "inflight", "answered",
                                        "failed", "refresh", "done"}]
               /\ \A d \in Calls : d # c => stage'[d] = stage[d]
         /\ Ask(c) \/ Acquire(c) \/ LateDelivery(c) => stage' = stage
<1> USE DEF ShapeInv
<1>1. ASSUME Local(c) \/ WireStep(c)
      PROVE  /\ stage' \in [Calls -> {"ready", "token", "send", "inflight", "answered",
                                        "failed", "refresh", "done"}]
             /\ stage[c] \notin {"token", "refresh"}
             /\ \A d \in Calls : d # c => stage'[d] = stage[d]
  BY <1>1 DEF Local, WireStep, A!Start, A!Refuse, A!NotSent, A!Transmit, A!Retry,
    A!GiveUpUnknown, A!GiveUp, A!ReturnResponse, A!RecoverFrom401, A!WireStep,
    A!Lose, A!Answer, A!Finish, A!Fails
<1>2. ASSUME TokenArrives(c) \/ TokenFails(c)
      PROVE  /\ stage' \in [Calls -> {"ready", "token", "send", "inflight", "answered",
                                        "failed", "refresh", "done"}]
             /\ \A d \in Calls : d # c => stage'[d] = stage[d]
  BY <1>2 DEF TokenArrives, TokenFails, A!TakeToken, A!Replay, A!TokenError,
    A!RefreshError, A!SignerError, A!Finish, A!Fails
<1>3. ASSUME Ask(c) \/ Acquire(c) \/ LateDelivery(c) PROVE stage' = stage
  BY <1>3 DEF Ask, Acquire, LateDelivery, A!LateDelivery, agentVars
<1> QED
  BY <1>1, <1>2, <1>3

\* What the manager's steps do to where the callers are.
LEMMA ManagerMoves ==
  ASSUME TypeOK, NEW c \in Calls
  PROVE  /\ TokenArrives(c) \/ TokenFails(c) =>
               /\ pc' = [pc EXCEPT ![c] = "idle"] /\ op' = op
               /\ pc[c] # "idle"
         /\ Acquire(c) => /\ op' = op /\ pc[c] # "idle"
                          /\ \A d \in Callers : d # c => pc'[d] = pc[d]
<1> USE DEF TypeOK, Calls
<1>1. ASSUME TokenArrives(c) \/ TokenFails(c)
      PROVE  /\ pc' = [pc EXCEPT ![c] = "idle"] /\ op' = op
             /\ pc[c] # "idle"
  BY <1>1 DEF TokenArrives, TokenFails, GetHit, Enters, Receive, AcquireFails, Acquiring
<1>2. ASSUME Acquire(c)
      PROVE  /\ op' = op /\ pc[c] # "idle"
             /\ \A d \in Callers : d # c => pc'[d] = pc[d]
  BY <1>2 DEF Acquire, GetMiss, Refresh, BeginAcquire, Post, Issue, Enters
<1> QED
  BY <1>1, <1>2

LEMMA SystemInvStep == SystemInv /\ [SystemNext]_systemVars => SystemInv'
<1> SUFFICES ASSUME SystemInv, [SystemNext]_systemVars PROVE SystemInv'
  OBVIOUS
<1>i. IInv'
  BY ManagerStep, InvStep DEF SystemInv
<1> USE DEF SystemInv, StageInv
<1>t. TypeOK /\ ShapeInv
  BY DEF IInv
<1>d. ASSUME Observe PROVE deadline' \in [1..MaxMints -> Nat]
  <2>1. cached'.validUntil \in Nat
    BY <1>i DEF IInv, TypeOK
  <2> QED
    BY <1>t, <1>d, <2>1 DEF Observe, ShapeInv
<1>1. ASSUME NEW c \in Calls, Local(c) \/ WireStep(c) PROVE SystemInv'
  <2>1. UNCHANGED vars /\ Observe
    BY <1>1 DEF Local, WireStep
  <2>2. pc' = pc /\ op' = op
    BY <2>1 DEF vars
  <2> QED
    BY <1>1, <1>i, <1>t, <1>d, <2>1, <2>2, StageMoves DEF ShapeInv
<1>2. ASSUME NEW c \in Calls, Ask(c) PROVE SystemInv'
  <2>1. StageInv'
    BY <1>t, <1>2, StageMoves DEF Ask, Call, TypeOK, Calls
  <2> QED
    BY <1>2, <1>i, <1>t, <1>d, <2>1, StageMoves DEF ShapeInv, Ask
<1>3. ASSUME NEW c \in Calls, Acquire(c) PROVE SystemInv'
  <2>1. StageInv'
    BY <1>t, <1>3, StageMoves, ManagerMoves DEF Calls
  <2> QED
    BY <1>3, <1>i, <1>t, <1>d, <2>1, StageMoves DEF ShapeInv, Acquire
<1>4. ASSUME NEW c \in Calls, TokenArrives(c) \/ TokenFails(c) PROVE SystemInv'
  <2>1. StageInv'
    BY <1>t, <1>4, StageMoves, ManagerMoves DEF Calls, TypeOK
  <2> QED
    BY <1>4, <1>i, <1>t, <1>d, <2>1, StageMoves DEF ShapeInv, TokenArrives, TokenFails
<1>5. ASSUME NEW c \in Calls, LateDelivery(c) PROVE SystemInv'
  BY <1>5, <1>i, <1>t, <1>d, StageMoves DEF LateDelivery, vars, ShapeInv
<1>6. ASSUME Close \/ PassTime PROVE SystemInv'
  <2>1. stage' = stage /\ Observe
    BY <1>6 DEF Close, PassTime, agentVars
  <2>2. \A c \in Calls : pc'[c] = pc[c] /\ op'[c] = op[c]
    BY <1>6, <1>t DEF Close, PassTime, Call, Clear, Tick, ClockStep, TypeOK, Calls
  <2> QED
    BY <1>i, <1>t, <1>d, <2>1, <2>2 DEF ShapeInv
<1>7. ASSUME SystemFinished \/ UNCHANGED systemVars PROVE SystemInv'
  BY <1>7, <1>i, <1>t DEF SystemFinished, systemVars, vars, agentVars, ShapeInv
<1> QED
  BY <1>1, <1>2, <1>3, <1>4, <1>5, <1>6, <1>7 DEF SystemNext, CallStep

\* The manager's invariant holds in the system, whatever the calls do.
THEOREM SystemInvariance == SystemSpec => []SystemInv
<1> QED
  BY SystemInitInv, SystemInvStep, PTL DEF SystemSpec

--------------------------------------------------------------------------------
\* A call is given a token only by a step of the manager that hands one out.
LEMMA HandedOut ==
  ASSUME SystemInv, [SystemNext]_systemVars, NEW c \in Calls,
         stage[c] = "token", stage'[c] = "send"
  PROVE  TokenArrives(c)
<1> USE DEF SystemInv
<1>1. ASSUME NEW d \in Calls, CallStep(d) \/ WireStep(d) \/ LateDelivery(d)
      PROVE  TokenArrives(c)
  <2>1. CASE TokenArrives(d)
    BY <2>1, StageMoves
  <2>2. CASE TokenFails(d)
    <3>1. d = c
      BY <2>2, StageMoves
    <3> QED
      BY <2>2, <3>1 DEF TokenFails, A!TokenError, A!RefreshError, A!SignerError,
        A!Finish, A!Fails, ShapeInv
  <2>3. CASE Local(d) \/ WireStep(d)
    BY <2>3, StageMoves
  <2>4. CASE Ask(d) \/ Acquire(d) \/ LateDelivery(d)
    BY <2>4, StageMoves
  <2> QED
    BY <1>1, <2>1, <2>2, <2>3, <2>4 DEF CallStep
<1>2. ASSUME Close \/ PassTime \/ SystemFinished \/ UNCHANGED systemVars
      PROVE  FALSE
  BY <1>2 DEF Close, PassTime, SystemFinished, systemVars, agentVars
<1> QED
  BY <1>1, <1>2 DEF SystemNext

\* The token a call is given outlives the request, when lifetimes exceed the
\* leeway: a cached one because it is fresh, a new one by its lifetime.
LEMMA OutrunsStep ==
  ASSUME SystemInv, [SystemNext]_systemVars, NEW c \in Calls,
         stage[c] = "token", stage'[c] = "send", LongLives,
         deadline'[returned'[c]] # 0
  PROVE  now + Margin < deadline'[returned'[c]]
<1> USE DEF SystemInv
<1>1. TokenArrives(c)
  BY HandedOut
<1>2. c \in Callers
  BY DEF Calls
<1>t. IInv' /\ TypeOK /\ TypeOK'
  BY ManagerStep, InvStep DEF IInv
<1>3. CASE GetHit(c)
  <2>1. returned'[c] = cached.serial /\ cached' = cached /\ cached.serial \in 1..MaxMints
    BY <1>2, <1>3, <1>t, BoundAssumption DEF GetHit, Fresh, TypeOK
  <2>2. deadline'[returned'[c]] = cached.validUntil
    BY <1>1, <2>1 DEF TokenArrives, Observe
  <2>3. FreshMeansLive
    BY TimeAssumption DEF IInv, TypeOK, ExpiryInv, FreshMeansLive, Fresh, HostClock, Margin
  <2> QED
    BY <1>3, <2>2, <2>3 DEF GetHit, FreshMeansLive
<1>4. CASE Receive(c)
  <2>1. returned'[c] = reply[c].serial /\ cached'.serial = reply[c].serial
        /\ reply[c].serial \in 1..MaxMints
    BY <1>2, <1>4, <1>t, BoundAssumption DEF Receive, TypeOK, IInv, ReplyInv, FrontierInv
  <2>2. deadline'[returned'[c]] = cached'.validUntil
    BY <1>1, <2>1 DEF TokenArrives, Observe
  <2>3. reply[c].expiresIn \in Lifetimes \cup {0} /\ reply[c].at \in Nat
    BY <1>2, <1>t, ReplyNat
  <2>4. /\ reply[c].expiresIn > 0
        /\ cached'.validUntil = reply[c].at + reply[c].expiresIn
    BY <1>4, <2>2, <2>3, TimeAssumption DEF Receive
  <2>5. reply[c].expiresIn \in Nat /\ reply[c].expiresIn > Skew
    <3>1. reply[c].expiresIn # 0
      BY <2>4
    <3>2. reply[c].expiresIn \in Lifetimes
      BY <2>3, <3>1
    <3>3. reply[c].expiresIn \in Nat
      BY <3>2, TimeAssumption
    <3> QED
      BY <3>1, <3>2, <3>3 DEF LongLives
  <2>6. now <= reply[c].at + Latency /\ now \in Nat
    BY <1>4, <1>t DEF Receive, TypeOK
  <2> QED
    BY <2>2, <2>3, <2>4, <2>5, <2>6, TimeAssumption DEF Margin
<1> QED
  BY <1>1, <1>3, <1>4 DEF TokenArrives

\* A request that ends within Margin presents a live token throughout, for
\* every leeway, latency, drift and interleaving.
THEOREM RequestsOutrunExpiry == SystemSpec => RequestOutrunsExpiry
<1> DEFINE Outruns == \A c \in Calls :
       stage[c] = "token" /\ stage'[c] = "send" /\ LongLives =>
         LET until == deadline'[returned'[c]]
         IN  until # 0 => now + Margin < until
<1>1. SystemInv /\ [SystemNext]_systemVars => [Outruns]_systemVars
  BY OutrunsStep
<1> QED
  BY <1>1, SystemInvariance, PTL DEF SystemSpec, RequestOutrunsExpiry

--------------------------------------------------------------------------------
\* Every step of the system is one of the agent over a token cell, or none.
LEMMA AgentStep ==
  ASSUME SystemInv, [SystemNext]_systemVars
  PROVE  [A!Next]_(A!vars)
<1> USE DEF SystemInv, A!tokens
<1>t. TypeOK /\ StageInv
  BY DEF IInv
<1>1. ASSUME NEW c \in Calls, Local(c) PROVE A!Next
  BY <1>1 DEF Local, A!Next, A!SdkStep
<1>2. ASSUME NEW c \in Calls, WireStep(c) \/ LateDelivery(c) PROVE A!Next
  BY <1>2 DEF WireStep, LateDelivery, A!Next
<1>3. ASSUME NEW c \in Calls, Ask(c) \/ Acquire(c) PROVE UNCHANGED A!vars
  <2>1. UNCHANGED agentVars /\ UNCHANGED <<cached, barrier, returned>>
    BY <1>3 DEF Ask, Acquire, Call, GetMiss, Refresh, BeginAcquire, Post, Issue
  <2> QED
    BY <2>1 DEF agentVars, A!vars, A!wire, A!server
<1>4. ASSUME NEW c \in Calls, TokenArrives(c) PROVE A!Next
  <2>1. CASE GetHit(c)
    <3>1. A!Cell!Serve(c)
      BY <1>t, <2>1 DEF GetHit, Fresh, A!Cell!Serve, TypeOK, Calls
    <3>2. A!TakeToken(c)
      BY <1>4, <1>t, <2>1 DEF TokenArrives, A!Replay, StageInv, GetHit, Enters
    <3> QED
      BY <3>1, <3>2 DEF A!TokenReady, A!SdkStep, A!Next
  <2>2. CASE Receive(c)
    <3>1. reply[c].serial \in 1..(MaxMints + 1)
      BY <2>2, BoundAssumption DEF Receive, IInv, TypeOK, ReplyInv, FrontierInv, Calls
    <3>2. A!Cell!Renew(c, reply[c].serial)
      BY <2>2 DEF Receive, IInv, TypeOK, ReplyInv, A!Cell!Renew, Calls
    <3>r. \E t \in 1..(MaxMints + 1) : A!Cell!Renew(c, t)
      BY <3>1, <3>2 DEF A!Cell!Renew
    <3>3. A!TokenReady(c) \/ A!RefreshOk(c)
      BY <1>4, <3>r DEF TokenArrives, A!TokenReady, A!RefreshOk
    <3> QED
      BY <3>3 DEF A!SdkStep, A!Next
  <2> QED
    BY <1>4, <2>1, <2>2 DEF TokenArrives
<1>5. ASSUME NEW c \in Calls, TokenFails(c) PROVE A!Next
  <2>1. A!Cell!Fail(c)
    BY <1>5, <1>t DEF TokenFails, AcquireFails, A!Cell!Fail, TypeOK, Calls
  <2>2. \/ A!TokenRefused(c) \/ A!RefreshFails(c)
        \/ \E e \in {"connect_timeout", "unsent"} : A!SignerTransportFails(c, e)
    BY <1>5, <2>1 DEF TokenFails, A!TokenRefused, A!RefreshFails, A!SignerTransportFails
  <2> QED
    BY <2>2 DEF A!SdkStep, A!Next
<1>6. ASSUME Close PROVE [A!Next]_(A!vars)
  <2>1. CASE Clear(Closer)
    <3>1. A!Cell!Forget(issued + 1) /\ issued + 1 \in 1..(MaxMints + 1)
      BY <2>1, BoundAssumption
      DEF Clear, NoToken, IInv, TypeOK, FrontierInv, A!Cell!Forget
    <3> QED
      BY <1>6, <3>1 DEF Close, A!Close, A!Next, agentVars, A!wire, A!server
  <2>2. CASE Call(Closer, "clear")
    BY <1>6, <2>2 DEF Close, Call, agentVars, A!vars, A!wire, A!server
  <2> QED
    BY <1>6, <2>1, <2>2 DEF Close
<1>7. ASSUME PassTime \/ SystemFinished \/ UNCHANGED systemVars
      PROVE  UNCHANGED A!vars
  BY <1>7 DEF PassTime, SystemFinished, Tick, ClockStep, systemVars, vars,
    agentVars, A!vars, A!wire, A!server
<1> QED
  BY <1>1, <1>2, <1>3, <1>4, <1>5, <1>6, <1>7 DEF SystemNext, CallStep

LEMMA AgentInit == SystemInit => A!Init
  BY WorkloadAssumption DEF SystemInit, Init, NoToken, A!Init, A!Cell!Init, Calls

\* The agent over its real manager is the agent over a token cell: what is
\* proved of MachineAgent holds of the composition.
THEOREM ImplementsAgent == SystemSpec => IsMachineAgent
<1>1. SystemInv /\ [SystemNext]_systemVars => [A!Next]_(A!vars)
  BY AgentStep
<1> QED
  BY <1>1, AgentInit, SystemInvariance, PTL DEF SystemSpec, IsMachineAgent, A!Spec

--------------------------------------------------------------------------------
\* MachineAgent's theorems, read over the manager.
M == INSTANCE MachineAgentProofs WITH
       Tokens <- 1..(MaxMints + 1), cell <- cached.serial, oldest <- barrier,
       served <- [c \in Calls |-> returned[c]], pc <- stage

\* The agent that MachineAgent's theorems are about is the one composed here.
LEMMA SameAgent == A!Spec => M!Spec
<1>1. A!Init => M!Init
  BY DEF A!Init, M!Init, A!Cell!Init, M!Cell!Init, A!Requests, M!Requests
<1>2. [A!Next]_(A!vars) => [M!Next]_(M!vars)
  BY ZenonT(60)
  DEF A!Start, M!Start, A!Refuse, M!Refuse, A!TakeToken, M!TakeToken,
    A!TokenReady, M!TokenReady, A!TokenError, M!TokenError, A!TokenRefused,
    M!TokenRefused, A!SignerError, M!SignerError, A!SignerTransportFails,
    M!SignerTransportFails, A!NotSent, M!NotSent, A!Transmit, M!Transmit,
    A!Applied, M!Applied, A!Answer, M!Answer, A!Lose, M!Lose, A!LateDelivery,
    M!LateDelivery, A!ReplayIsSafe, M!ReplayIsSafe, A!IsIdempotent,
    M!IsIdempotent, A!PreResponse, M!PreResponse, A!CanRetry, M!CanRetry,
    A!Retry, M!Retry, A!GiveUpUnknown, M!GiveUpUnknown, A!GiveUp, M!GiveUp,
    A!Replayable, M!Replayable, A!ReturnResponse, M!ReturnResponse,
    A!RecoverFrom401, M!RecoverFrom401, A!Replay, M!Replay, A!RefreshOk,
    M!RefreshOk, A!RefreshError, M!RefreshError, A!RefreshFails,
    M!RefreshFails, A!Close, M!Close, A!Finish, M!Finish, A!Fails, M!Fails,
    A!SdkStep, M!SdkStep, A!WireStep, M!WireStep, A!Finished, M!Finished,
    A!Next, M!Next, A!vars, M!vars, A!tokens, M!tokens, A!server, M!server,
    A!wire, M!wire, A!Statuses, M!Statuses, A!Cell!Serve, M!Cell!Serve,
    A!Cell!Renew, M!Cell!Renew, A!Cell!Fail, M!Cell!Fail, A!Cell!Forget,
    M!Cell!Forget
<1> QED
  BY <1>1, <1>2, PTL DEF A!Spec, M!Spec

\* MachineAgent's invariant, with its types, holds over the manager.
LEMMA AgentInvariance == SystemSpec => []M!IInv
<1>1. 1..(MaxMints + 1) \subseteq Nat \ {0}
  BY BoundAssumption
<1>2. M!Spec => []M!IInv
  BY <1>1, RequestAssumption, M!Invariance
<1> QED
  BY <1>2, ImplementsAgent, SameAgent, PTL DEF IsMachineAgent

\* Every variable of the system keeps its type.
THEOREM SystemTypeCorrect == SystemSpec => []SystemTypeOK
<1>1. SystemInv => TypeOK /\ deadline \in [1..MaxMints -> Nat]
  BY DEF SystemInv, IInv, ShapeInv
<1>2. M!IInv => A!TypeOK
  BY DEF M!IInv, M!TypeOK, A!TypeOK, M!Requests, A!Requests, M!Statuses, A!Statuses,
    M!Failures, A!Failures
<1>3. SystemInv /\ M!IInv => SystemTypeOK
  BY <1>1, <1>2 DEF SystemTypeOK
<1> QED
  BY <1>3, SystemInvariance, AgentInvariance, PTL

\* Once a call has refreshed, the token its 401 was for is given to nobody.
THEOREM RejectedStaysRetired == SystemSpec => RejectedTokenIsRetired
<1>1. M!Spec => M!RejectedTokenIsRetired
  <2>1. 1..(MaxMints + 1) \subseteq Nat \ {0}
    BY BoundAssumption
  <2> QED
    BY <2>1, RequestAssumption, M!RejectedIsRetired
<1>2. M!RejectedTokenIsRetired => RejectedTokenIsRetired
  BY PTL DEF M!RejectedTokenIsRetired, A!RejectedTokenIsRetired, RejectedTokenIsRetired,
    A!vars, M!vars, A!tokens, M!tokens, A!wire, M!wire, A!server, M!server
<1> QED
  BY <1>1, <1>2, ImplementsAgent, SameAgent, PTL DEF IsMachineAgent

\* Over the real manager, too, a call takes effect once at most, a definite
\* failure means that nothing was sent, the replay presents a newer token, a
\* returned 401 is a second one, an unknown outcome is what it says, attempts
\* are bounded and every call runs down.
THEOREM SystemKeepsPromises ==
  SystemSpec =>
    /\ [](/\ M!NoDuplicateEffect /\ M!DefiniteFailureMeansNeverSent
          /\ M!ReplayUsesNewerToken /\ M!UnauthorizedIsConfirmed /\ M!AttemptBudget
          /\ M!UnknownIsAmbiguous)
    /\ M!CallsRunDown
<1>1. /\ M!Spec => []M!NoDuplicateEffect
      /\ M!Spec => []M!DefiniteFailureMeansNeverSent
      /\ M!Spec => []M!ReplayUsesNewerToken
      /\ M!Spec => []M!UnauthorizedIsConfirmed
      /\ M!Spec => []M!AttemptBudget
      /\ M!Spec => []M!UnknownIsAmbiguous
      /\ M!Spec => M!CallsRunDown
  <2>1. 1..(MaxMints + 1) \subseteq Nat \ {0}
    BY BoundAssumption
  <2>2. M!Spec => []M!NoDuplicateEffect
    BY <2>1, RequestAssumption, M!AtMostOneEffect
  <2>3. M!Spec => []M!DefiniteFailureMeansNeverSent
    BY <2>1, RequestAssumption, M!DefiniteFailures
  <2>4. M!Spec => []M!ReplayUsesNewerToken
    BY <2>1, RequestAssumption, M!ReplayAdvances
  <2>5. M!Spec => []M!UnauthorizedIsConfirmed
    BY <2>1, RequestAssumption, M!TwoRejections
  <2>6. M!Spec => []M!AttemptBudget
    BY <2>1, RequestAssumption, M!BoundedAttempts
  <2>7. M!Spec => M!CallsRunDown
    BY <2>1, RequestAssumption, M!EveryStepCounts
  <2>8. M!Spec => []M!UnknownIsAmbiguous
    BY <2>1, RequestAssumption, M!UnknownExplained
  <2> QED
    BY <2>2, <2>3, <2>4, <2>5, <2>6, <2>7, <2>8
<1> QED
  BY <1>1, ImplementsAgent, SameAgent, PTL DEF IsMachineAgent

--------------------------------------------------------------------------------
\* The calls use the manager as its callers may: with the agent around it, it
\* is the manager TokenManager specifies.
THEOREM SystemUsesManager == SystemSpec => Spec
<1>1. SystemInit => Init
  BY DEF SystemInit
<1> QED
  BY <1>1, ManagerStep, PTL DEF SystemSpec, Spec

\* So a reused token is live, no mint is wasted, and no call of the agent is
\* given a token replaced or cleared before it asked, in the order of issue.
THEOREM ManagerKeepsPromises ==
  SystemSpec => /\ [](FreshMeansLive /\ MintsOnlyWhenNeeded /\ NoStaleToken)
                /\ AnswersInOrder
  BY SystemUsesManager, ReuseIsSafe, NoWastedMint, NothingStale, Ordered, PTL
================================================================================
