---------------------------- MODULE LiveTokenProofs ----------------------------
(***************************************************************************)
(* Proof that the live tokens of an agent are accounted for: every one but *)
(* the cached one was superseded by a refresh after a 401, or by a close.  *)
(***************************************************************************)
EXTENDS AgentSystemProofs, FiniteSetTheorems

\* Live tokens the manager no longer holds, the calls that have refreshed,
\* and the closes that are over.
Superseded == LiveTokens \ {cached.serial}
Refreshed == {c \in Calls : round[c] = 2}
Closed == calls[Closer] - (IF pc[Closer] = "idle" THEN 0 ELSE 1)

\* The accounting, and what it needs of the cached token: the manager counts
\* with an expiry no earlier than the server's, which `deadline` remembers.
AccountInv ==
  /\ Cardinality(Superseded) <= Cardinality(Refreshed) + Closed
  /\ Closed \in Nat
  /\ cached.serial # 0 => /\ cached.validUntil <= cached.expiresAt
                          /\ deadline[cached.serial] = cached.validUntil

\* A set of tokens, or of calls, has a number of members, and a smaller set
\* has no more.
LEMMA Counting ==
  ASSUME NEW S, S \subseteq 1..MaxMints \/ S \subseteq Calls
  PROVE  /\ IsFiniteSet(S) /\ Cardinality(S) \in Nat
         /\ \A T \in SUBSET S : Cardinality(T) \in Nat /\ Cardinality(T) <= Cardinality(S)
<1>1. IsFiniteSet(1..MaxMints) /\ IsFiniteSet(Calls)
  BY BoundAssumption, FiniteAssumption, FS_Interval, FS_Subset DEF Calls
<1>2. IsFiniteSet(S)
  BY <1>1, FS_Subset
<1> QED
  BY <1>2, FS_Subset, FS_CardinalityType

\* What is counted, before and after a step.
LEMMA Countable ==
  /\ LiveTokens \subseteq 1..MaxMints /\ LiveTokens' \subseteq 1..MaxMints
  /\ Superseded \subseteq 1..MaxMints /\ Superseded' \subseteq 1..MaxMints
  /\ Refreshed \subseteq Calls /\ Refreshed' \subseteq Calls
  BY DEF LiveTokens, Superseded, Refreshed, Calls

\* The initial states satisfy the accounting.
LEMMA AccountInit == SystemInit => AccountInv
<1> SUFFICES ASSUME SystemInit PROVE AccountInv
  OBVIOUS
<1>1. SystemInv
  BY SystemInitInv
<1>2. Superseded = {}
  BY TimeAssumption DEF Superseded, LiveTokens, SystemInit, Init
<1>3. Cardinality(Superseded) = 0
  BY <1>2, FS_EmptySet
<1>4. Closed = 0
  BY CloserAssumption DEF Closed, SystemInit, Init
<1>5. cached.serial = 0
  BY DEF SystemInit, Init, NoToken
<1> QED
  BY <1>3, <1>4, <1>5, Counting, Countable DEF AccountInv

--------------------------------------------------------------------------------
\* A step that leaves the cached token, and the numbers it is weighed against,
\* supersedes nothing: tokens only expire.
LEMMA NothingSuperseded ==
  ASSUME TypeOK, TypeOK', ShapeInv, AccountInv, Observe, now <= now',
         cached' = cached, round' = round, Closed' = Closed
  PROVE  AccountInv'
<1>1. /\ now \in Nat /\ now' \in Nat /\ cached.serial \in 0..MaxMints
      /\ cached.validUntil \in Nat /\ deadline \in [1..MaxMints -> Nat]
  <2>1. now \in 0..MaxTime /\ (now \in 0..MaxTime)'
    BY DEF TypeOK
  <2>2. cached \in [serial : 0..MaxMints, expiresAt : Nat, validUntil : Nat]
    BY DEF TypeOK
  <2> QED
    BY <2>1, <2>2, BoundAssumption DEF ShapeInv
<1>2. \A t \in 1..MaxMints : deadline'[t] = deadline[t]
  BY <1>1 DEF Observe, AccountInv
<1>3. Superseded' \subseteq Superseded
  BY <1>1, <1>2, TimeAssumption DEF Superseded, LiveTokens
<1>4. Cardinality(Superseded') <= Cardinality(Superseded)
  BY <1>3, Counting, Countable
<1>5. Cardinality(Refreshed') = Cardinality(Refreshed)
  BY DEF Refreshed
<1>6. cached'.serial # 0 => deadline'[cached'.serial] = cached'.validUntil
  BY <1>1, <1>2 DEF AccountInv
<1>7. /\ Cardinality(Superseded') \in Nat /\ Cardinality(Superseded) \in Nat
      /\ Cardinality(Refreshed) \in Nat
  BY Counting, Countable
<1> QED
  BY <1>4, <1>5, <1>6, <1>7 DEF AccountInv

\* A step that stores another token supersedes the cached one at most, and not
\* even that one if it was no longer live.
LEMMA OneSuperseded ==
  ASSUME TypeOK, ShapeInv, AccountInv, Observe, now' = now
  PROVE  /\ Cardinality(Superseded') <= Cardinality(Superseded) + 1
         /\ (cached.serial # 0 => cached.validUntil <= now + Skew + MaxDrift)
              => Cardinality(Superseded') <= Cardinality(Superseded)
<1>1. cached.serial \in 0..MaxMints /\ deadline \in [1..MaxMints -> Nat]
  <2>1. cached \in [serial : 0..MaxMints, expiresAt : Nat, validUntil : Nat]
    BY DEF TypeOK
  <2> QED
    BY <2>1 DEF ShapeInv
<1>2. now \in Nat
  <2>1. now \in 0..MaxTime
    BY DEF TypeOK
  <2> QED
    BY <2>1, BoundAssumption
<1>3. \A t \in Superseded' : t \in LiveTokens
  BY <1>1 DEF Superseded, LiveTokens, Observe
<1>4. Superseded' \subseteq Superseded \cup {cached.serial}
  BY <1>3 DEF Superseded
<1>5. ASSUME cached.serial # 0 => cached.validUntil <= now + Skew + MaxDrift
      PROVE  Superseded' \subseteq Superseded
  <2>1. cached.serial \notin LiveTokens
    BY <1>1, <1>2, <1>5, TimeAssumption DEF LiveTokens, AccountInv
  <2> QED
    BY <1>3, <2>1 DEF Superseded
<1>6. /\ IsFiniteSet(Superseded \cup {cached.serial})
      /\ Cardinality(Superseded \cup {cached.serial}) \in Nat
      /\ Cardinality(Superseded \cup {cached.serial}) <= Cardinality(Superseded) + 1
      /\ Cardinality(Superseded) \in Nat
  <2>1. IsFiniteSet(Superseded) /\ Cardinality(Superseded) \in Nat
    BY Counting, Countable
  <2>2. /\ IsFiniteSet(Superseded \cup {cached.serial})
        /\ Cardinality(Superseded \cup {cached.serial}) =
             IF cached.serial \in Superseded THEN Cardinality(Superseded)
             ELSE Cardinality(Superseded) + 1
    BY <2>1, FS_AddElement
  <2> QED
    BY <2>1, <2>2
<1>7. Cardinality(Superseded') <= Cardinality(Superseded \cup {cached.serial})
      /\ Cardinality(Superseded') \in Nat
  BY <1>4, <1>6, FS_Subset, FS_CardinalityType
<1>8. (cached.serial # 0 => cached.validUntil <= now + Skew + MaxDrift)
        => Cardinality(Superseded') <= Cardinality(Superseded)
  BY <1>5, Counting, Countable
<1> QED
  BY <1>6, <1>7, <1>8

\* What MachineAgent's invariant says of the rounds of a call.
RoundInv ==
  /\ round \in [Calls -> 1..2]
  /\ \A c \in Calls : /\ stage[c] = "refresh" => round[c] = 1
                      /\ round[c] = 2 => rejected[c] # 0

\* A refresh that follows a 401 is counted, once.
LEMMA RefreshCounted ==
  ASSUME NEW c \in Calls, RoundInv, stage[c] = "refresh", A!Replay(c)
  PROVE  Cardinality(Refreshed') = Cardinality(Refreshed) + 1
<1>1. c \notin Refreshed
  BY DEF RoundInv, Refreshed
<1>2. Refreshed' = Refreshed \cup {c}
  BY DEF RoundInv, Refreshed, A!Replay
<1>3. Cardinality(Refreshed \cup {c}) = Cardinality(Refreshed) + 1
  BY <1>1, Counting, Countable, FS_AddElement
<1> QED
  BY <1>2, <1>3

--------------------------------------------------------------------------------
\* The manager stores a token: after a refresh the refresh pays for the one it
\* supersedes; after get_token that one was not live.
LEMMA ReceiveAccounted ==
  ASSUME SystemInv, TypeOK', AccountInv, RoundInv,
         NEW c \in Calls, TokenArrives(c), Receive(c)
  PROVE  AccountInv'
<1>t. TypeOK /\ ShapeInv /\ c \in Callers /\ Observe
  BY DEF SystemInv, IInv, Calls, TokenArrives
<1>1. now' = now /\ calls' = calls /\ pc' = [pc EXCEPT ![c] = "idle"]
      /\ pc[c] = "answered"
  BY DEF Receive
<1>2. Closed' = Closed
  BY <1>t, <1>1, CloserAssumption DEF Closed, Calls, TypeOK
<1>3. cached'.serial \in 1..MaxMints /\ cached'.validUntil <= cached'.expiresAt
  <2>1. /\ reply[c].expiresIn \in Nat /\ reply[c].at \in Nat /\ reply[c].at <= now
        /\ reply[c].serial = issued /\ barrier <= issued
    BY <1>t, <1>1, ReplyNat DEF SystemInv, IInv, ReplyInv
  <2>2. issued \in 0..MaxMints /\ barrier \in 1..(MaxMints + 1)
        /\ now \in 0..MaxTime /\ drift \in 0..MaxDrift
    BY <1>t DEF TypeOK
  <2>3. cached'.serial = issued
        /\ cached'.expiresAt = now + drift + Lifetime(reply[c].expiresIn)
        /\ cached'.validUntil = IF reply[c].expiresIn > 0
                                THEN reply[c].at + reply[c].expiresIn ELSE 0
    BY <2>1 DEF Receive, HostClock
  <2>4. Lifetime(reply[c].expiresIn) \in Nat
        /\ (reply[c].expiresIn > 0 => Lifetime(reply[c].expiresIn) = reply[c].expiresIn)
    BY <2>1, TimeAssumption DEF Lifetime
  <2> QED
    BY <2>1, <2>2, <2>3, <2>4, BoundAssumption, TimeAssumption
<1>4. deadline'[cached'.serial] = cached'.validUntil
  BY <1>t, <1>3 DEF Observe
<1>5. /\ Cardinality(Superseded) \in Nat /\ Cardinality(Superseded') \in Nat
      /\ Cardinality(Refreshed) \in Nat /\ Closed \in Nat
  BY Counting, Countable DEF AccountInv
<1>6. Cardinality(Superseded') <= Cardinality(Refreshed') + Closed
  <2>1. CASE op[c] = "get"
    <3>1. cached.serial # 0 => cached.expiresAt <= now + MaxDrift + Skew
      BY <1>t, <1>1, <2>1 DEF SystemInv, IInv, MintsOnlyWhenNeeded, Acquiring
    <3>2. cached \in [serial : 0..MaxMints, expiresAt : Nat, validUntil : Nat]
          /\ now \in 0..MaxTime
      BY <1>t DEF TypeOK
    <3>3. cached.serial # 0 => cached.validUntil <= now + Skew + MaxDrift
      BY <3>1, <3>2, BoundAssumption, TimeAssumption DEF AccountInv
    <3>4. Cardinality(Superseded') <= Cardinality(Superseded)
      BY <1>t, <1>1, <3>3, OneSuperseded
    <3>5. A!TakeToken(c)
      BY <1>1, <2>1 DEF TokenArrives, A!Replay, SystemInv, StageInv
    <3>6. Refreshed' = Refreshed
      BY <3>5 DEF A!TakeToken, Refreshed
    <3> QED
      BY <1>5, <3>4, <3>6 DEF AccountInv
  <2>2. CASE op[c] = "refresh"
    <3>1. stage[c] = "refresh" /\ A!Replay(c)
      BY <1>1, <2>2 DEF TokenArrives, A!TakeToken, SystemInv, StageInv
    <3>2. Cardinality(Refreshed') = Cardinality(Refreshed) + 1
      BY <3>1, RefreshCounted
    <3>3. Cardinality(Superseded') <= Cardinality(Superseded) + 1
      BY <1>t, <1>1, OneSuperseded
    <3> QED
      BY <1>5, <3>2, <3>3 DEF AccountInv
  <2> QED
    BY <1>1, <2>1, <2>2 DEF SystemInv, StageInv
<1> QED
  BY <1>2, <1>3, <1>4, <1>5, <1>6 DEF AccountInv

\* A close pays for the token it empties the cell of.
LEMMA ClearAccounted ==
  ASSUME SystemInv, AccountInv, Observe, Clear(Closer), UNCHANGED agentVars
  PROVE  AccountInv'
<1>t. TypeOK /\ ShapeInv
  BY DEF SystemInv, IInv
<1>1. pc[Closer] = "waiting" /\ pc'[Closer] = "idle" /\ calls' = calls /\ now' = now
  BY <1>t, CloserAssumption DEF Clear, Enters, TypeOK
<1>2. Closed' = Closed + 1 /\ Closed \in Nat
  <2>1. calls[Closer] \in 0..MaxCalls
    BY <1>t, CloserAssumption DEF TypeOK
  <2> QED
    BY <1>1, <2>1, BoundAssumption DEF Closed, AccountInv
<1>3. Cardinality(Superseded') <= Cardinality(Superseded) + 1
  BY <1>t, <1>1, OneSuperseded
<1>4. Refreshed' = Refreshed
  BY DEF agentVars, Refreshed
<1>5. cached'.serial = 0
  BY DEF Clear, NoToken
<1>6. /\ Cardinality(Superseded) \in Nat /\ Cardinality(Superseded') \in Nat
      /\ Cardinality(Refreshed) \in Nat
  BY Counting, Countable
<1> QED
  BY <1>2, <1>3, <1>4, <1>5, <1>6 DEF AccountInv

\* Every step keeps the accounting.
LEMMA AccountStep ==
  SystemInv /\ SystemInv' /\ RoundInv /\ AccountInv /\ [SystemNext]_systemVars
    => AccountInv'
<1> SUFFICES ASSUME SystemInv, SystemInv', RoundInv, AccountInv,
                    [SystemNext]_systemVars
             PROVE  AccountInv'
  OBVIOUS
<1>t. TypeOK /\ TypeOK' /\ ShapeInv
  BY DEF SystemInv, IInv
<1>n. now \in Nat /\ calls[Closer] \in Nat
  <2>1. now \in 0..MaxTime /\ calls[Closer] \in 0..MaxCalls
    BY <1>t, CloserAssumption DEF TypeOK
  <2> QED
    BY <2>1, BoundAssumption
<1>1. ASSUME NEW c \in Calls,
             Local(c) \/ WireStep(c) \/ LateDelivery(c) \/ Ask(c) \/ Acquire(c)
             \/ TokenFails(c) \/ (TokenArrives(c) /\ GetHit(c))
      PROVE  AccountInv'
  <2>1. Observe
    BY <1>1 DEF Local, WireStep, LateDelivery, Ask, Acquire, TokenFails, TokenArrives
  <2>2. /\ cached' = cached /\ now' = now
        /\ calls'[Closer] = calls[Closer] /\ pc'[Closer] = pc[Closer]
    <3>1. CASE Local(c) \/ WireStep(c) \/ LateDelivery(c)
      BY <3>1 DEF Local, WireStep, LateDelivery, vars
    <3>c. Closer \in Callers /\ Closer # c /\ c \in Callers
      BY CloserAssumption DEF Calls
    <3>2. CASE Ask(c)
      <4>1. cached' = cached /\ now' = now
            /\ calls' = [calls EXCEPT ![c] = @ + 1] /\ pc' = [pc EXCEPT ![c] = "waiting"]
        BY <3>2 DEF Ask, Call
      <4> QED
        BY <1>t, <3>c, <4>1 DEF TypeOK
    <3>3. CASE Acquire(c)
      <4>1. cached' = cached /\ now' = now /\ calls' = calls
        BY <3>3 DEF Acquire, GetMiss, Refresh, BeginAcquire, Post, Issue
      <4> QED
        BY <1>t, <3>3, <3>c, <4>1, ManagerMoves
    <3>4. CASE TokenFails(c)
      <4>1. cached' = cached /\ now' = now /\ calls' = calls
        BY <3>4 DEF TokenFails, AcquireFails
      <4> QED
        BY <1>t, <3>4, <3>c, <4>1, ManagerMoves DEF TypeOK
    <3>5. CASE TokenArrives(c) /\ GetHit(c)
      BY <1>t, <3>5 DEF GetHit, Calls, TypeOK
    <3> QED
      BY <1>1, <3>1, <3>2, <3>3, <3>4, <3>5
  <2>4. round' = round
    <3>1. CASE Local(c)
      BY <3>1 DEF Local, A!Start, A!Refuse, A!NotSent, A!Transmit, A!Retry,
        A!GiveUpUnknown, A!GiveUp, A!ReturnResponse, A!RecoverFrom401
    <3>2. CASE WireStep(c) \/ LateDelivery(c)
      BY <3>2 DEF WireStep, LateDelivery, A!WireStep, A!Lose, A!Answer, A!LateDelivery
    <3>3. CASE Ask(c) \/ Acquire(c)
      BY <3>3 DEF Ask, Acquire, agentVars
    <3>4. CASE TokenFails(c)
      BY <3>4 DEF TokenFails, A!TokenError, A!RefreshError, A!SignerError
    <3>5. CASE TokenArrives(c) /\ GetHit(c)
      BY <3>5 DEF TokenArrives, GetHit, Enters, SystemInv, StageInv, A!TakeToken, A!Replay
    <3> QED
      BY <1>1, <3>1, <3>2, <3>3, <3>4, <3>5
  <2>5. Closed' = Closed
    BY <2>2 DEF Closed
  <2> QED
    BY <1>t, <1>n, <2>1, <2>2, <2>4, <2>5, NothingSuperseded
<1>2. ASSUME NEW c \in Calls, TokenArrives(c), Receive(c) PROVE AccountInv'
  BY <1>t, <1>2, ReceiveAccounted
<1>3. ASSUME Close PROVE AccountInv'
  <2>1. CASE Clear(Closer)
    BY <1>3, <2>1, ClearAccounted DEF Close
  <2>2. CASE Call(Closer, "clear")
    <3>1. Closed' = Closed
      BY <1>t, <1>n, <2>2, CloserAssumption DEF Call, Closed, TypeOK
    <3>2. cached' = cached /\ now' = now /\ round' = round /\ Observe
      BY <1>3, <2>2 DEF Close, Call, agentVars
    <3> QED
      BY <1>t, <1>n, <3>1, <3>2, NothingSuperseded
  <2> QED
    BY <1>3, <2>1, <2>2 DEF Close
<1>4. ASSUME PassTime PROVE AccountInv'
  <2>1. /\ cached' = cached /\ round' = round /\ Observe
        /\ calls' = calls /\ pc' = pc /\ (now' = now \/ now' = now + 1)
    BY <1>4 DEF PassTime, Tick, ClockStep, agentVars
  <2>2. Closed' = Closed
    BY <2>1 DEF Closed
  <2> QED
    BY <1>t, <1>n, <2>1, <2>2, NothingSuperseded
<1>5. ASSUME SystemFinished \/ UNCHANGED systemVars PROVE AccountInv'
  <2>1. UNCHANGED <<vars, agentVars, deadline>>
    BY <1>5 DEF SystemFinished, systemVars
  <2>2. Superseded' = Superseded /\ Refreshed' = Refreshed /\ Closed' = Closed
    BY <2>1 DEF vars, agentVars, Superseded, LiveTokens, Refreshed, Closed
  <2>3. cached' = cached /\ deadline' = deadline
    BY <2>1 DEF vars
  <2> QED
    BY <2>2, <2>3 DEF AccountInv
<1>6. ASSUME NEW c \in Calls, TokenArrives(c) PROVE GetHit(c) \/ Receive(c)
  BY <1>6 DEF TokenArrives
<1> QED
  BY <1>1, <1>2, <1>3, <1>4, <1>5, <1>6 DEF SystemNext, CallStep

\* The accounting holds in every reachable state.
THEOREM Accounting == SystemSpec => [](AccountInv /\ RoundInv)
<1>1. M!IInv => RoundInv
  BY DEF M!IInv, M!TypeOK, M!ReplayInv, RoundInv
<1>2. SystemInit => AccountInv
  BY AccountInit
<1>3. SystemInv /\ SystemInv' /\ RoundInv /\ AccountInv /\ [SystemNext]_systemVars
        => AccountInv'
  BY AccountStep
<1> QED
  BY <1>1, <1>2, <1>3, SystemInvariance, AgentInvariance, PTL DEF SystemSpec

\* However calls, refreshes, closes and time interleave, the live tokens are
\* one, and one more for each 401 recovered from and each close.
THEOREM LiveTokensAccounted == SystemSpec => []LiveTokensAreAccountedFor
<1>1. SystemInv /\ AccountInv /\ RoundInv => LiveTokensAreAccountedFor
  <2> SUFFICES ASSUME SystemInv, AccountInv, RoundInv
               PROVE  LiveTokensAreAccountedFor
    OBVIOUS
  <2> DEFINE Rejected == {c \in Calls : rejected[c] # 0}
  <2>1. Cardinality(Refreshed) <= Cardinality(Rejected)
        /\ Cardinality(Refreshed) \in Nat /\ Cardinality(Rejected) \in Nat
    <3>1. Refreshed \in SUBSET Rejected /\ Rejected \subseteq Calls
      BY DEF RoundInv, Refreshed
    <3> QED
      BY <3>1, Counting
  <2>2. Cardinality(LiveTokens) <= Cardinality(Superseded) + 1
        /\ Cardinality(LiveTokens) \in Nat /\ Cardinality(Superseded) \in Nat
    <3>1. IsFiniteSet(Superseded) /\ Cardinality(Superseded) \in Nat
          /\ Cardinality(LiveTokens) \in Nat
      BY Counting, Countable
    <3>2. /\ IsFiniteSet(Superseded \cup {cached.serial})
          /\ Cardinality(Superseded \cup {cached.serial}) =
               IF cached.serial \in Superseded THEN Cardinality(Superseded)
               ELSE Cardinality(Superseded) + 1
      BY <3>1, FS_AddElement
    <3>3. LiveTokens \in SUBSET (Superseded \cup {cached.serial})
      BY DEF Superseded
    <3>4. Cardinality(LiveTokens) <= Cardinality(Superseded \cup {cached.serial})
      BY <3>2, <3>3, FS_Subset
    <3> QED
      BY <3>1, <3>2, <3>4
  <2>3. Closed <= calls[Closer] /\ Closed \in Nat /\ calls[Closer] \in Nat
    <3>1. calls[Closer] \in 0..MaxCalls
      BY CloserAssumption DEF SystemInv, IInv, TypeOK
    <3> QED
      BY <3>1, BoundAssumption DEF Closed, AccountInv
  <2> QED
    BY <2>1, <2>2, <2>3 DEF LiveTokensAreAccountedFor, AccountInv
<1> QED
  BY <1>1, Accounting, SystemInvariance, PTL
================================================================================
