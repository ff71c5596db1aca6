--------------------------- MODULE TokenManagerProofs ---------------------------
(***************************************************************************)
(* Proofs about TokenManager, for any number of callers and tokens, any    *)
(* leeway, latency and drift, and any mix of operations.                   *)
(***************************************************************************)
EXTENDS TokenManager, TLAPS

\* The lock is held by exactly the caller that is inside _acquire.
LockInv == \A c \in Callers : pc[c] \in Acquiring <=> lock = c

\* Only get_token and refresh acquire.
OpInv == \A c \in Callers : pc[c] \in Acquiring => op[c] # "clear"

\* The cached token is the frontier, and the frontier is not in the future
\* beyond the next token.
FrontierInv == /\ cached.serial <= issued
               /\ barrier <= issued + 1
               /\ cached.serial # 0 => cached.serial = barrier

\* A token in flight is the newest one, newer than the cached one.
ReplyInv == \A c \in Callers : pc[c] = "answered" =>
              /\ reply[c].serial = issued
              /\ barrier <= reply[c].serial
              /\ cached.serial < reply[c].serial
              /\ reply[c].at <= now

\* What a call may return is still ahead of it.
FloorInv == \A c \in Callers : pc[c] # "idle" =>
              /\ op[c] = "get" => floor[c] <= barrier
              /\ op[c] = "refresh" => floor[c] <= issued + 1
              /\ op[c] = "refresh" /\ pc[c] = "answered" => floor[c] <= reply[c].serial

\* NoStaleToken, extended to a caller that is clearing: clear() leaves the
\* caller's last token and its floor alone.
ReturnedInv == \A c \in Callers :
                 (pc[c] = "idle" \/ op[c] = "clear") /\ returned[c] # 0
                   => returned[c] >= floor[c]

\* The host-clock expiry overshoots the server's by latency and drift at most.
ExpiryInv == cached.serial # 0 /\ cached.validUntil # 0
               => cached.expiresAt <= cached.validUntil + Latency + MaxDrift

\* No caller is ahead of the frontier.
OrderInv == \A c \in Callers : returned[c] <= barrier

IInv == /\ TypeOK /\ LockInv /\ OpInv /\ FrontierInv /\ OrderInv
        /\ ReplyInv /\ FloorInv /\ ReturnedInv /\ ExpiryInv /\ MintsOnlyWhenNeeded

\* A lifetime the manager counts with is a positive number.
LEMMA LifetimePositive ==
  \A e \in Lifetimes \cup {0} : Lifetime(e) \in Nat \ {0}
  BY TimeAssumption DEF Lifetime

\* What a stated lifetime and an issue time can be.
LEMMA ReplyNat ==
  ASSUME TypeOK, NEW c \in Callers
  PROVE  /\ reply[c].expiresIn \in Lifetimes \cup {0}
         /\ reply[c].expiresIn \in Nat
         /\ reply[c].at \in Nat
<1>1. reply[c].expiresIn \in Lifetimes \cup {0} /\ reply[c].at \in Nat
  BY DEF TypeOK
<1>2. \A e \in Lifetimes \cup {0} : e \in Nat
  BY TimeAssumption
<1> QED
  BY <1>1, <1>2

\* The initial states satisfy the invariant.
LEMMA InitInv == Init => IInv
<1> SUFFICES ASSUME Init PROVE IInv
  OBVIOUS
<1>1. TypeOK
  BY TimeAssumption, BoundAssumption DEF Init, TypeOK, NoToken, NoReply
<1>2. LockInv /\ OpInv /\ ReplyInv /\ FloorInv
  BY NobodyAssumption DEF Init, LockInv, OpInv, ReplyInv, FloorInv, Acquiring
<1>3. FrontierInv /\ OrderInv /\ ReturnedInv /\ ExpiryInv /\ MintsOnlyWhenNeeded
  BY DEF Init, FrontierInv, OrderInv, ReturnedInv, ExpiryInv, MintsOnlyWhenNeeded, NoToken
<1> QED
  BY <1>1, <1>2, <1>3 DEF IInv

\* Every step keeps every variable in its type.
LEMMA TypeStep == TypeOK /\ ReplyInv /\ [Next]_vars => TypeOK'
<1> SUFFICES ASSUME TypeOK, ReplyInv, [Next]_vars PROVE TypeOK'
  OBVIOUS
<1> USE TimeAssumption, BoundAssumption DEF TypeOK
<1>1. ASSUME NEW c \in Callers, NEW o \in Ops, Call(c, o) PROVE TypeOK'
  BY <1>1, OpsAssumption DEF Call
<1>2. ASSUME NEW c \in Callers, GetHit(c) PROVE TypeOK'
  BY <1>2 DEF GetHit
<1>3. ASSUME NEW c \in Callers, GetMiss(c) \/ Refresh(c) PROVE TypeOK'
  BY <1>3 DEF GetMiss, Refresh, BeginAcquire, Acquiring
<1>4. ASSUME NEW c \in Callers, Clear(c) PROVE TypeOK'
  BY <1>4 DEF Clear, NoToken
<1>5. ASSUME NEW c \in Callers, Post(c) PROVE TypeOK'
  BY <1>5 DEF Post, Acquiring
<1>6. ASSUME NEW c \in Callers, NEW e \in Lifetimes, Issue(c, e)
      PROVE TypeOK'
  BY <1>6 DEF Issue, Acquiring
<1>7. ASSUME NEW c \in Callers, Receive(c) PROVE TypeOK'
  <2>e. /\ reply[c].expiresIn \in Lifetimes \cup {0}
        /\ reply[c].expiresIn \in Nat
        /\ reply[c].at \in Nat
    BY ReplyNat
  <2>1. HostClock + Lifetime(reply[c].expiresIn) \in Nat
    <3>1. Lifetime(reply[c].expiresIn) \in Nat
      BY <2>e, LifetimePositive
    <3>2. HostClock \in Nat
      BY DEF HostClock
    <3> QED
      BY <3>1, <3>2
  <2>2. (IF reply[c].expiresIn > 0 THEN reply[c].at + reply[c].expiresIn ELSE 0) \in Nat
    BY <2>e
  <2>3. cached' \in [serial : 0..MaxMints, expiresAt : Nat, validUntil : Nat]
    BY <1>7, <2>1, <2>2 DEF Receive
  <2>4. reply[c].serial \in 1..(MaxMints + 1)
    BY <1>7 DEF Receive, ReplyInv
  <2> QED
    BY <1>7, <2>3, <2>4 DEF Receive, NoReply
<1>8. ASSUME NEW c \in Callers, AcquireFails(c) PROVE TypeOK'
  BY <1>8 DEF AcquireFails, NoReply
<1>9. CASE Tick \/ ClockStep
  BY <1>9 DEF Tick, ClockStep
<1>10. CASE UNCHANGED vars
  BY <1>10 DEF vars
<1> QED
  BY <1>1, <1>2, <1>3, <1>4, <1>5, <1>6, <1>7, <1>8, <1>9, <1>10
  DEF Next, Proceed, Finished

\* Every step preserves the invariant.
LEMMA InvStep == IInv /\ [Next]_vars => IInv'
<1> SUFFICES ASSUME IInv, [Next]_vars PROVE IInv'
  OBVIOUS
<1>t. TypeOK'
  BY TypeStep DEF IInv
<1> USE DEF IInv, TypeOK
<1>1. ASSUME NEW c \in Callers, NEW o \in Ops, Call(c, o) PROVE IInv'
  <2> USE <1>1 DEF Call
  <2>1. LockInv' /\ OpInv' /\ ReplyInv' /\ FrontierInv' /\ ExpiryInv'
    BY DEF LockInv, OpInv, ReplyInv, FrontierInv, ExpiryInv, Acquiring
  <2>2. FloorInv'
    BY OpsAssumption DEF FloorInv
  <2>3. ReturnedInv' /\ OrderInv'
    BY OpsAssumption DEF ReturnedInv, OrderInv
  <2>m. MintsOnlyWhenNeeded'
    BY DEF MintsOnlyWhenNeeded, Acquiring
  <2> QED
    BY <1>t, <2>1, <2>2, <2>3, <2>m
<1>2. ASSUME NEW c \in Callers, GetHit(c) PROVE IInv'
  <2> USE <1>2 DEF GetHit, Enters, Fresh
  <2>1. LockInv' /\ OpInv' /\ ReplyInv' /\ FrontierInv' /\ ExpiryInv' /\ FloorInv'
    BY DEF LockInv, OpInv, ReplyInv, FrontierInv, ExpiryInv, FloorInv, Acquiring
  <2>2. ReturnedInv' /\ OrderInv'
    BY DEF ReturnedInv, OrderInv, FloorInv, FrontierInv
  <2>m. MintsOnlyWhenNeeded'
    BY DEF MintsOnlyWhenNeeded, Acquiring
  <2> QED
    BY <1>t, <2>1, <2>2, <2>m
<1>3. ASSUME NEW c \in Callers, GetMiss(c) \/ Refresh(c) PROVE IInv'
  <2> USE <1>3 DEF GetMiss, Refresh, BeginAcquire, Enters
  <2>1. LockInv'
    BY NobodyAssumption DEF LockInv, Acquiring
  <2>2. OpInv' /\ ReplyInv' /\ FrontierInv' /\ ExpiryInv' /\ FloorInv' /\ ReturnedInv' /\ OrderInv'
    BY DEF OpInv, ReplyInv, FrontierInv, ExpiryInv, FloorInv, ReturnedInv, OrderInv, Acquiring
  <2>m. MintsOnlyWhenNeeded'
    BY TimeAssumption DEF MintsOnlyWhenNeeded, LockInv, Fresh, HostClock, Acquiring
  <2> QED
    BY <1>t, <2>1, <2>2, <2>m
<1>4. ASSUME NEW c \in Callers, Clear(c) PROVE IInv'
  <2> USE <1>4 DEF Clear, Enters, NoToken
  <2>1. LockInv' /\ OpInv' /\ FrontierInv' /\ ExpiryInv'
    BY DEF LockInv, OpInv, FrontierInv, ExpiryInv, Acquiring
  <2>2. ReplyInv'
    BY NobodyAssumption DEF ReplyInv, LockInv, Acquiring
  <2>3. FloorInv'
    BY DEF FloorInv, FrontierInv
  <2>4. ReturnedInv' /\ OrderInv'
    BY DEF ReturnedInv, OrderInv, FrontierInv
  <2>m. MintsOnlyWhenNeeded'
    BY DEF MintsOnlyWhenNeeded, Acquiring
  <2> QED
    BY <1>t, <2>1, <2>2, <2>3, <2>4, <2>m
<1>5. ASSUME NEW c \in Callers, Post(c) PROVE IInv'
  <2> USE <1>5 DEF Post
  <2>1. LockInv' /\ OpInv' /\ ReplyInv' /\ FrontierInv' /\ ExpiryInv' /\ FloorInv'
    BY DEF LockInv, OpInv, ReplyInv, FrontierInv, ExpiryInv, FloorInv, Acquiring
  <2>2. ReturnedInv' /\ OrderInv'
    BY DEF ReturnedInv, OrderInv, OpInv, Acquiring
  <2>m. MintsOnlyWhenNeeded'
    BY DEF MintsOnlyWhenNeeded, Acquiring
  <2> QED
    BY <1>t, <2>1, <2>2, <2>m
<1>6. ASSUME NEW c \in Callers, NEW e \in Lifetimes, Issue(c, e)
      PROVE IInv'
  <2> USE <1>6 DEF Issue
  <2>1. \A d \in Callers : pc[d] \in Acquiring => d = c
    BY DEF LockInv, Acquiring
  <2>2. LockInv' /\ OpInv' /\ FrontierInv' /\ ExpiryInv'
    BY DEF LockInv, OpInv, FrontierInv, ExpiryInv, Acquiring
  <2>3. ReplyInv'
    BY <2>1 DEF ReplyInv, FrontierInv, Acquiring
  <2>4. FloorInv'
    BY <2>1 DEF FloorInv, Acquiring
  <2>5. ReturnedInv' /\ OrderInv'
    BY DEF ReturnedInv, OrderInv, OpInv, Acquiring
  <2>m. MintsOnlyWhenNeeded'
    BY DEF MintsOnlyWhenNeeded, Acquiring
  <2> QED
    BY <1>t, <2>2, <2>3, <2>4, <2>5, <2>m
<1>7. ASSUME NEW c \in Callers, Receive(c) PROVE IInv'
  <2> USE <1>7 DEF Receive
  <2>1. \A d \in Callers : pc[d] \in Acquiring => d = c
    BY DEF LockInv, Acquiring
  <2>2. LockInv' /\ OpInv'
    BY <2>1, NobodyAssumption DEF LockInv, OpInv, Acquiring
  <2>3. FrontierInv'
    BY DEF FrontierInv, ReplyInv
  <2>4. ReplyInv'
    BY <2>1 DEF ReplyInv, Acquiring
  <2>5. FloorInv'
    BY <2>1 DEF FloorInv, ReplyInv, Acquiring
  <2>6. ReturnedInv' /\ OrderInv'
    BY DEF ReturnedInv, OrderInv, FloorInv, ReplyInv, OpInv, Acquiring
  <2>7. ExpiryInv'
    <3>1. reply[c].expiresIn \in Nat /\ reply[c].at \in Nat
      BY ReplyNat
    <3>2. CASE reply[c].expiresIn > 0
      <4>1. /\ cached'.expiresAt = now + drift + reply[c].expiresIn
            /\ cached'.validUntil = reply[c].at + reply[c].expiresIn
        BY <3>1, <3>2 DEF HostClock, Lifetime
      <4>2. now <= reply[c].at + Latency /\ drift <= MaxDrift
        OBVIOUS
      <4> QED
        BY <3>1, <4>1, <4>2, TimeAssumption DEF ExpiryInv
    <3>3. CASE ~(reply[c].expiresIn > 0)
      BY <3>3 DEF ExpiryInv
    <3> QED
      BY <3>2, <3>3
  <2>m. MintsOnlyWhenNeeded'
    BY <2>1 DEF MintsOnlyWhenNeeded, Acquiring
  <2> QED
    BY <1>t, <2>2, <2>3, <2>4, <2>5, <2>6, <2>7, <2>m
<1>8. ASSUME NEW c \in Callers, AcquireFails(c) PROVE IInv'
  <2> USE <1>8 DEF AcquireFails
  <2>1. \A d \in Callers : pc[d] \in Acquiring => d = c
    BY DEF LockInv, Acquiring
  <2>2. LockInv' /\ OpInv'
    BY <2>1, NobodyAssumption DEF LockInv, OpInv, Acquiring
  <2>3. ReplyInv'
    BY <2>1 DEF ReplyInv, Acquiring
  <2>4. FloorInv'
    BY <2>1 DEF FloorInv, Acquiring
  <2>5. FrontierInv' /\ ExpiryInv' /\ ReturnedInv' /\ OrderInv'
    BY DEF FrontierInv, ExpiryInv, ReturnedInv, OrderInv
  <2>m. MintsOnlyWhenNeeded'
    BY DEF MintsOnlyWhenNeeded, Acquiring
  <2> QED
    BY <1>t, <2>2, <2>3, <2>4, <2>5, <2>m
<1>9. CASE Tick \/ ClockStep
  <2> USE <1>9 DEF Tick, ClockStep
  <2>1. LockInv' /\ OpInv' /\ FrontierInv' /\ FloorInv' /\ ReturnedInv' /\ OrderInv' /\ ExpiryInv'
    BY DEF LockInv, OpInv, FrontierInv, FloorInv, ReturnedInv, OrderInv, ExpiryInv
  <2>2. ReplyInv'
    BY DEF ReplyInv
  <2>m. MintsOnlyWhenNeeded'
    BY TimeAssumption DEF MintsOnlyWhenNeeded
  <2> QED
    BY <1>t, <2>1, <2>2, <2>m
<1>10. CASE UNCHANGED vars
  BY <1>t, <1>10 DEF vars, LockInv, OpInv, FrontierInv, ReplyInv, FloorInv,
                     ReturnedInv, OrderInv, ExpiryInv, MintsOnlyWhenNeeded
<1> QED
  BY <1>1, <1>2, <1>3, <1>4, <1>5, <1>6, <1>7, <1>8, <1>9, <1>10
  DEF Next, Proceed, Finished

\* The invariant holds in every reachable state.
THEOREM Invariance == Spec => []IInv
<1>1. Init => IInv
  BY InitInv
<1>2. IInv /\ [Next]_vars => IInv'
  BY InvStep
<1> QED
  BY <1>1, <1>2, PTL DEF Spec

\* Every variable keeps its type.
THEOREM TypeCorrect == Spec => []TypeOK
<1>1. IInv => TypeOK
  BY DEF IInv
<1> QED
  BY <1>1, Invariance, PTL

\* A token get_token would reuse is accepted by the server for longer than
\* the leeway less latency and drift, whatever those three are.
THEOREM ReuseIsSafe == Spec => []FreshMeansLive
<1>1. IInv => FreshMeansLive
  BY TimeAssumption DEF IInv, TypeOK, ExpiryInv, FreshMeansLive, Fresh, HostClock, Margin
<1> QED
  BY <1>1, Invariance, PTL

\* However many callers miss at once, only those mint that found nothing to
\* reuse once they had the lock, for any lifetimes, drift and leeway.
THEOREM NoWastedMint == Spec => []MintsOnlyWhenNeeded
<1>1. IInv => MintsOnlyWhenNeeded
  BY DEF IInv
<1> QED
  BY <1>1, Invariance, PTL

\* No call returns a token replaced or cleared before the call began, and no
\* refresh returns a token issued before it was called.
THEOREM NothingStale == Spec => []NoStaleToken
<1>1. IInv => NoStaleToken
  BY DEF IInv, ReturnedInv, NoStaleToken
<1> QED
  BY <1>1, Invariance, PTL

\* A step that hands out a token hands out one no caller is ahead of.
LEMMA OrderStep ==
  ASSUME IInv, [Next]_vars, NEW c \in Callers, NEW d \in Callers,
         returned'[c] \notin {0, returned[c]}
  PROVE  returned'[c] >= returned[d]
<1> USE DEF IInv, TypeOK, OrderInv, FrontierInv, ReplyInv
<1>1. ASSUME NEW e \in Callers, GetHit(e) PROVE returned'[c] >= returned[d]
  BY <1>1 DEF GetHit, Fresh
<1>2. ASSUME NEW e \in Callers, Receive(e) PROVE returned'[c] >= returned[d]
  BY <1>2 DEF Receive
<1>3. ASSUME NEW e \in Callers, AcquireFails(e) PROVE FALSE
  BY <1>3 DEF AcquireFails
<1>4. ASSUME NEW e \in Callers,
             \/ GetMiss(e) \/ Refresh(e) \/ Clear(e) \/ Post(e)
             \/ \E x \in Lifetimes : Issue(e, x)
             \/ \E o \in Ops : Call(e, o)
      PROVE FALSE
  BY <1>4 DEF GetMiss, Refresh, BeginAcquire, Clear, Post, Issue, Call
<1>5. Tick \/ ClockStep \/ UNCHANGED vars => FALSE
  BY DEF Tick, ClockStep, vars
<1> QED
  BY <1>1, <1>2, <1>3, <1>4, <1>5 DEF Next, Proceed, Finished

\* Over all callers, tokens are handed out in the order of their issue.
THEOREM Ordered == Spec => AnswersInOrder
<1> DEFINE InOrder == \A c, d \in Callers :
             returned'[c] \notin {0, returned[c]} => returned'[c] >= returned[d]
<1>1. IInv /\ [Next]_vars => [InOrder]_vars
  BY OrderStep
<1> QED
  BY <1>1, Invariance, PTL DEF Spec, AnswersInOrder

\* The initial states are initial states of the token cell.
LEMMA CellInit == Init => Cell!Init
  BY DEF Init, Cell!Init, NoToken

\* Every step is a step of the token cell, or none.
LEMMA CellStep == IInv /\ [Next]_vars => [Cell!Next]_(Cell!vars)
<1> SUFFICES ASSUME IInv, [Next]_vars PROVE [Cell!Next]_(Cell!vars)
  OBVIOUS
<1> USE DEF IInv, TypeOK, Cell!vars
<1>1. ASSUME NEW c \in Callers, GetHit(c) PROVE Cell!Serve(c)
  BY <1>1 DEF GetHit, Fresh, Cell!Serve
<1>2. ASSUME NEW c \in Callers, Clear(c) PROVE Cell!Forget(issued + 1)
  BY <1>2 DEF Clear, NoToken, FrontierInv, Cell!Forget
<1>3. ASSUME NEW c \in Callers, Receive(c) PROVE Cell!Renew(c, reply[c].serial)
  BY <1>3 DEF Receive, ReplyInv, Cell!Renew
<1>4. ASSUME NEW c \in Callers, AcquireFails(c) PROVE Cell!Fail(c)
  BY <1>4 DEF AcquireFails, Cell!Fail
<1>5. ASSUME NEW c \in Callers,
             \/ GetMiss(c) \/ Refresh(c) \/ Post(c)
             \/ \E e \in Lifetimes : Issue(c, e)
             \/ \E o \in Ops : Call(c, o)
      PROVE UNCHANGED Cell!vars
  BY <1>5 DEF GetMiss, Refresh, BeginAcquire, Post, Issue, Call
<1>6. Tick \/ ClockStep \/ UNCHANGED vars => UNCHANGED Cell!vars
  BY DEF Tick, ClockStep, vars
<1>7. issued + 1 \in 1..(MaxMints + 1)
  BY BoundAssumption
<1>8. ASSUME NEW c \in Callers, Receive(c) PROVE reply[c].serial \in 1..(MaxMints + 1)
  BY <1>8, BoundAssumption DEF Receive, ReplyInv
<1> QED
  BY <1>1, <1>2, <1>3, <1>4, <1>5, <1>6, <1>7, <1>8
  DEF Next, Proceed, Finished, Cell!Next

\* The manager, with its lock, clock and network, is a token cell.
THEOREM ImplementsCell == Spec => IsTokenCell
<1>1. Init => Cell!Init
  BY CellInit
<1>2. IInv /\ [Next]_vars => [Cell!Next]_(Cell!vars)
  BY CellStep
<1> QED
  BY <1>1, <1>2, Invariance, PTL DEF Spec, IsTokenCell, Cell!Spec
================================================================================
