------------------------------ MODULE TokenManager ------------------------------
(***************************************************************************)
(* mudraid._machine_auth.MachineTokenManager: threads that share one       *)
(* cached machine token under one lock, and the exchange with the token    *)
(* endpoint that the lock is held across.                                  *)
(*                                                                         *)
(* Tokens are numbered in the order the authorization server issues them.  *)
(* Time is real time in `now`; the host clock the code reads runs ahead of *)
(* it by `drift`, which may change at any moment.  requests' timeout       *)
(* bounds each wait for bytes and not the whole exchange, so Latency, the  *)
(* longest time from the issue of a token to its receipt, is a parameter   *)
(* of the environment.                                                     *)
(***************************************************************************)
EXTENDS Integers

CONSTANTS Callers,    \* threads using the manager
          Nobody,     \* the owner of a free lock
          Skew,       \* _REFRESH_SKEW_SEC
          Fallback,   \* _FALLBACK_EXPIRES_IN_SEC
          Lifetimes,  \* the expires_in values the endpoint states, 0: no usable one
          Latency,    \* bound on issue-to-receipt time
          MaxDrift,   \* bound on the host clock's lead over real time
          Ops,        \* the operations callers use: "get", "refresh", "clear"
          MaxTime,    \* bound on now
          MaxMints,   \* bound on the tokens issued
          MaxCalls    \* bound on the calls of each caller

ASSUME NobodyAssumption == Nobody \notin Callers
ASSUME OpsAssumption == Ops \subseteq {"get", "refresh", "clear"}
ASSUME TimeAssumption ==
  /\ Skew \in Nat /\ Latency \in Nat /\ MaxDrift \in Nat
  /\ Fallback \in Nat \ {0}
  /\ Lifetimes \subseteq Nat
ASSUME BoundAssumption == MaxTime \in Nat /\ MaxMints \in Nat /\ MaxCalls \in Nat

VARIABLES now, drift,
          lock,       \* the caller inside `with self._lock`, or Nobody
          cached,     \* self._cached
          pc, op,     \* where each caller is, and in which operation
          reply,      \* the token response on its way to each caller
          issued,     \* the number of tokens the endpoint has issued
          returned,   \* each caller's last token, 0 after an exception
          calls,      \* calls made by each caller, for MaxCalls
          barrier,    \* history: the oldest token the manager may hand out
          floor       \* history: the oldest token each call may return

vars == <<now, drift, lock, cached, pc, op, reply, issued, returned, calls,
          barrier, floor>>

Acquiring == {"signing", "posted", "answered"}

\* A token is its issue number, the host-clock time the manager computed for
\* its expiry, and (for properties only) the real time at which the server
\* will stop accepting it, 0 when the response stated no usable lifetime.
NoToken == [serial |-> 0, expiresAt |-> 0, validUntil |-> 0]
NoReply == [serial |-> 0, expiresIn |-> 0, at |-> 0]

TypeOK ==
  /\ now \in 0..MaxTime
  /\ drift \in 0..MaxDrift
  /\ lock \in Callers \cup {Nobody}
  /\ cached \in [serial : 0..MaxMints, expiresAt : Nat, validUntil : Nat]
  /\ pc \in [Callers -> {"idle", "waiting"} \cup Acquiring]
  /\ op \in [Callers -> {"get", "refresh", "clear"}]
  /\ reply \in [Callers -> [serial : 0..MaxMints,
                           expiresIn : Lifetimes \cup {0}, at : Nat]]
  /\ issued \in 0..MaxMints
  /\ returned \in [Callers -> 0..MaxMints]
  /\ calls \in [Callers -> 0..MaxCalls]
  /\ barrier \in 1..(MaxMints + 1)
  /\ floor \in [Callers -> 1..(MaxMints + 1)]

Init ==
  /\ now = 0 /\ drift \in 0..MaxDrift
  /\ lock = Nobody
  /\ cached = NoToken
  /\ pc = [c \in Callers |-> "idle"]
  /\ op = [c \in Callers |-> "get"]
  /\ reply = [c \in Callers |-> NoReply]
  /\ issued = 0
  /\ returned = [c \in Callers |-> 0]
  /\ calls = [c \in Callers |-> 0]
  /\ barrier = 1
  /\ floor = [c \in Callers |-> 1]

HostClock == now + drift

\* is_fresh, at the host clock.  Mutant: the leeway is forgotten.
FreshNoLeeway == cached.serial # 0 /\ HostClock < cached.expiresAt
Fresh == cached.serial # 0 /\ HostClock + Skew < cached.expiresAt

--------------------------------------------------------------------------------
(***************************************************************************)
(* Calls.  A caller that has called waits for the lock.  `floor` records   *)
(* what the call may return: get_token no token behind the barrier of this *)
(* moment, refresh only a token issued from now on.                        *)
(***************************************************************************)
Call(c, o) ==
  /\ pc[c] = "idle" /\ calls[c] < MaxCalls
  /\ pc' = [pc EXCEPT ![c] = "waiting"]
  /\ op' = [op EXCEPT ![c] = o]
  /\ calls' = [calls EXCEPT ![c] = @ + 1]
  /\ floor' = [floor EXCEPT ![c] = IF o = "get" THEN barrier
                                   ELSE IF o = "refresh" THEN issued + 1 ELSE @]
  /\ UNCHANGED <<now, drift, lock, cached, reply, issued, returned, barrier>>

\* Every operation is one critical section on self._lock.
Enters(c, o) == pc[c] = "waiting" /\ op[c] = o /\ lock = Nobody

\* get_token, cache hit: lock, check, return, unlock.
GetHit(c) ==
  /\ Enters(c, "get")
  /\ Fresh
  /\ pc' = [pc EXCEPT ![c] = "idle"]
  /\ returned' = [returned EXCEPT ![c] = cached.serial]
  /\ UNCHANGED <<now, drift, lock, cached, op, reply, issued, calls, barrier, floor>>

BeginAcquire(c) ==
  /\ lock' = c
  /\ pc' = [pc EXCEPT ![c] = "signing"]
  /\ UNCHANGED <<now, drift, cached, op, reply, issued, returned, calls, barrier, floor>>

\* get_token, cache miss: the lock stays held into _acquire.
\* Mutant: the lock protects the cache check only.
GetMissUnlocked(c) ==
  /\ Enters(c, "get")
  /\ ~Fresh
  /\ pc' = [pc EXCEPT ![c] = "signing"]
  /\ UNCHANGED <<now, drift, lock, cached, op, reply, issued, returned, calls,
                 barrier, floor>>
GetMiss(c) == Enters(c, "get") /\ ~Fresh /\ BeginAcquire(c)

\* refresh: no look at the cache, which keeps the old token meanwhile.
\* Mutant: a refresh that finds a fresh token is content with it.
RefreshReuses(c) ==
  /\ Enters(c, "refresh")
  /\ IF Fresh
     THEN /\ pc' = [pc EXCEPT ![c] = "idle"]
          /\ returned' = [returned EXCEPT ![c] = cached.serial]
          /\ UNCHANGED <<now, drift, lock, cached, op, reply, issued, calls,
                         barrier, floor>>
     ELSE BeginAcquire(c)
Refresh(c) == Enters(c, "refresh") /\ BeginAcquire(c)

\* clear, and close, which clears and closes an owned session that remains
\* usable.  Mutant: clear does not take the lock.
ClearAnyTime(c) ==
  /\ pc[c] = "waiting" /\ op[c] = "clear"
  /\ cached' = NoToken
  /\ barrier' = issued + 1
  /\ pc' = [pc EXCEPT ![c] = "idle"]
  /\ UNCHANGED <<now, drift, lock, op, reply, issued, returned, calls, floor>>
Clear(c) ==
  /\ Enters(c, "clear")
  /\ cached' = NoToken
  /\ barrier' = issued + 1
  /\ pc' = [pc EXCEPT ![c] = "idle"]
  /\ UNCHANGED <<now, drift, lock, op, reply, issued, returned, calls, floor>>

--------------------------------------------------------------------------------
(***************************************************************************)
(* _acquire, with the lock held throughout.                                *)
(***************************************************************************)

\* The assertion (or the client secret) is ready and the form is posted.
Post(c) ==
  /\ pc[c] = "signing"
  /\ pc' = [pc EXCEPT ![c] = "posted"]
  /\ UNCHANGED <<now, drift, lock, cached, op, reply, issued, returned, calls,
                 barrier, floor>>

\* The token endpoint issues a token, and states its lifetime or does not.
Issue(c, expiresIn) ==
  /\ pc[c] = "posted" /\ issued < MaxMints
  /\ issued' = issued + 1
  /\ reply' = [reply EXCEPT ![c] = [serial |-> issued + 1,
                                    expiresIn |-> expiresIn, at |-> now]]
  /\ pc' = [pc EXCEPT ![c] = "answered"]
  /\ UNCHANGED <<now, drift, lock, cached, op, returned, calls, barrier, floor>>

\* The lifetime the manager counts with.  A response whose expires_in is
\* absent, not a number, or not positive counts as Fallback.
\* Mutant: the leeway is taken off when the token is stored.
LifetimeLessSkew(expiresIn) ==
  (IF expiresIn > 0 THEN expiresIn ELSE Fallback) - Skew
Lifetime(expiresIn) == IF expiresIn > 0 THEN expiresIn ELSE Fallback

\* The response arrives and is parsed: the expiry is counted from the host
\* clock at receipt.  The caller stores, unlocks and returns.
Receive(c) ==
  /\ pc[c] = "answered" /\ now <= reply[c].at + Latency
  /\ cached' = [serial     |-> reply[c].serial,
                expiresAt  |-> HostClock + Lifetime(reply[c].expiresIn),
                validUntil |-> IF reply[c].expiresIn > 0
                               THEN reply[c].at + reply[c].expiresIn ELSE 0]
  /\ barrier' = reply[c].serial
  /\ returned' = [returned EXCEPT ![c] = reply[c].serial]
  /\ lock' = Nobody
  /\ pc' = [pc EXCEPT ![c] = "idle"]
  /\ reply' = [reply EXCEPT ![c] = NoReply]
  /\ UNCHANGED <<now, drift, op, issued, calls, floor>>

\* Any exception out of _acquire, at any point of it: the signer raises or
\* returns nothing, the transport fails or times out (the endpoint may have
\* issued a token), the endpoint refuses, or its body is no token response.
\* The `with` block unlocks; the cache is as it was.
\* Mutant: an exception leaves the lock held.
AcquireFailsLocked(c) ==
  /\ pc[c] \in Acquiring
  /\ returned' = [returned EXCEPT ![c] = 0]
  /\ pc' = [pc EXCEPT ![c] = "idle"]
  /\ reply' = [reply EXCEPT ![c] = NoReply]
  /\ UNCHANGED <<now, drift, lock, cached, op, issued, calls, barrier, floor>>
AcquireFails(c) ==
  /\ pc[c] \in Acquiring
  /\ returned' = [returned EXCEPT ![c] = 0]
  /\ lock' = Nobody
  /\ pc' = [pc EXCEPT ![c] = "idle"]
  /\ reply' = [reply EXCEPT ![c] = NoReply]
  /\ UNCHANGED <<now, drift, cached, op, issued, calls, barrier, floor>>

--------------------------------------------------------------------------------
(***************************************************************************)
(* Time passes, and the host clock is adjusted, at any moment.             *)
(***************************************************************************)
Tick == /\ now < MaxTime
        /\ now' = now + 1
        /\ UNCHANGED <<drift, lock, cached, pc, op, reply, issued, returned,
                       calls, barrier, floor>>

ClockStep == /\ drift' \in (0..MaxDrift) \ {drift}
             /\ UNCHANGED <<now, lock, cached, pc, op, reply, issued, returned,
                            calls, barrier, floor>>

\* What a caller does once it has called.
Proceed(c) ==
  \/ GetHit(c) \/ GetMiss(c) \/ Refresh(c) \/ Clear(c)
  \/ Post(c) \/ \E e \in Lifetimes : Issue(c, e)
  \/ Receive(c) \/ AcquireFails(c)

\* The bounded run is over.
Finished == /\ \A c \in Callers : pc[c] = "idle" /\ calls[c] = MaxCalls
            /\ UNCHANGED vars

Next == \/ \E c \in Callers : Proceed(c) \/ \E o \in Ops : Call(c, o)
        \/ Tick \/ ClockStep \/ Finished

Spec == Init /\ [][Next]_vars

\* A thread that can run does; a lock that stays free is taken; an exchange
\* ends, in a response or in requests' timeout.  No thread has to call.
FairSpec == Spec /\ \A c \in Callers : WF_vars(Proceed(c))

--------------------------------------------------------------------------------
(***************************************************************************)
(* Properties.                                                             *)
(***************************************************************************)

\* The leeway left when latency and clock drift have had their share.
Margin == Skew - Latency - MaxDrift

\* The comment on _REFRESH_SKEW_SEC: whatever the latency of the mint and the
\* adjustments of the host clock since, a token get_token would reuse is one
\* the server still accepts for more than Margin.
FreshMeansLive == Fresh /\ cached.validUntil # 0 => now + Margin < cached.validUntil

\* What a call returned is no older than it may be: never a token replaced or
\* cleared before the call began, and from refresh() never one issued before.
NoStaleToken ==
  \A c \in Callers : pc[c] = "idle" /\ returned[c] # 0 => returned[c] >= floor[c]

\* Over all callers, answers come in the order of issue: nobody is handed a
\* token older than one that somebody was handed before.
AnswersInOrder ==
  [][\A c, d \in Callers :
       returned'[c] \notin {0, returned[c]} => returned'[c] >= returned[d]]_vars

\* get_token's comment, concurrent misses do not each spend an issuance: while
\* a get_token mints, the cache holds nothing that could be reused, not even a
\* token another caller's mint has brought since the call began.
MintsOnlyWhenNeeded ==
  \A c \in Callers :
    pc[c] \in Acquiring /\ op[c] = "get" /\ cached.serial # 0 =>
      cached.expiresAt <= now + MaxDrift + Skew

\* refresh()'s docstring, "discard any cached token": once a refresh is over
\* the token it found is no longer cached.
RefreshDiscards ==
  [][\A c \in Callers :
       pc[c] \in Acquiring /\ op[c] = "refresh" /\ pc'[c] = "idle"
         => cached.serial = 0 \/ cached'.serial # cached.serial]_vars

\* get_token's docstring, "a non-expired access token": when it returns, the
\* server still accepts what it returns, however long the exchange took.
ReturnsUnexpired ==
  [][\A c \in Callers :
       /\ op[c] = "get" /\ pc[c] # "idle" /\ pc'[c] = "idle"
       /\ returned'[c] # 0 /\ cached'.validUntil # 0
       => now < cached'.validUntil]_vars

\* get_token's comment, "concurrent misses must not each spend the client's
\* token-issuance budget": a miss that waited while another call's mint brought
\* a token does not mint.
MissesShareOneMint ==
  [][\A c \in Callers :
       op[c] = "get" /\ pc[c] = "waiting" /\ pc'[c] = "signing" =>
         cached.serial <= floor[c]]_vars

\* The manager behaves as the one-token cell its callers rely on.
Cell == INSTANCE TokenCell WITH Tokens <- 1..(MaxMints + 1),
          cell <- cached.serial, oldest <- barrier, served <- returned
IsTokenCell == Cell!Spec

\* Every call returns or raises, whatever other callers and the endpoint do.
EveryCallReturns == \A c \in Callers : pc[c] # "idle" ~> pc[c] = "idle"
================================================================================
