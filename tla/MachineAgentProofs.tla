--------------------------- MODULE MachineAgentProofs ---------------------------
(***************************************************************************)
(* Proofs about MachineAgent, for any number of calls in parallel, any     *)
(* methods, any retry budget and any supply of tokens.                     *)
(***************************************************************************)
EXTENDS MachineAgent, TLAPS

\* A consequential call with no key: one transmission, each copy of which
\* either has taken effect, or is late, or is in flight.
UnsafeInv ==
  \A c \in Calls : ~ReplayIsSafe(c) =>
    /\ round[c] = 1 /\ pc[c] # "refresh"
    /\ sent[c] <= 1
    /\ pc[c] \in {"ready", "token", "send"} => sent[c] = 0
    /\ pc[c] = "failed" /\ result[c] # "lost" => sent[c] = 0
    /\ pc[c] = "done" /\ outcome[c] \in {"refused", "token_error", "transport_error"}
         => sent[c] = 0
    /\ applied[c] + late[c] + (IF pc[c] = "inflight" THEN 1 ELSE 0) <= sent[c]

\* A request that is idempotent or has a key takes effect once by the
\* server's own doing.
SafeInv == \A c \in Calls : ReplayIsSafe(c) => applied[c] <= 1

\* No token that was handed out, or rejected, is ahead of the frontier, and
\* when the cell is empty all of them are behind it.
Behind(t) == t <= oldest /\ (cell = 0 => t < oldest)
TokenInv == /\ oldest >= 1
            /\ cell # 0 => cell = oldest
            /\ \A c \in Calls : Behind(served[c]) /\ Behind(rejected[c])

\* Once it has refreshed, a call has a frontier past its rejected token, and
\* what it presents, and returns a 401 about, lies beyond that token.
ReplayInv ==
  \A c \in Calls :
    /\ pc[c] \in {"send", "inflight", "answered"} => served[c] # 0
    /\ pc[c] = "refresh" => rejected[c] # 0 /\ round[c] = 1
    /\ pc[c] # "done" => outcome[c] = "none"
    /\ round[c] = 2 => rejected[c] # 0 /\ rejected[c] < oldest
    /\ round[c] = 2 /\ pc[c] \in {"send", "inflight", "answered"}
         => served[c] > rejected[c]
    /\ outcome[c] = "unauthorized" /\ ReplayIsSafe(c)
         => rejected[c] # 0 /\ served[c] > rejected[c]

\* Every transmission is paid for by an attempt of one of the two executes.
BudgetInv ==
  \A c \in Calls :
    sent[c] <= (IF round[c] = 2 THEN MaxRetries + 1 ELSE 0) + attempt[c]
               + (IF pc[c] \in {"ready", "token", "send"} THEN 0 ELSE 1)

\* _request looks at a response only when there is one.
ResultInv == \A c \in Calls : pc[c] = "answered" => result[c] \in Statuses

IInv == TypeOK /\ ResultInv /\ UnsafeInv /\ SafeInv /\ TokenInv /\ ReplayInv /\ BudgetInv

\* Every step keeps every variable in its type.
LEMMA TypeStep == TypeOK /\ ResultInv /\ [Next]_vars => (TypeOK /\ ResultInv)'
<1> SUFFICES ASSUME TypeOK, ResultInv, [Next]_vars PROVE (TypeOK /\ ResultInv)'
  OBVIOUS
<1> USE RetriesAssumption, TokenNumbersAssumption DEF TypeOK, ResultInv, Statuses, Failures, tokens, wire, server
<1>1. ASSUME NEW c \in Calls, Start(c) PROVE (TypeOK /\ ResultInv)'
  BY <1>1 DEF Start
<1>2. ASSUME NEW c \in Calls, Refuse(c) PROVE (TypeOK /\ ResultInv)'
  BY <1>2 DEF Refuse, Finish
<1>3. ASSUME NEW c \in Calls, TokenReady(c) PROVE (TypeOK /\ ResultInv)'
  BY <1>3 DEF TokenReady, TakeToken, Cell!Serve, Cell!Renew
<1>4. ASSUME NEW c \in Calls, TokenRefused(c) PROVE (TypeOK /\ ResultInv)'
  BY <1>4 DEF TokenRefused, TokenError, Cell!Fail, Finish
<1>5. ASSUME NEW c \in Calls, NEW e \in {"connect_timeout", "unsent"}, SignerTransportFails(c, e)
      PROVE  (TypeOK /\ ResultInv)'
  BY <1>5 DEF SignerTransportFails, SignerError, Cell!Fail, Fails
<1>6. ASSUME NEW c \in Calls, NEW e \in {"connect_timeout", "unsent"}, NotSent(c, e)
      PROVE  (TypeOK /\ ResultInv)'
  BY <1>6 DEF NotSent, Fails
<1>7. ASSUME NEW c \in Calls, Transmit(c) PROVE (TypeOK /\ ResultInv)'
  BY <1>7 DEF Transmit
<1>8. ASSUME NEW c \in Calls, NEW s \in Statuses, Answer(c, s)
      PROVE  (TypeOK /\ ResultInv)'
  BY <1>8 DEF Answer, Applied, Statuses
<1>9. ASSUME NEW c \in Calls, Lose(c) PROVE (TypeOK /\ ResultInv)'
  BY <1>9 DEF Lose, Fails
<1>10. ASSUME NEW c \in Calls, LateDelivery(c) PROVE (TypeOK /\ ResultInv)'
  BY <1>10 DEF LateDelivery, Applied
<1>11. ASSUME NEW c \in Calls, Retry(c) PROVE (TypeOK /\ ResultInv)'
  BY <1>11 DEF Retry, CanRetry
<1>12. ASSUME NEW c \in Calls, GiveUpUnknown(c) PROVE (TypeOK /\ ResultInv)'
  BY <1>12 DEF GiveUpUnknown, Finish
<1>13. ASSUME NEW c \in Calls, GiveUp(c) PROVE (TypeOK /\ ResultInv)'
  BY <1>13 DEF GiveUp, Finish, CanRetry
<1>14. ASSUME NEW c \in Calls, ReturnResponse(c) PROVE (TypeOK /\ ResultInv)'
  BY <1>14 DEF ReturnResponse, Finish
<1>15. ASSUME NEW c \in Calls, RecoverFrom401(c) PROVE (TypeOK /\ ResultInv)'
  BY <1>15 DEF RecoverFrom401, Replayable
<1>16. ASSUME NEW c \in Calls, RefreshOk(c) PROVE (TypeOK /\ ResultInv)'
  BY <1>16 DEF RefreshOk, Replay, Cell!Renew
<1>17. ASSUME NEW c \in Calls, RefreshFails(c) PROVE (TypeOK /\ ResultInv)'
  BY <1>17 DEF RefreshFails, RefreshError, Cell!Fail, Finish
<1>18. CASE Close
  BY <1>18 DEF Close, Cell!Forget
<1>19. CASE UNCHANGED vars
  BY <1>19 DEF vars
<1> QED
  BY <1>1, <1>2, <1>3, <1>4, <1>5, <1>6, <1>7, <1>8, <1>9, <1>10, <1>11, <1>12, <1>13, <1>14, <1>15, <1>16, <1>17, <1>18, <1>19
  DEF Next, SdkStep, WireStep, Finished

\* Every step preserves the accounting of effects.
LEMMA EffectStep == TypeOK /\ ResultInv /\ UnsafeInv /\ SafeInv /\ [Next]_vars => (UnsafeInv /\ SafeInv)'
<1> SUFFICES ASSUME TypeOK, ResultInv, UnsafeInv, SafeInv, [Next]_vars PROVE (UnsafeInv /\ SafeInv)'
  OBVIOUS
<1> USE RetriesAssumption, TokenNumbersAssumption DEF TypeOK, ResultInv, UnsafeInv, SafeInv, ReplayIsSafe, PreResponse, tokens, wire, server
<1>1. ASSUME NEW c \in Calls, Start(c) PROVE (UnsafeInv /\ SafeInv)'
  BY <1>1 DEF Start
<1>2. ASSUME NEW c \in Calls, Refuse(c) PROVE (UnsafeInv /\ SafeInv)'
  BY <1>2 DEF Refuse, Finish
<1>3. ASSUME NEW c \in Calls, TokenReady(c) PROVE (UnsafeInv /\ SafeInv)'
  BY <1>3 DEF TokenReady, TakeToken, Cell!Serve, Cell!Renew
<1>4. ASSUME NEW c \in Calls, TokenRefused(c) PROVE (UnsafeInv /\ SafeInv)'
  BY <1>4 DEF TokenRefused, TokenError, Cell!Fail, Finish
<1>5. ASSUME NEW c \in Calls, NEW e \in {"connect_timeout", "unsent"}, SignerTransportFails(c, e)
      PROVE  (UnsafeInv /\ SafeInv)'
  BY <1>5 DEF SignerTransportFails, SignerError, Cell!Fail, Fails
<1>6. ASSUME NEW c \in Calls, NEW e \in {"connect_timeout", "unsent"}, NotSent(c, e)
      PROVE  (UnsafeInv /\ SafeInv)'
  BY <1>6 DEF NotSent, Fails
<1>7. ASSUME NEW c \in Calls, Transmit(c) PROVE (UnsafeInv /\ SafeInv)'
  BY <1>7 DEF Transmit
<1>8. ASSUME NEW c \in Calls, NEW s \in Statuses, Answer(c, s)
      PROVE  (UnsafeInv /\ SafeInv)'
  BY <1>8 DEF Answer, Applied, Statuses
<1>9. ASSUME NEW c \in Calls, Lose(c) PROVE (UnsafeInv /\ SafeInv)'
  BY <1>9 DEF Lose, Fails
<1>10. ASSUME NEW c \in Calls, LateDelivery(c) PROVE (UnsafeInv /\ SafeInv)'
  BY <1>10 DEF LateDelivery, Applied
<1>11. ASSUME NEW c \in Calls, Retry(c) PROVE (UnsafeInv /\ SafeInv)'
  BY <1>11 DEF Retry, CanRetry
<1>12. ASSUME NEW c \in Calls, GiveUpUnknown(c) PROVE (UnsafeInv /\ SafeInv)'
  BY <1>12 DEF GiveUpUnknown, Finish
<1>13. ASSUME NEW c \in Calls, GiveUp(c) PROVE (UnsafeInv /\ SafeInv)'
  BY <1>13 DEF GiveUp, Finish, CanRetry
<1>14. ASSUME NEW c \in Calls, ReturnResponse(c) PROVE (UnsafeInv /\ SafeInv)'
  BY <1>14 DEF ReturnResponse, Finish, Statuses
<1>15. ASSUME NEW c \in Calls, RecoverFrom401(c) PROVE (UnsafeInv /\ SafeInv)'
  BY <1>15 DEF RecoverFrom401, Replayable
<1>16. ASSUME NEW c \in Calls, RefreshOk(c) PROVE (UnsafeInv /\ SafeInv)'
  BY <1>16 DEF RefreshOk, Replay, Cell!Renew
<1>17. ASSUME NEW c \in Calls, RefreshFails(c) PROVE (UnsafeInv /\ SafeInv)'
  BY <1>17 DEF RefreshFails, RefreshError, Cell!Fail, Finish
<1>18. CASE Close
  BY <1>18 DEF Close, Cell!Forget
<1>19. CASE UNCHANGED vars
  BY <1>19 DEF vars
<1> QED
  BY <1>1, <1>2, <1>3, <1>4, <1>5, <1>6, <1>7, <1>8, <1>9, <1>10, <1>11, <1>12, <1>13, <1>14, <1>15, <1>16, <1>17, <1>18, <1>19
  DEF Next, SdkStep, WireStep, Finished

\* Tokens are numbers.
LEMMA TokensNat ==
  TypeOK => \A d \in Calls : served[d] \in Nat /\ rejected[d] \in Nat
<1>1. \A t \in Tokens \cup {0} : t \in Nat
  BY TokenNumbersAssumption
<1>2. TypeOK => \A d \in Calls : /\ served[d] \in Tokens \cup {0}
                                /\ rejected[d] \in Tokens \cup {0}
  BY DEF TypeOK
<1> QED
  BY <1>1, <1>2

\* The frontier passes every token handed out or rejected so far, when the
\* cell is renewed and when it is emptied.
LEMMA RenewPasses ==
  ASSUME TypeOK, TokenInv, NEW c \in Calls, NEW t \in Tokens, Cell!Renew(c, t),
         UNCHANGED rejected
  PROVE  /\ TokenInv'
         /\ \A d \in Calls : rejected[d] < t
         /\ t # 0 /\ oldest <= t /\ oldest' = t /\ served' = [served EXCEPT ![c] = t]
<1>1. t \in Nat /\ t # 0 /\ oldest \in Nat /\ oldest <= t /\ cell < t
  BY TokenNumbersAssumption DEF Cell!Renew, TypeOK
<1>2. \A d \in Calls : served[d] \in Nat /\ rejected[d] \in Nat
  BY TokensNat
<1>3. \A d \in Calls : served[d] < t /\ rejected[d] < t
  BY <1>1, <1>2 DEF TokenInv, Behind
<1>4. cell' = t /\ oldest' = t /\ served' = [served EXCEPT ![c] = t]
  BY DEF Cell!Renew
<1>5. TokenInv'
  BY <1>1, <1>2, <1>3, <1>4 DEF TokenInv, Behind, TypeOK
<1> QED
  BY <1>1, <1>3, <1>4, <1>5

LEMMA ForgetPasses ==
  ASSUME TypeOK, TokenInv, NEW t \in Tokens, Cell!Forget(t), UNCHANGED rejected
  PROVE  TokenInv' /\ oldest <= oldest' /\ served' = served
<1>1. t \in Nat /\ t # 0 /\ oldest \in Nat /\ oldest <= t /\ cell < t
  BY TokenNumbersAssumption DEF Cell!Forget, TypeOK
<1>2. \A d \in Calls : served[d] \in Nat /\ rejected[d] \in Nat
  BY TokensNat
<1>3. \A d \in Calls : served[d] < t /\ rejected[d] < t
  BY <1>1, <1>2 DEF TokenInv, Behind
<1> QED
  BY <1>1, <1>2, <1>3 DEF TokenInv, Behind, Cell!Forget

\* Every step preserves the order of tokens.
LEMMA ReplayStep == TypeOK /\ TokenInv /\ ReplayInv /\ [Next]_vars => (TokenInv /\ ReplayInv)'
<1> SUFFICES ASSUME TypeOK, TokenInv, ReplayInv, [Next]_vars PROVE (TokenInv /\ ReplayInv)'
  OBVIOUS
<1> USE RetriesAssumption, TokenNumbersAssumption DEF TypeOK, TokenInv, ReplayInv, Behind, ReplayIsSafe, tokens, wire, server
<1>1. ASSUME NEW c \in Calls, Start(c) PROVE (TokenInv /\ ReplayInv)'
  BY <1>1 DEF Start
<1>2. ASSUME NEW c \in Calls, Refuse(c) PROVE (TokenInv /\ ReplayInv)'
  BY <1>2 DEF Refuse, Finish
<1>3. ASSUME NEW c \in Calls, TokenReady(c) PROVE (TokenInv /\ ReplayInv)'
  <2>1. CASE Cell!Serve(c)
    BY <1>3, <2>1 DEF TokenReady, TakeToken, Cell!Serve
  <2>2. ASSUME NEW t \in Tokens, Cell!Renew(c, t) PROVE (TokenInv /\ ReplayInv)'
    <3>1. /\ TokenInv'
          /\ \A d \in Calls : rejected[d] < t
          /\ t # 0 /\ oldest <= t /\ oldest' = t /\ served' = [served EXCEPT ![c] = t]
      BY <1>3, <2>2, RenewPasses DEF TokenReady, TakeToken
    <3>2. ReplayInv'
      BY <1>3, <3>1 DEF TokenReady, TakeToken
    <3> QED
      BY <3>1, <3>2
  <2> QED
    BY <1>3, <2>1, <2>2 DEF TokenReady
<1>4. ASSUME NEW c \in Calls, TokenRefused(c) PROVE (TokenInv /\ ReplayInv)'
  BY <1>4 DEF TokenRefused, TokenError, Cell!Fail, Finish
<1>5. ASSUME NEW c \in Calls, NEW e \in {"connect_timeout", "unsent"}, SignerTransportFails(c, e)
      PROVE  (TokenInv /\ ReplayInv)'
  BY <1>5 DEF SignerTransportFails, SignerError, Cell!Fail, Fails
<1>6. ASSUME NEW c \in Calls, NEW e \in {"connect_timeout", "unsent"}, NotSent(c, e)
      PROVE  (TokenInv /\ ReplayInv)'
  BY <1>6 DEF NotSent, Fails
<1>7. ASSUME NEW c \in Calls, Transmit(c) PROVE (TokenInv /\ ReplayInv)'
  BY <1>7 DEF Transmit
<1>8. ASSUME NEW c \in Calls, NEW s \in Statuses, Answer(c, s)
      PROVE  (TokenInv /\ ReplayInv)'
  BY <1>8 DEF Answer, Applied, Statuses
<1>9. ASSUME NEW c \in Calls, Lose(c) PROVE (TokenInv /\ ReplayInv)'
  BY <1>9 DEF Lose, Fails
<1>10. ASSUME NEW c \in Calls, LateDelivery(c) PROVE (TokenInv /\ ReplayInv)'
  BY <1>10 DEF LateDelivery, Applied
<1>11. ASSUME NEW c \in Calls, Retry(c) PROVE (TokenInv /\ ReplayInv)'
  BY <1>11 DEF Retry, CanRetry
<1>12. ASSUME NEW c \in Calls, GiveUpUnknown(c) PROVE (TokenInv /\ ReplayInv)'
  BY <1>12 DEF GiveUpUnknown, Finish
<1>13. ASSUME NEW c \in Calls, GiveUp(c) PROVE (TokenInv /\ ReplayInv)'
  BY <1>13 DEF GiveUp, Finish, CanRetry
<1>14. ASSUME NEW c \in Calls, ReturnResponse(c) PROVE (TokenInv /\ ReplayInv)'
  BY <1>14 DEF ReturnResponse, Finish, Replayable, Statuses
<1>15. ASSUME NEW c \in Calls, RecoverFrom401(c) PROVE (TokenInv /\ ReplayInv)'
  BY <1>15 DEF RecoverFrom401, Replayable
<1>16. ASSUME NEW c \in Calls, RefreshOk(c) PROVE (TokenInv /\ ReplayInv)'
  <2>1. PICK t \in Tokens : Cell!Renew(c, t)
    BY <1>16 DEF RefreshOk
  <2>2. /\ TokenInv'
        /\ \A d \in Calls : rejected[d] < t
        /\ t # 0 /\ oldest <= t /\ oldest' = t /\ served' = [served EXCEPT ![c] = t]
    BY <1>16, <2>1, RenewPasses DEF RefreshOk, Replay
  <2>3. ReplayInv'
    BY <1>16, <2>2 DEF RefreshOk, Replay
  <2> QED
    BY <2>2, <2>3
<1>17. ASSUME NEW c \in Calls, RefreshFails(c) PROVE (TokenInv /\ ReplayInv)'
  BY <1>17 DEF RefreshFails, RefreshError, Cell!Fail, Finish
<1>18. CASE Close
  <2>1. PICK t \in Tokens : Cell!Forget(t)
    BY <1>18 DEF Close
  <2>2. TokenInv' /\ oldest <= oldest' /\ served' = served
    BY <1>18, <2>1, ForgetPasses DEF Close
  <2>3. \A d \in Calls : rejected[d] \in Nat
    BY TokensNat
  <2>4. oldest' \in Nat
    BY <2>1, TokenNumbersAssumption DEF Cell!Forget
  <2>5. ReplayInv'
    BY <1>18, <2>2, <2>3, <2>4 DEF Close
  <2> QED
    BY <2>2, <2>5
<1>19. CASE UNCHANGED vars
  BY <1>19 DEF vars
<1> QED
  BY <1>1, <1>2, <1>3, <1>4, <1>5, <1>6, <1>7, <1>8, <1>9, <1>10, <1>11, <1>12, <1>13, <1>14, <1>15, <1>16, <1>17, <1>18, <1>19
  DEF Next, SdkStep, WireStep, Finished

\* Every step preserves the accounting of attempts.
LEMMA BudgetStep == TypeOK /\ ReplayInv /\ BudgetInv /\ [Next]_vars => BudgetInv'
<1> SUFFICES ASSUME TypeOK, ReplayInv, BudgetInv, [Next]_vars PROVE BudgetInv'
  OBVIOUS
<1> USE RetriesAssumption, TokenNumbersAssumption DEF TypeOK, ReplayInv, BudgetInv, tokens, wire, server
<1>1. ASSUME NEW c \in Calls, Start(c) PROVE BudgetInv'
  BY <1>1 DEF Start
<1>2. ASSUME NEW c \in Calls, Refuse(c) PROVE BudgetInv'
  BY <1>2 DEF Refuse, Finish
<1>3. ASSUME NEW c \in Calls, TokenReady(c) PROVE BudgetInv'
  BY <1>3 DEF TokenReady, TakeToken, Cell!Serve, Cell!Renew
<1>4. ASSUME NEW c \in Calls, TokenRefused(c) PROVE BudgetInv'
  BY <1>4 DEF TokenRefused, TokenError, Cell!Fail, Finish
<1>5. ASSUME NEW c \in Calls, NEW e \in {"connect_timeout", "unsent"}, SignerTransportFails(c, e)
      PROVE  BudgetInv'
  BY <1>5 DEF SignerTransportFails, SignerError, Cell!Fail, Fails
<1>6. ASSUME NEW c \in Calls, NEW e \in {"connect_timeout", "unsent"}, NotSent(c, e)
      PROVE  BudgetInv'
  BY <1>6 DEF NotSent, Fails
<1>7. ASSUME NEW c \in Calls, Transmit(c) PROVE BudgetInv'
  BY <1>7 DEF Transmit
<1>8. ASSUME NEW c \in Calls, NEW s \in Statuses, Answer(c, s)
      PROVE  BudgetInv'
  BY <1>8 DEF Answer, Applied, Statuses
<1>9. ASSUME NEW c \in Calls, Lose(c) PROVE BudgetInv'
  BY <1>9 DEF Lose, Fails
<1>10. ASSUME NEW c \in Calls, LateDelivery(c) PROVE BudgetInv'
  BY <1>10 DEF LateDelivery, Applied
<1>11. ASSUME NEW c \in Calls, Retry(c) PROVE BudgetInv'
  BY <1>11 DEF Retry, CanRetry
<1>12. ASSUME NEW c \in Calls, GiveUpUnknown(c) PROVE BudgetInv'
  BY <1>12 DEF GiveUpUnknown, Finish
<1>13. ASSUME NEW c \in Calls, GiveUp(c) PROVE BudgetInv'
  BY <1>13 DEF GiveUp, Finish, CanRetry
<1>14. ASSUME NEW c \in Calls, ReturnResponse(c) PROVE BudgetInv'
  BY <1>14 DEF ReturnResponse, Finish
<1>15. ASSUME NEW c \in Calls, RecoverFrom401(c) PROVE BudgetInv'
  BY <1>15 DEF RecoverFrom401, Replayable
<1>16. ASSUME NEW c \in Calls, RefreshOk(c) PROVE BudgetInv'
  BY <1>16 DEF RefreshOk, Replay, Cell!Renew
<1>17. ASSUME NEW c \in Calls, RefreshFails(c) PROVE BudgetInv'
  BY <1>17 DEF RefreshFails, RefreshError, Cell!Fail, Finish
<1>18. CASE Close
  BY <1>18 DEF Close, Cell!Forget
<1>19. CASE UNCHANGED vars
  BY <1>19 DEF vars
<1> QED
  BY <1>1, <1>2, <1>3, <1>4, <1>5, <1>6, <1>7, <1>8, <1>9, <1>10, <1>11, <1>12, <1>13, <1>14, <1>15, <1>16, <1>17, <1>18, <1>19
  DEF Next, SdkStep, WireStep, Finished

\* The initial states satisfy the invariant.
LEMMA InitInv == Init => IInv
<1> SUFFICES ASSUME Init PROVE IInv
  OBVIOUS
<1> USE RetriesAssumption, TokenNumbersAssumption DEF Init, Cell!Init
<1>1. TypeOK /\ ResultInv
  BY DEF TypeOK, ResultInv
<1>2. UnsafeInv /\ SafeInv /\ BudgetInv
  BY DEF UnsafeInv, SafeInv, BudgetInv
<1>3. TokenInv /\ ReplayInv
  BY DEF TokenInv, Behind, ReplayInv
<1> QED
  BY <1>1, <1>2, <1>3 DEF IInv

\* The invariant holds in every reachable state.
THEOREM Invariance == Spec => []IInv
<1>1. Init => IInv
  BY InitInv
<1>2. IInv /\ [Next]_vars => IInv'
  BY TypeStep, EffectStep, ReplayStep, BudgetStep DEF IInv
<1> QED
  BY <1>1, <1>2, PTL DEF Spec

\* Every variable keeps its type; attempt never exceeds max_retries.
THEOREM TypeCorrect == Spec => []TypeOK
<1>1. IInv => TypeOK
  BY DEF IInv
<1> QED
  BY <1>1, Invariance, PTL

\* No retry, replay or late copy makes a consequential call take effect twice.
THEOREM AtMostOneEffect == Spec => []NoDuplicateEffect
<1>1. IInv => NoDuplicateEffect
  <2> SUFFICES ASSUME IInv, NEW c \in Calls PROVE applied[c] <= 1
    BY DEF NoDuplicateEffect
  <2>1. CASE ReplayIsSafe(c)
    BY <2>1 DEF IInv, SafeInv
  <2>2. CASE ~ReplayIsSafe(c)
    <3>1. sent[c] \in Nat /\ late[c] \in Nat /\ applied[c] \in Nat
      BY DEF IInv, TypeOK
    <3>2. /\ applied[c] + late[c] + (IF pc[c] = "inflight" THEN 1 ELSE 0) <= sent[c]
          /\ sent[c] <= 1
      BY <2>2 DEF IInv, UnsafeInv
    <3> QED
      BY <3>1, <3>2
  <2> QED
    BY <2>1, <2>2
<1> QED
  BY <1>1, Invariance, PTL

\* An error other than MudraIDExecutionUnknownError, on a consequential call
\* with no key, means that nothing was sent.
THEOREM DefiniteFailures == Spec => []DefiniteFailureMeansNeverSent
<1>1. IInv => DefiniteFailureMeansNeverSent
  BY DEF IInv, UnsafeInv, DefiniteFailureMeansNeverSent
<1> QED
  BY <1>1, Invariance, PTL

\* The replay after a 401 presents a token issued after the rejected one.
THEOREM ReplayAdvances == Spec => []ReplayUsesNewerToken
<1>1. IInv => ReplayUsesNewerToken
  BY DEF IInv, ReplayInv, ReplayUsesNewerToken
<1> QED
  BY <1>1, Invariance, PTL

\* A replayable call that returns 401 has had two tokens rejected.
THEOREM TwoRejections == Spec => []UnauthorizedIsConfirmed
<1>1. IInv => UnauthorizedIsConfirmed
  BY DEF IInv, ReplayInv, UnauthorizedIsConfirmed
<1> QED
  BY <1>1, Invariance, PTL

\* A call is transmitted no more often than its two executes have attempts.
THEOREM BoundedAttempts == Spec => []AttemptBudget
<1>1. IInv => AttemptBudget
  <2> SUFFICES ASSUME IInv, NEW c \in Calls PROVE sent[c] <= 2 * (MaxRetries + 1)
    BY DEF AttemptBudget
  <2>1. attempt[c] \in 0..MaxRetries /\ sent[c] \in Nat
    BY DEF IInv, TypeOK
  <2>2. sent[c] <= MaxRetries + 1 + attempt[c] + 1
    BY <2>1, RetriesAssumption DEF IInv, BudgetInv
  <2> QED
    BY <2>1, <2>2, RetriesAssumption
<1> QED
  BY <1>1, Invariance, PTL

\* No step hands a call a token that a refresh has retired.
LEMMA RetiredStep ==
  ASSUME IInv, [Next]_vars, NEW c \in Calls, NEW d \in Calls,
         round[c] = 2, pc[d] = "token", pc'[d] = "send"
  PROVE  served'[d] > rejected[c]
<1> USE DEF IInv, TypeOK
<1>1. rejected[c] < oldest /\ rejected[c] \in Nat /\ oldest \in Nat
  BY TokenNumbersAssumption DEF ReplayInv
<1>2. TokenReady(d)
  BY DEF Next, SdkStep, WireStep, Finished, Start, Refuse, TokenReady, TokenRefused,
    SignerTransportFails, NotSent, Transmit, Answer, Lose, LateDelivery, Retry,
    GiveUpUnknown, GiveUp, ReturnResponse, RecoverFrom401, RefreshOk, RefreshFails,
    Close, TakeToken, TokenError, SignerError, Replay, RefreshError, Finish, Fails, vars
<1>3. CASE Cell!Serve(d)
  BY <1>1, <1>3 DEF Cell!Serve, TokenInv
<1>4. ASSUME NEW t \in Tokens, Cell!Renew(d, t) PROVE served'[d] > rejected[c]
  BY <1>1, <1>4, TokenNumbersAssumption DEF Cell!Renew
<1> QED
  BY <1>2, <1>3, <1>4 DEF TokenReady

\* Once a call has refreshed, the token its 401 was for is given to nobody.
THEOREM RejectedIsRetired == Spec => RejectedTokenIsRetired
<1> DEFINE Retired == \A c, d \in Calls :
       round[c] = 2 /\ pc[d] = "token" /\ pc'[d] = "send" =>
         served'[d] > rejected[c]
<1>1. IInv /\ [Next]_vars => [Retired]_vars
  BY RetiredStep
<1> QED
  BY <1>1, Invariance, PTL DEF Spec, RejectedTokenIsRetired

--------------------------------------------------------------------------------
\* How far each stage is from the end.
LEMMA AheadIs ==
  /\ Ahead["ready"] = 6 /\ Ahead["token"] = 5 /\ Ahead["send"] = 4
  /\ Ahead["inflight"] = 3 /\ Ahead["answered"] = 2 /\ Ahead["failed"] = 2
  /\ Ahead["refresh"] = 1 /\ Ahead["done"] = 0
  BY DEF Ahead

\* What a step of a call may do to its stage: it goes ahead, or tries again
\* with one attempt less, or starts the second execute.
Moves(c) ==
  \/ round'[c] = round[c] /\ attempt'[c] = attempt[c] /\ Ahead[pc'[c]] < Ahead[pc[c]]
  \/ /\ round'[c] = round[c] /\ attempt'[c] = attempt[c] + 1
     /\ pc[c] = "failed" /\ pc'[c] = "token"
  \/ /\ round[c] = 1 /\ round'[c] = 2 /\ attempt'[c] = 0
     /\ pc[c] = "refresh" /\ pc'[c] = "token"

LEMMA MovesRunDown ==
  ASSUME TypeOK, TypeOK', NEW c \in Calls, Moves(c)
  PROVE  StepsLeft(c)' < StepsLeft(c)
<1>1. /\ pc[c] \in DOMAIN Ahead /\ pc'[c] \in DOMAIN Ahead
      /\ attempt[c] \in 0..MaxRetries /\ attempt'[c] \in 0..MaxRetries
      /\ MaxRetries \in Nat
  BY RetriesAssumption DEF TypeOK, Ahead
<1>2. \A p \in DOMAIN Ahead : Ahead[p] \in Nat
  BY DEF Ahead
<1>3. Ahead[pc[c]] \in Nat /\ Ahead[pc'[c]] \in Nat
  BY <1>1, <1>2
<1>4. StepsLeft(c)' = Ahead[pc'[c]] + 4 * (MaxRetries - attempt'[c])
                      + (IF round'[c] = 1 THEN 5 + 4 * MaxRetries ELSE 0)
  BY DEF StepsLeft
<1> QED
  BY <1>1, <1>3, <1>4, AheadIs DEF Moves, StepsLeft

\* A step of one call is such a move of that call, and of no other.
LEMMA CallsMove ==
  ASSUME TypeOK, ReplayInv, [Next]_vars, NEW d \in Calls
  PROVE  Moves(d) \/ UNCHANGED <<pc[d], round[d], attempt[d]>>
<1> USE AheadIs DEF TypeOK, Moves
<1> DEFINE Goal == Moves(d) \/ UNCHANGED <<pc[d], round[d], attempt[d]>>
<1>1. ASSUME NEW c \in Calls, Start(c) \/ Refuse(c) PROVE Goal
  BY <1>1 DEF Start, Refuse, Finish
<1>2. ASSUME NEW c \in Calls, TokenReady(c) \/ TokenRefused(c) PROVE Goal
  BY <1>2 DEF TokenReady, TakeToken, TokenRefused, TokenError, Finish
<1>3. ASSUME NEW c \in Calls, NEW e \in {"connect_timeout", "unsent"},
             SignerTransportFails(c, e) \/ NotSent(c, e)
      PROVE  Goal
  BY <1>3 DEF SignerTransportFails, SignerError, NotSent, Fails
<1>4. ASSUME NEW c \in Calls, Transmit(c) \/ WireStep(c) PROVE Goal
  BY <1>4 DEF Transmit, WireStep, Lose, Answer, Fails
<1>5. ASSUME NEW c \in Calls, Retry(c) PROVE Goal
  BY <1>5, RetriesAssumption DEF Retry
<1>6. ASSUME NEW c \in Calls, GiveUpUnknown(c) \/ GiveUp(c) \/ ReturnResponse(c)
      PROVE  Goal
  BY <1>6 DEF GiveUpUnknown, GiveUp, ReturnResponse, Finish
<1>7. ASSUME NEW c \in Calls, RecoverFrom401(c) \/ RefreshFails(c) PROVE Goal
  BY <1>7 DEF RecoverFrom401, RefreshFails, RefreshError, Finish
<1>8. ASSUME NEW c \in Calls, RefreshOk(c) PROVE Goal
  BY <1>8 DEF RefreshOk, Replay, ReplayInv
<1>9. ASSUME NEW c \in Calls, LateDelivery(c) PROVE Goal
  BY <1>9 DEF LateDelivery
<1>10. CASE Close \/ UNCHANGED vars
  BY <1>10 DEF Close, vars
<1> QED
  BY <1>1, <1>2, <1>3, <1>4, <1>5, <1>6, <1>7, <1>8, <1>9, <1>10
  DEF Next, SdkStep, Finished

\* No call goes on for ever: each of its steps leaves fewer.
THEOREM EveryStepCounts == Spec => CallsRunDown
<1>1. IInv /\ IInv' /\ [Next]_vars => [\A c \in Calls : RunsDown(c)]_vars
  BY CallsMove, MovesRunDown DEF IInv, RunsDown
<1> QED
  BY <1>1, Invariance, PTL DEF Spec, CallsRunDown

--------------------------------------------------------------------------------
\* What a call knows of its last failure, and which bodies it sends twice.
OutcomeInv ==
  \A c \in Calls :
    /\ pc[c] = "inflight" => sent[c] > 0
    /\ pc[c] = "failed" => /\ result[c] \in Failures
                           /\ result[c] = "lost" => sent[c] > 0
    /\ outcome[c] = "unknown" => /\ ~ReplayIsSafe(c)
                                 /\ sent[c] = 0 => result[c] = "unsent"
    /\ truncated[c] => req[c].body = "stream" /\ ReplayIsSafe(c)

\* Every step keeps it.
LEMMA OutcomeStep == IInv /\ OutcomeInv /\ [Next]_vars => OutcomeInv'
<1> SUFFICES ASSUME IInv, OutcomeInv, [Next]_vars PROVE OutcomeInv'
  OBVIOUS
<1> USE DEF IInv, TypeOK, ReplayInv, OutcomeInv, ReplayIsSafe, Failures
<1>1. ASSUME NEW c \in Calls, Start(c) \/ Refuse(c) PROVE OutcomeInv'
  BY <1>1 DEF Start, Refuse, Finish, wire
<1>2. ASSUME NEW c \in Calls, TokenReady(c) \/ TokenRefused(c) PROVE OutcomeInv'
  BY <1>2 DEF TokenReady, TakeToken, TokenRefused, TokenError, Finish, wire
<1>3. ASSUME NEW c \in Calls, NEW e \in {"connect_timeout", "unsent"},
             SignerTransportFails(c, e) \/ NotSent(c, e)
      PROVE  OutcomeInv'
  BY <1>3 DEF SignerTransportFails, SignerError, NotSent, Fails, wire
<1>4. ASSUME NEW c \in Calls, Transmit(c) PROVE OutcomeInv'
  BY <1>4 DEF Transmit, UnsafeInv
<1>5. ASSUME NEW c \in Calls, WireStep(c) PROVE OutcomeInv'
  BY <1>5 DEF WireStep, Lose, Answer, Fails, wire
<1>6. ASSUME NEW c \in Calls, Retry(c) PROVE OutcomeInv'
  BY <1>6 DEF Retry, wire
<1>7. ASSUME NEW c \in Calls, GiveUpUnknown(c) PROVE OutcomeInv'
  BY <1>7 DEF GiveUpUnknown, Finish, PreResponse, wire
<1>8. ASSUME NEW c \in Calls, GiveUp(c) \/ ReturnResponse(c) PROVE OutcomeInv'
  BY <1>8 DEF GiveUp, ReturnResponse, Finish, wire, ResultInv, Statuses
<1>9. ASSUME NEW c \in Calls, RecoverFrom401(c) \/ RefreshFails(c) PROVE OutcomeInv'
  BY <1>9 DEF RecoverFrom401, RefreshFails, RefreshError, Finish, wire
<1>10. ASSUME NEW c \in Calls, RefreshOk(c) PROVE OutcomeInv'
  BY <1>10 DEF RefreshOk, Replay, wire
<1>11. ASSUME NEW c \in Calls, LateDelivery(c) PROVE OutcomeInv'
  BY <1>11 DEF LateDelivery, wire
<1>12. CASE Close \/ UNCHANGED vars
  BY <1>12 DEF Close, vars, wire
<1> QED
  BY <1>1, <1>2, <1>3, <1>4, <1>5, <1>6, <1>7, <1>8, <1>9, <1>10, <1>11, <1>12
  DEF Next, SdkStep, Finished

\* It holds in every reachable state.
THEOREM OutcomeInvariance == Spec => []OutcomeInv
<1>1. Init => OutcomeInv
  BY DEF Init, OutcomeInv
<1> QED
  BY <1>1, OutcomeStep, Invariance, PTL DEF Spec

\* An unknown outcome is that of a call sent once at most, and not at all only
\* if the last error was one that execute cannot place.
THEOREM UnknownExplained == Spec => []UnknownIsAmbiguous
<1>1. IInv /\ OutcomeInv => UnknownIsAmbiguous
  BY DEF IInv, UnsafeInv, OutcomeInv, UnknownIsAmbiguous
<1> QED
  BY <1>1, Invariance, OutcomeInvariance, PTL

\* EveryAttemptCarriesTheBody fails for one-shot bodies; this is all that fails:
\* a body is sent truncated only if it is read once, and never for a
\* consequential call without a key.
THEOREM OnlyReplayedStreamsTruncate ==
  Spec => [](\A c \in Calls :
               truncated[c] => req[c].body = "stream" /\ ReplayIsSafe(c))
<1>1. OutcomeInv => \A c \in Calls :
                      truncated[c] => req[c].body = "stream" /\ ReplayIsSafe(c)
  BY DEF OutcomeInv
<1> QED
  BY <1>1, OutcomeInvariance, PTL
================================================================================
