------------------------------ MODULE MachineAgent ------------------------------
(***************************************************************************)
(* mudraid._machine_agent.MachineAgent._request over                       *)
(* mudraid._consequence.execute: calls of one agent, running in threads    *)
(* that share the agent's token manager, against a resource server and a   *)
(* network that may lose, delay or answer what was sent.                   *)
(*                                                                         *)
(* The token manager is the TokenCell that TokenManager implements.  The   *)
(* resource server is external: it may answer 401 before or after the      *)
(* effect of a request, and applies a request with an idempotency key once.*)
(***************************************************************************)
EXTENDS Naturals

CONSTANTS Calls,       \* one thread each, one request each
          Methods,     \* the HTTP methods used, in upper case
          Bodies,      \* "value": reusable; "stream": read once (data=<file>)
          Timed,       \* whether callers pass timeout=: a subset of BOOLEAN
          MaxRetries,  \* execute's max_retries
          Tokens       \* issue numbers of access tokens

ASSUME RetriesAssumption == MaxRetries \in Nat
ASSUME TimedAssumption == Timed \subseteq BOOLEAN
ASSUME TokenNumbersAssumption == Tokens \subseteq Nat \ {0}

VARIABLES cell, oldest, served,   \* the token manager: see TokenCell
          req,        \* each call's arguments
          pc,
          round,      \* 1: the first execute; 2: the replay after a 401
          attempt,    \* execute's attempt counter
          result,     \* what send() gave: a response's status or a failure
          outcome,    \* what the call returned or raised
          rejected,   \* the token the first 401 was for, 0 before that
          sent,       \* how many attempts put bytes on the wire
          truncated,  \* an attempt sent a stream already read to its end
          late,       \* copies still in the network after the client gave up
          applied     \* how often the request took effect on the server

tokens == <<cell, oldest, served>>
server == <<late, applied>>
wire == <<sent, truncated>>
vars == <<tokens, req, pc, round, attempt, result, outcome, rejected,
          wire, server>>

Requests == [method   : Methods,
             keyed    : BOOLEAN,   \* idempotency_key is a non-empty string
             body     : Bodies,
             admitted : BOOLEAN,   \* trusted origin, and no redirects asked for
             timed    : Timed]     \* the caller passed timeout=

Statuses == {"definite", "unauthorized"}   \* any response but 401, and 401
Failures == {"connect_timeout", "unsent", "lost"}

TypeOK ==
  /\ cell \in Tokens \cup {0} /\ oldest \in Nat
  /\ served \in [Calls -> Tokens \cup {0}]
  /\ req \in [Calls -> Requests]
  /\ pc \in [Calls -> {"ready", "token", "send", "inflight", "answered",
                       "failed", "refresh", "done"}]
  /\ round \in [Calls -> 1..2]
  /\ attempt \in [Calls -> 0..MaxRetries]
  /\ result \in [Calls -> {"none"} \cup Statuses \cup Failures]
  /\ outcome \in [Calls -> Statuses \cup {"none", "refused", "token_error",
                                          "transport_error", "unknown"}]
  /\ rejected \in [Calls -> Tokens \cup {0}]
  /\ sent \in [Calls -> Nat] /\ late \in [Calls -> Nat] /\ applied \in [Calls -> Nat]
  /\ truncated \in [Calls -> BOOLEAN]

Cell == INSTANCE TokenCell WITH Callers <- Calls

Init ==
  /\ Cell!Init
  /\ req \in [Calls -> Requests]
  /\ pc = [c \in Calls |-> "ready"]
  /\ round = [c \in Calls |-> 1]
  /\ attempt = [c \in Calls |-> 0]
  /\ result = [c \in Calls |-> "none"]
  /\ outcome = [c \in Calls |-> "none"]
  /\ rejected = [c \in Calls |-> 0]
  /\ sent = [c \in Calls |-> 0]
  /\ truncated = [c \in Calls |-> FALSE]
  /\ late = [c \in Calls |-> 0]
  /\ applied = [c \in Calls |-> 0]

\* is_idempotent.
IsIdempotent(method) ==
  method \in {"GET", "HEAD", "OPTIONS", "PUT", "DELETE", "TRACE"}

\* retry_is_safe in execute, and the same test before a 401 is replayed.
\* Mutant: the test is forgotten.
AlwaysSafe(c) == TRUE
ReplayIsSafe(c) == req[c].keyed \/ IsIdempotent(req[c].method)

Finish(c, how) == /\ pc' = [pc EXCEPT ![c] = "done"]
                  /\ outcome' = [outcome EXCEPT ![c] = how]

Fails(c, e) == /\ pc' = [pc EXCEPT ![c] = "failed"]
               /\ result' = [result EXCEPT ![c] = e]

--------------------------------------------------------------------------------
(***************************************************************************)
(* One attempt: send().                                                    *)
(***************************************************************************)

Start(c) ==
  /\ pc[c] = "ready" /\ req[c].admitted
  /\ pc' = [pc EXCEPT ![c] = "token"]
  /\ UNCHANGED <<tokens, req, round, attempt, result, outcome, rejected,
                 wire, server>>

\* The destination is untrusted, or the caller asked for redirects.
Refuse(c) ==
  /\ pc[c] = "ready" /\ ~req[c].admitted
  /\ Finish(c, "refused")
  /\ UNCHANGED <<tokens, req, round, attempt, result, rejected, wire, server>>

\* get_token answers, with the token it holds or a new one.  Here and below
\* the call's own part of a step has a name, for AgentSystem.
TakeToken(c) ==
  /\ pc[c] = "token"
  /\ pc' = [pc EXCEPT ![c] = "send"]
  /\ UNCHANGED <<req, round, attempt, result, outcome, rejected, wire, server>>
TokenReady(c) == /\ Cell!Serve(c) \/ \E t \in Tokens : Cell!Renew(c, t)
                 /\ TakeToken(c)

\* get_token raises: execute catches only requests' exceptions.
TokenError(c) ==
  /\ pc[c] = "token"
  /\ Finish(c, "token_error")
  /\ UNCHANGED <<req, round, attempt, result, rejected, wire, server>>
TokenRefused(c) == Cell!Fail(c) /\ TokenError(c)

\* A signer that itself uses requests raises one of those exceptions, which
\* execute cannot tell from a failure of the request.
SignerError(c, e) ==
  /\ pc[c] = "token"
  /\ Fails(c, e)
  /\ UNCHANGED <<req, round, attempt, outcome, rejected, wire, server>>
SignerTransportFails(c, e) == Cell!Fail(c) /\ SignerError(c, e)

\* session.request fails before any byte is out: a connect timeout, or
\* a refused connection, an unresolved name, a body that does not encode.
NotSent(c, e) ==
  /\ pc[c] = "send"
  /\ Fails(c, e)
  /\ UNCHANGED <<tokens, req, round, attempt, outcome, rejected, wire, server>>

\* session.request writes the request.  The same kwargs, so the same body
\* object, serve every attempt; the key header, if any, is on every attempt.
Transmit(c) ==
  /\ pc[c] = "send"
  /\ pc' = [pc EXCEPT ![c] = "inflight"]
  /\ sent' = [sent EXCEPT ![c] = @ + 1]
  /\ truncated' = [truncated EXCEPT ![c] =
                     @ \/ (req[c].body = "stream" /\ sent[c] > 0)]
  /\ UNCHANGED <<tokens, req, round, attempt, result, outcome, rejected, server>>

--------------------------------------------------------------------------------
(***************************************************************************)
(* The resource server and the network.                                    *)
(***************************************************************************)

\* One copy takes effect.  The server deduplicates on the idempotency key,
\* and a repetition of an idempotent request has no effect of its own.
Applied(c) ==
  [applied EXCEPT ![c] =
     IF @ > 0 /\ (req[c].keyed \/ IsIdempotent(req[c].method)) THEN @ ELSE @ + 1]

Answer(c, s) ==
  /\ pc[c] = "inflight"
  /\ applied' \in {applied, Applied(c)}
  /\ result' = [result EXCEPT ![c] = s]
  /\ pc' = [pc EXCEPT ![c] = "answered"]
  /\ UNCHANGED <<tokens, req, round, attempt, outcome, rejected, wire, late>>

\* No response can be read: a read timeout, a dropped connection, a
\* truncated body.  What was sent is still on its way, or at the server.
Lose(c) ==
  /\ pc[c] = "inflight"
  /\ Fails(c, "lost")
  /\ late' = [late EXCEPT ![c] = @ + 1]
  /\ UNCHANGED <<tokens, req, round, attempt, outcome, rejected, wire, applied>>

\* A copy nobody waits for takes effect, is refused, or vanishes.
LateDelivery(c) ==
  /\ late[c] > 0
  /\ late' = [late EXCEPT ![c] = @ - 1]
  /\ applied' \in {applied, Applied(c)}
  /\ UNCHANGED <<tokens, req, pc, round, attempt, result, outcome, rejected, wire>>

--------------------------------------------------------------------------------
(***************************************************************************)
(* execute's loop on a transport failure.                                  *)
(***************************************************************************)

\* _is_pre_response_failure: only a connect timeout is known not to have
\* reached the server.  Mutants: every ConnectionError is, a connection that
\* drops after the request was written too; no failure is.
NoneKnown(c) == FALSE
AnyConnectionError(c) == result[c] \in {"connect_timeout", "unsent", "lost"}
PreResponse(c) == result[c] = "connect_timeout"

\* Mutant: one retry too many.
CanRetryInclusive(c) ==
  (PreResponse(c) \/ ReplayIsSafe(c)) /\ attempt[c] <= MaxRetries
CanRetry(c) == (PreResponse(c) \/ ReplayIsSafe(c)) /\ attempt[c] < MaxRetries

Retry(c) ==
  /\ pc[c] = "failed" /\ CanRetry(c)
  /\ attempt' = [attempt EXCEPT ![c] = @ + 1]
  /\ pc' = [pc EXCEPT ![c] = "token"]
  /\ result' = [result EXCEPT ![c] = "none"]
  /\ UNCHANGED <<tokens, req, round, outcome, rejected, wire, server>>

\* MudraIDExecutionUnknownError.
GiveUpUnknown(c) ==
  /\ pc[c] = "failed" /\ ~CanRetry(c)
  /\ ~PreResponse(c) /\ ~ReplayIsSafe(c)
  /\ Finish(c, "unknown")
  /\ UNCHANGED <<tokens, req, round, attempt, result, rejected, wire, server>>

\* The transport error itself.
\* Mutant: a request that never started is tried for ever.
GiveUpLater(c) ==
  /\ pc[c] = "failed" /\ ~CanRetry(c)
  /\ PreResponse(c) \/ ReplayIsSafe(c)
  /\ IF PreResponse(c)
     THEN /\ pc' = [pc EXCEPT ![c] = "token"]
          /\ UNCHANGED outcome
     ELSE Finish(c, "transport_error")
  /\ UNCHANGED <<tokens, req, round, attempt, result, rejected, wire, server>>
GiveUp(c) ==
  /\ pc[c] = "failed" /\ ~CanRetry(c)
  /\ PreResponse(c) \/ ReplayIsSafe(c)
  /\ Finish(c, "transport_error")
  /\ UNCHANGED <<tokens, req, round, attempt, result, rejected, wire, server>>

--------------------------------------------------------------------------------
(***************************************************************************)
(* _request after execute has a response.                                  *)
(***************************************************************************)

\* Mutant: the idempotency key is not looked at.
ReplayableByMethod(c) ==
  result[c] = "unauthorized" /\ round[c] = 1 /\ IsIdempotent(req[c].method)
\* Mutant: every 401 is replayed, that of the replay too.
ReplayableAgain(c) == result[c] = "unauthorized" /\ ReplayIsSafe(c)
Replayable(c) == result[c] = "unauthorized" /\ round[c] = 1 /\ ReplayIsSafe(c)

ReturnResponse(c) ==
  /\ pc[c] = "answered" /\ ~Replayable(c)
  /\ Finish(c, result[c])
  /\ UNCHANGED <<tokens, req, round, attempt, result, rejected, wire, server>>

RecoverFrom401(c) ==
  /\ pc[c] = "answered" /\ Replayable(c)
  /\ rejected' = [rejected EXCEPT ![c] = served[c]]
  /\ pc' = [pc EXCEPT ![c] = "refresh"]
  /\ UNCHANGED <<tokens, req, round, attempt, result, outcome, wire, server>>

\* refresh() mints; a second execute starts, with a retry budget of its own.
\* Mutant: get_token is called in place of refresh.
Replay(c) ==
  /\ pc[c] = "refresh"
  /\ round' = [round EXCEPT ![c] = 2]
  /\ attempt' = [attempt EXCEPT ![c] = 0]
  /\ pc' = [pc EXCEPT ![c] = "token"]
  /\ result' = [result EXCEPT ![c] = "none"]
  /\ UNCHANGED <<req, outcome, rejected, wire, server>>
RefreshReuses(c) == /\ Cell!Serve(c) \/ \E t \in Tokens : Cell!Renew(c, t)
                    /\ Replay(c)
RefreshOk(c) == (\E t \in Tokens : Cell!Renew(c, t)) /\ Replay(c)

\* Whatever refresh() raises leaves _request as it is.
RefreshError(c) ==
  /\ pc[c] = "refresh"
  /\ Finish(c, "token_error")
  /\ UNCHANGED <<req, round, attempt, result, rejected, wire, server>>
RefreshFails(c) == Cell!Fail(c) /\ RefreshError(c)

\* close(), from any thread at any time: an owned manager is cleared.  The
\* sessions stay usable, so calls in progress and later ones go on.
Close ==
  /\ \E t \in Tokens : Cell!Forget(t)
  /\ UNCHANGED <<req, pc, round, attempt, result, outcome, rejected, wire, server>>

--------------------------------------------------------------------------------
\* What the SDK does by itself, once the call is made.
SdkStep(c) ==
  \/ TokenReady(c) \/ TokenRefused(c)
  \/ \E e \in {"connect_timeout", "unsent"} : SignerTransportFails(c, e) \/ NotSent(c, e)
  \/ Transmit(c)
  \/ Retry(c) \/ GiveUpUnknown(c) \/ GiveUp(c)
  \/ ReturnResponse(c) \/ RecoverFrom401(c) \/ RefreshOk(c) \/ RefreshFails(c)

WireStep(c) == Lose(c) \/ \E s \in Statuses : Answer(c, s)

Finished == /\ \A c \in Calls : pc[c] = "done" /\ late[c] = 0
            /\ UNCHANGED vars

Next == \/ \E c \in Calls : \/ Start(c) \/ Refuse(c) \/ SdkStep(c)
                            \/ WireStep(c) \/ LateDelivery(c)
        \/ Close \/ Finished

Spec == Init /\ [][Next]_vars

\* A thread runs, and the token manager answers it (EveryCallReturns of
\* TokenManager).  _request sets no timeout: only a call that passes one is
\* sure to leave the wire.
FairSpec ==
  /\ Spec
  /\ \A c \in Calls : /\ WF_vars(SdkStep(c))
                      /\ WF_vars(req[c].timed /\ WireStep(c))

--------------------------------------------------------------------------------
(***************************************************************************)
(* Properties.                                                             *)
(***************************************************************************)

\* _consequence's invariant: a consequential call takes effect once at most,
\* over both executes, their retries and the copies that arrive late.
NoDuplicateEffect == \A c \in Calls : applied[c] <= 1

\* "An HTTP response is a definite outcome", and so is any error other than
\* MudraIDExecutionUnknownError: on a consequential call with no key it means
\* that nothing was sent, so the caller may issue the request again.
DefiniteFailureMeansNeverSent ==
  \A c \in Calls :
    /\ pc[c] = "done" /\ ~ReplayIsSafe(c)
    /\ outcome[c] \in {"refused", "token_error", "transport_error"}
    => sent[c] = 0

\* The replay after a 401 never presents the rejected token, nor one older,
\* whatever other calls and close() did to the manager meanwhile.
ReplayUsesNewerToken ==
  \A c \in Calls :
    round[c] = 2 /\ pc[c] \in {"send", "inflight", "answered"} =>
      served[c] > rejected[c]

\* A call that may be replayed returns 401 only when the server has rejected
\* two tokens, the second issued later than the first.
UnauthorizedIsConfirmed ==
  \A c \in Calls :
    outcome[c] = "unauthorized" /\ ReplayIsSafe(c) =>
      rejected[c] # 0 /\ served[c] > rejected[c]

\* A token that a 401 led to a refresh is retired for the whole agent: once
\* the refresh is done no call is given it, or an older one, again.
RejectedTokenIsRetired ==
  [][\A c, d \in Calls :
       round[c] = 2 /\ pc[d] = "token" /\ pc'[d] = "send" =>
         served'[d] > rejected[c]]_vars

\* A call is sent at most once per attempt of each of its two executes.
AttemptBudget == \A c \in Calls : sent[c] <= 2 * (MaxRetries + 1)

\* What MudraIDExecutionUnknownError does tell: however the call went on before,
\* one copy of it may exist at most, and there is none only if the last error
\* was one that execute cannot place.
UnknownIsAmbiguous ==
  \A c \in Calls :
    outcome[c] = "unknown" =>
      /\ sent[c] <= 1
      /\ sent[c] = 0 => result[c] = "unsent"

\* No order of failures, 401s and closes keeps a call going: each of its steps
\* leaves fewer, of 8 * MaxRetries + 11 at the start.
Ahead == [ready |-> 6, token |-> 5, send |-> 4, inflight |-> 3,
          answered |-> 2, failed |-> 2, refresh |-> 1, done |-> 0]
StepsLeft(c) == Ahead[pc[c]] + 4 * (MaxRetries - attempt[c])
                + (IF round[c] = 1 THEN 5 + 4 * MaxRetries ELSE 0)
RunsDown(c) == \/ StepsLeft(c)' < StepsLeft(c)
               \/ UNCHANGED <<pc[c], round[c], attempt[c]>>
CallsRunDown == [][\A c \in Calls : RunsDown(c)]_vars

\* MudraIDExecutionUnknownError's docstring and message: the request was sent.
UnknownMeansSent == \A c \in Calls : outcome[c] = "unknown" => sent[c] > 0

\* "The token is refreshed once and the request is replayed": every attempt
\* carries the request the caller made.
EveryAttemptCarriesTheBody == \A c \in Calls : ~truncated[c]

\* A call given a timeout returns or raises.
TimedCallsEnd ==
  \A c \in Calls : pc[c] # "ready" /\ req[c].timed ~> pc[c] = "done"
================================================================================
