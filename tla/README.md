# A TLA+ model of mudraid-sdk-python

The SDK is a client library. A `MachineAgent` sends HTTP requests to a resource
server with a bearer token that its `MachineTokenManager` obtains from an
OAuth token endpoint. The application's threads share one agent; nothing is
persisted. The modules here model the token manager, the parsing of the token
endpoint's answers, the execution of a request with its retries and its recovery
from a 401, the agent over its token manager, and the ways an agent is
constructed. TLC checks them on small instances, and TLAPS proves the safety
properties for every value of the constants.

Paths below are relative to `src/src/mudraid/`, unless they say otherwise.

## Inventory

| Component | State it keeps | Operations | Interacts with |
|---|---|---|---|
| Token manager (`_machine_auth.py`, `MachineTokenManager`) | one cached token with its host-clock expiry, a non-reentrant lock | `get_token`, `refresh`, `clear`, `close` | signer (callback under the lock), token endpoint, the agent's threads |
| Token response (`_parse_token_response`, `_http.py`) | none | parse a response into a token or a typed error | called by `_acquire` under the lock |
| Request execution (`_consequence.py`, `MachineAgent._request`) | per call: attempt counter, the caught exception, the response | `execute`, one attempt (`send`), 401 recovery, `close` | token manager, resource server |
| Construction and destinations (`MachineAgent.__init__`, `_origin`) | the frozen set of trusted origins | validate, compare | guards every request |
| Scopes (`_scopes.py`) | an immutable tuple | `of`, `as_scope_param` | part of the identity |
| Environment (`_machine_env.py`, `from_env`) | none (reads `os.environ` and a key file) | `load_machine_identity` | constructs identities |
| Identities, signers, claims (`_machine_auth.py`) | immutable | validation, `sign` | token manager |
| Exceptions (`exceptions.py`) | none | the hierarchy callers switch on | all of the above |

What makes each of them correct:

- token manager: one mint at a time; tokens handed out never go back in time,
  not within a thread, not between threads, not across `clear()`; `refresh()`
  really mints; a reusable token is one the server still takes, in spite of
  latency and clock drift; no failure keeps the lock;
- token response: the status, not the body, picks the refusal; a limiter is
  named on the body's evidence before the headers'; a token is kept long only
  if the server said so;
- agent over the manager: nothing but a 401 or a close costs an extra issuance; a
  request does not outrun its token; a rejected token is handed out to nobody once
  it was refreshed;
- construction: no half-complete identity opens a key file, no method falls back to
  the other, no environment raises what is not a MudraIDError, and the trusted
  servers are those stated, however their URLs are written; scopes are what was
  named, once, in order, and never an entry that is a wildcard;
- request execution: at most one effect per call; a definite error means that
  nothing was sent; the replay presents a newer token; the number of
  transmissions is bounded; a call with a timeout ends.

What is hard here: several threads on one lock with a network exchange inside;
failures at every point of that exchange; a server that takes effect and then
loses, delays or contradicts (401) its answer; two nested recovery loops that
share the token manager with other calls and with `close()`; an expiry computed
on one clock and enforced on another. `PROJECT.json` lists each hazard at its line.

## Modules

```
TokenCell            what a manager promises: an atomic cell for one token
  ^ implemented by            ^ used by
TokenManager  <---+  +----> MachineAgent  <---- ResourceWrites
                  |  |
               AgentSystem            the two composed; implements MachineAgent

Scopes, Destinations  <---- Configuration          TokenResponse
```

`TokenManagerProofs`, `MachineAgentProofs`, `AgentSystemProofs`, `LiveTokenProofs`,
`ScopesProofs`, `ConfigurationProofs` and `TokenResponseProofs` hold the theorems; `MCTokenManager`,
`MCAgentSystem` and `MCConfiguration` the symmetry sets and the inputs for TLC.

**TokenCell** is the abstract specification. Tokens are numbered in issue order.
`cell` is the token held, `oldest` a frontier below which no token may be handed
out again, `served` each caller's last answer. `Serve`, `Renew`, `Fail` and
`Forget` are what `get_token`, `refresh` and `clear` amount to.

**TokenManager** has the threads. `pc[c]` is `idle`, `waiting` (for
`with self._lock`), or in `_acquire`: `signing`, `posted`, `answered`. `GetHit`,
`GetMiss`, `Refresh` and `Clear` are the four ways into the critical section.
Hits and clears are one step, since nothing else can see inside the lock; a mint
is several, with the lock held. `AcquireFails` is any exception out of `_acquire`
(signer, transport, timeout, refusal, unusable body) at any point of it: the
`with` block releases the lock and the cache stays. `Receive` computes the
expiry from the host clock at receipt, and falls back when no usable lifetime
was stated. `now` is real time; the host clock is `now + drift`, and `ClockStep`
changes `drift` at any time. `barrier` and `floor` are history variables: the
oldest token the manager may hand out, and the oldest each call may return.
Each `cached` record also carries `validUntil`, the server's own expiry, for the
properties. `close()` clears and closes an owned session, which `requests` lets
be used again, so it is `Clear`.

**TokenResponse** is the parse as an operator (`Parse`, in the code's order of
tests) and a two-state machine that applies it to every combination of field
classes. `nan`, `infinity` and `huge` are there because Python's JSON parser
produces them. `limiter` stands for the sentence `_rate_limit_attribution` picks.

**MachineAgent** has the calls. A call's `req` is chosen initially. One attempt is
`token` (TokenReady, TokenRefused, SignerTransportFails), `send` (NotSent,
Transmit), `inflight` (Answer, Lose). `Lose` leaves the copy in the network
(`late`), and `LateDelivery` lets it take effect, or not, at any later time.
`Retry`, `GiveUpUnknown` and `GiveUp` are the three ends of `execute`'s except
clause; `ReturnResponse`, `RecoverFrom401`, `RefreshOk` and `RefreshFails` are
`_request` around it; `round` tells the two `execute`s apart. `Close` is another
thread closing the agent. The token manager is `TokenCell`, which
`TokenManager` implements (theorem `ImplementsCell`).

In MachineAgent an action on the token manager is a step of the cell joined with
what the call makes of it (`TakeToken`, `TokenError`, `SignerError`, `Replay`,
`RefreshError`), so that the second half can be joined with the real manager:

**AgentSystem** extends `TokenManager` and instantiates `MachineAgent` as `A`. A call
is a thread of the manager: at `token` and at `refresh` it calls `get_token` and
`refresh` (`Ask`), waits for the lock, mints (`Acquire`), and goes on when the manager
returns (`TokenArrives`, `TokenFails`). `Local` is what a call does outside the
manager, `Close` another thread's `close()`. `cell`, `oldest` and `served` of `A` are the
manager's `cached.serial`, `barrier` and `returned`. `deadline` is a history variable:
the servers' expiry of each token the manager has held.

**ResourceWrites** extends `MachineAgent` with a resource that keeps the last write,
and calls that follow each other in one thread.

**Scopes** is the loop of `RequestedScopes.of`, one action for each way through its
body. An entry is what it names once stripped, whether there was white space to
strip, and whether it is a string.

**Destinations** has `_origin` and `_validate_token_endpoint` on the parts that
`urlsplit` finds. `flaw` folds the reasons to refuse that do not interact with the
rest: `malformed` those of both checks, `escaped` those of `_origin` only. The two differ
on purpose and the model keeps it: the endpoint may be any loopback address, a
resource only `localhost`, `127.0.0.1` (or `::1`).

**Configuration** runs one construction. `pc` names the variable read next, `fields` what
was found, each value chosen when it is read. `Required` is `required()`, `After` the order
of the reads; `ReadScopes`, `BuildScopes`, `ScopesBuilt` and `ScopesRefused` are the call of
`RequestedScopes.of`; `ReadMethod`, `ReadKeyFile`, `MakeSigner`, `MakeIdentity`,
`ReadOrigins` and `MakeAgent` the rest of `load_machine_identity`, the constructors
and `from_env`. `Explicitly` and `GiveFields` are the way without an environment, where
the constructors see what the loader would have refused. `Admits` is the check of
`_request` on a URL, which `req[c].admitted` stands for in MachineAgent.

External behaviour, modelled from how the code uses it: the token endpoint issues
or fails; the resource server may answer 401 before or after an effect,
deduplicates on an idempotency key, and a repeated idempotent request has no
further effect (what the code and its documentation assume of servers).

## Runs

| Run | Checks | Bounds, and why they suffice |
|---|---|---|
| `manager_safety` | `TypeOK`, `FreshMeansLive`, `NoStaleToken`, `MintsOnlyWhenNeeded`, `AnswersInOrder` | 2 threads, 2 calls each of any operation, 3 tokens, drift 0..1, latency 1, leeway 3, lifetimes 0 (not stated), 2 (within the leeway) and 6, 6 ticks: a token can be minted, served, expire, be cleared and replaced while the other thread waits. Margin is then 1, so the property is strict |
| `manager_refines_cell` | `IsTokenCell`, `EveryCallReturns` | the same without drift and with 3 ticks. A deadlock is a state in which a call is open and nothing can move |
| `response_safety` | `TypeOK`, `HeadersNeverOutrankBody`, `StatusPicksTheRefusal`, `LongLifeIsStated` | every combination of field classes and one status of each class the code tells apart |
| `agent_effects` | `TypeOK`, `NoDuplicateEffect`, `DefiniteFailureMeansNeverSent`, `ReplayUsesNewerToken`, `UnauthorizedIsConfirmed`, `UnknownIsAmbiguous`, `AttemptBudget`, `CallsRunDown`, `TimedCallsEnd` | one call of any kind, `close()`, 2 retries (the default is 1), up to six transmissions with late copies, 4 tokens. Calls meet only in the token manager, which `system` has two calls on |
| `system` | `SystemTypeOK`, `LiveTokensAreAccountedFor`, `IsMachineAgent`, `RequestOutrunsExpiry`, `RejectedTokenIsRetired` | a PUT, a POST or a PUT to a refused destination in each of two threads, and a closing thread; 3 manager calls each, one more than a call with a 401 and a replay needs before its last; 3 tokens, lifetime 2, leeway 1, one tick: a token ages past the leeway while its holder waits. No transport retries (`agent_effects` has them); no latency or drift (`manager_safety` has them, the theorem any) |
| `config` | `ConfigTypeOK`, `BuiltIsWhatWasNamed`, `FirstSeenOrder`, `KeyFileIsReadLast`, `EnvRaisesMudraIDErrors`, `NoOtherIdentity`, `TrustsStatedServersOnly` | every value class of every variable; three scope entries over two names and a wildcard, blank or padded or not strings (a repetition with something between); nine URLs that differ in scheme, host, port (none, default, 0, other), path or flaw (one of `_origin`'s only, one of the endpoint's only); lists of none to two |
| `manager_discards` | `RefreshDiscards` is violated | see below |
| `manager_trickle` | `ReturnsUnexpired` is violated | see below; `Latency` 2 over a leeway of 1, `get_token` only, no drift |
| `manager_budget` | `MissesShareOneMint` is violated | see below; `get_token` only and no time passes, so that nothing but the lifetime can be the reason |
| `agent_unknown` | `UnknownMeansSent` is violated | see below |
| `agent_streams` | `EveryAttemptCarriesTheBody` is violated | see below |
| `writes_order` | `EffectIsNotRepeated` is violated | see below |

`MaxTime`, `MaxMints` and `MaxCalls` (TokenManager) and `Tokens` (MachineAgent) bound
what the code leaves unbounded; when they are used up, minting can still fail,
so no call is stuck by a bound.

Every property of a passing run has a mutant in `PROJECT.json`: a definition with
a plausible bug (no leeway, no lock around the mint, `clear()` without the lock, a
lock kept after an exception, headers read before an unknown code, a forgotten
key, ...) under which TLC reports the property violated. The mutated forms stand
beside the definitions they change.

### Fairness

`TokenManager!FairSpec` is weak fairness of each thread's own steps once it has
called. Threads are scheduled, and the exchange ends because `_acquire` passes
`timeout=` (a finite response that trickles in ends as well). `threading.Lock`
promises no fairness; with finitely many calls, weak fairness is enough for a
waiting thread to get the lock in the end. `MachineAgent!FairSpec` is weak fairness
of the SDK's steps, which the former justifies for the token manager's part, and
of the wire only for a call that passes `timeout=`: `_request` sets none, and a
call without one may stay on the wire for ever. Nothing is assumed of
`LateDelivery`, `Close`, new calls, time or the clock.

`system` has no liveness property of its own. That a timed call ends follows in two
steps: `TimedCallsEnd` (`agent_effects`) assumes that the manager answers every call,
and `EveryCallReturns` (`manager_refines_cell`) shows that it does. `CallsRunDown` is
the half of `TimedCallsEnd` that needs no fairness: a call has at most
`8 * MaxRetries + 11` steps of its own, and only waiting can hold it up.

## Where the documents and the code disagree

- **A failed refresh keeps the distrusted token** (`manager_discards`). `refresh`'s
  docstring says it discards any cached token; the code replaces it after a
  successful mint only, and later calls are served the rejected token.
- **An expired token is served** (`manager_trickle`). The expiry is counted from the
  receipt of a token, and `timeout=` bounds each wait for bytes, not the exchange. If the
  response takes longer than the leeway, `get_token` goes on serving the token
  after it has expired; its docstring promises a non-expired one. `FreshMeansLive` is
  what holds: the margin is the leeway less the latency and the drift.
- **Misses that each mint** (`manager_budget`). The comment in `get_token` says that
  concurrent misses must not each spend an issuance. With a lifetime within the
  leeway no token is ever fresh, and each one that queued mints. `MintsOnlyWhenNeeded` is
  what holds: a mint finds nothing that could be reused.
- **Execution-unknown without transmission** (`agent_unknown`). The message and the
  docstring say the request was sent. A refused connection, a body that cannot be
  encoded, or a signer's own `requests` error is reported the same way. The
  classification comment in `_consequence.py` accepts this as the safe direction;
  the message does not say so.
- **A late copy undoes a later write** (`writes_order`). `_consequence.py` says that
  replaying an idempotent method cannot duplicate an effect. A PUT that got lost is
  sent again and acknowledged; the thread writes again; then the first copy lands.
- **Empty replays** (`agent_streams`). The same keyword arguments serve every
  attempt, so a body that can be read once is empty from the second one on.

Further observations, not run as properties of their own, on the token response and
the constructors: `MudraIDRateLimitedError` says a limiter is named only when the body
identifies one (`exceptions.py:147-148`), and a 429 with no code and with gateway headers
names the gateway; `_parse_token_response`'s docstring lists four codes for
`MudraIDRevokedError`, and any error string on a 400 gives it, `invalid_client` too; the
same docstring promises a token or a typed error, and an integer `expires_in` too large
for a float escapes as `OverflowError`; `MachineIdentity` and `PyJWTSigner` raise
`ValueError` when called directly, as the tests expect, although `exceptions.py:8-10` lets
callers rely on `MudraIDError` (`EnvRaisesMudraIDErrors` holds of `from_env` only).

On the rest: `src/README.md:72` speaks of one recovery where up to `2 * (max_retries + 1)` transmissions are possible
(`AttemptBudget` is the bound that holds); a 403 from the token endpoint is a
`MudraIDNetworkError` although `MudraIDRevokedError` documents 403; an infinite or NaN
`expires_in` is taken as it is, and a NaN one is never fresh; a scope with white space
inside becomes two in `as_scope_param`, so an entry may hold a wildcard that `of` does not
see (`BuiltIsWhatWasNamed` is about whole entries); a replay-safe call that was sent and
lost may end in a definite error, of its retry's `get_token` or of the refresh, which
`DefiniteFailureMeansNeverSent` does not exclude: such a call may be repeated; a keyless
POST that gets a 401 leaves the rejected token cached, as the code's comment says it
means to.

## Proofs

`TokenManagerProofs`, for any callers, operations, lifetimes, leeway, latency and
drift. None of the properties is inductive. `IInv` adds:

- `LockInv`: exactly the thread inside `_acquire` holds the lock. Without it two
  mints could be in flight, and the later receipt could be the older token;
- `FrontierInv`: the cached token is the barrier, and the barrier is at most one
  ahead of the last issue (after a `clear`);
- `ReplyInv`: a token in flight is the newest one and newer than the cached one;
- `FloorInv`, `ReturnedInv`: what each call may return is still ahead of it, and
  what an idle caller got was not behind it;
- `OrderInv`: no caller is ahead of the barrier;
- `ExpiryInv`: the host-clock expiry exceeds the server's by at most
  `Latency + MaxDrift`.

From it follow `TypeCorrect`, `ReuseIsSafe`, `NothingStale`, `Ordered` and
`ImplementsCell`. `ReuseIsSafe` needs no relation between leeway and environment: it
says the token lives for more than `Skew - Latency - MaxDrift`; with the code's 30 s
it is a guarantee as long as latency and drift together stay under 30 s.

`MachineAgentProofs`, for any calls, methods, retries and tokens. `IInv` adds:

- `UnsafeInv`: a keyless consequential call is transmitted once at most, and
  effects, late copies and the copy in flight add up to at most that;
- `SafeInv`: the server's deduplication covers the others;
- `TokenInv`: no token handed out or rejected is ahead of the frontier, and all are
  behind it while the cell is empty. The second half is what makes a renewal
  after `close()` newer than the rejected token;
- `ReplayInv`: after the refresh the frontier is past the rejected token;
- `BudgetInv`: each transmission is paid for by an attempt;
- `ResultInv`: an answered attempt has a response.

From it follow `TypeCorrect`, `AtMostOneEffect`, `DefiniteFailures`,
`ReplayAdvances`, `TwoRejections` and `BoundedAttempts`. `EveryStepCounts`
(`CallsRunDown`) is an argument about a measure: a retry is paid for by an attempt
left, the second round by the first, and every other step goes forward in a call;
that `attempt` stays within `MaxRetries` and `round` within 2 is what it takes from
the invariant.

`OutcomeInv` is inductive relative to `IInv`: what a failed attempt tells of
transmission, and which calls send a body again. Two theorems follow that draw the
line around the divergences above. `UnknownExplained` (`UnknownIsAmbiguous`): of a call
with an unknown outcome one copy may exist at most, and none only if `execute` could
not place the error. `OnlyReplayedStreamsTruncate`: a body
is sent truncated only if it can be read once, and never for a call that must not
be sent twice.

`TokenManagerProofs` also has `NoWastedMint` (`MintsOnlyWhenNeeded`), and
`MachineAgentProofs` `RejectedIsRetired` (`RejectedTokenIsRetired`): while a call is in
its second round the frontier stays past the token rejected in the first.

`AgentSystemProofs`, for any callers, workloads, retries, lifetimes and leeway, adds to
the manager's invariant where each call is with respect to its thread (`SystemInv`): a
call outside `token` and `refresh` has an idle thread, and one inside runs the operation
of that stage. `SystemInvariance` proves it, `ImplementsAgent` maps each step of the
system to a step of `MachineAgent` or a stutter, and `RequestsOutrunExpiry` follows from
the manager's `ExpiryInv`. `M` instantiates `MachineAgentProofs` with the manager's
variables in place of the cell's; `SameAgent` says that it is the agent `ImplementsAgent`
is about, so `MachineAgent`'s theorems hold of the system: `RejectedStaysRetired` states
the one the run checks, `SystemKeepsPromises` the others. In the other direction,
`SystemUsesManager` says that the agent calls its manager as `TokenManager` allows, so the
manager's theorems hold with the agent on top (`ManagerKeepsPromises`).
`SystemTypeCorrect` joins the two type invariants.

`LiveTokenProofs` proves `LiveTokensAreAccountedFor` (`LiveTokensAccounted`). The property
is not inductive: it bounds the live tokens (good for longer than leeway and drift)
by the 401s and the closes, but does not say which of them the manager still holds.
`AccountInv` counts the live tokens other than the cached one, and charges each to a
call in its second round or to a close that is over. A `get_token` that mints
supersedes nothing live: the host's expiry is not before the server's, so a token
past the leeway on the host's clock is not live. A refresh supersedes one, and `Replay`
moves its call to the second round in the same step; a clear supersedes one, and
ends a close. Everything else lets tokens expire. `RoundInv`, which ties the
second round to a 401, comes from `MachineAgent`'s invariant through the refinement.

`ScopesProofs`, for any names and any number of entries: `SeenInv` (the sets and the
sequence agree with the entries looked at so far) and `OrderInv` give `BuiltExactly` and
`OrderKept`.

`ConfigurationProofs`, for any URLs, lists and scopes: `ReadInv` and `MethodInv` say what
has been read at each `pc`, which is why no constructor can refuse what the loader let
through, and `EndsInv` and `TrustInv` what is left when the construction is over. From
them follow `ConfigTypeCorrect`, `KeyFileLast`, `EnvErrorsAreTyped`, `NoFallback`,
`TrustIsStated`, and, with the scopes' invariant, `ConfigBuildsExactly` and
`ConfigKeepsOrder`. `OriginIsServer` is the lemma behind `TrustIsStated`: origins are
equal just when two URLs lead to one server, provided neither has port 0.

`TokenResponseProofs`, for any set of status codes: `ParseTypeCorrect`, `BodyFirst`,
`StatusFirst`, `LongLifeTheorem`, from lemmas about `Parse`.

Assumptions: the constants' types; `Nobody` is no caller and `Closer` is one; the
callers of the composition are finitely many (a process has finitely many threads, and
the accounting counts them); positive token numbers; wildcards are names and the
blank entry is not; URLs have parts, and are not the words for "unset" and "blank". TLC
evaluates them in the runs. Model-checked only: the liveness properties
(`EveryCallReturns`, `TimedCallsEnd`), which need fairness and are out of this prover's
reach. Every other property of the passing runs is a theorem.

## Not modelled

Signing and the assertion's content (PyJWT's; the model's signers return or
raise), `urlsplit` and IDNA, log and error wording, the accessors of the scopes,
packaging and publication scripts, the example (a linear program over the agent).
Exceptions outside `requests` from the resource session (bad keyword arguments)
pass through unclassified and are left out. `files=` bodies, read when the
request is prepared, behave like the one-shot bodies.

## Left to do

Two agents with one supplied `token_manager`, which `close()` of either then leaves alone.
