------------------------------ MODULE TokenResponse ------------------------------
(***************************************************************************)
(* mudraid._machine_auth._parse_token_response and the mudraid._http       *)
(* helpers it uses: what a thread that has posted a token request makes of *)
(* the response.  Field values stand for the classes the code tells apart. *)
(***************************************************************************)
EXTENDS Naturals

CONSTANTS StatusCodes   \* the status codes the endpoint may answer with

ASSUME StatusAssumption == StatusCodes \subseteq 100..599

Responses ==
  [status     : StatusCodes,
   body       : {"not_json", "not_object", "object"},
   error      : {"none", "invalid_client", "invalid_scope"},   \* body's "error"
   code       : {"none", "RATE_LIMITED", "FAIR_USE_EXCEEDED", "other"},
   token      : {"none", "text"},                              \* "access_token"
   type       : {"none", "bearer", "other"},                   \* "token_type"
   expiresIn  : {"absent", "text", "negative", "zero", "true", "short", "long",
                 "infinity", "nan", "huge"},
   retryAfter : {"absent", "date", "negative", "seconds"},     \* a header
   metered    : BOOLEAN]                                       \* gateway headers

Errors == {"MudraIDAuthError", "MudraIDBillingFrozenError",
           "MudraIDRateLimitedError", "MudraIDRevokedError",
           "MudraIDNetworkError"}
Attributions == {"none", "budget", "account", "gateway", "unknown"}

\* A parse gives a token with the lifetime it will be cached for, or raises.
Outcomes ==
  [kind : Errors \cup {"token", "OverflowError"},
   lifetime : {"none", "second", "short", "long", "fallback", "forever", "never"},
   retryAfter : {"none", "seconds"},
   limiter : Attributions]

VARIABLES response, outcome

vars == <<response, outcome>>

Raise(kind) == [kind |-> kind, lifetime |-> "none", retryAfter |-> "none",
                limiter |-> "none"]
Token(lifetime) == [Raise("token") EXCEPT !.lifetime = lifetime]
Pending == Raise("pending")

--------------------------------------------------------------------------------
\* _safe_oauth_error, and the body fields other helpers read: nothing can be
\* read from a body that is not a JSON object.
OAuthError(r) == IF r.body = "object" THEN r.error ELSE "none"
ErrorCode(r) == IF r.body = "object" THEN r.code ELSE "none"

\* _retry_after_seconds: delta-seconds only.  Mutant: the sign is not looked at.
RetryAfterSigned(r) ==
  IF r.retryAfter \in {"negative", "seconds"} THEN r.retryAfter ELSE "none"
RetryAfter(r) == IF r.retryAfter = "seconds" THEN "seconds" ELSE "none"

\* _rate_limit_attribution.  Mutant: the headers are read when neither known
\* code matches.
LimiterByKnownCodes(r) ==
  CASE ErrorCode(r) = "RATE_LIMITED"      -> "budget"
    [] ErrorCode(r) = "FAIR_USE_EXCEEDED" -> "account"
    [] OTHER -> IF r.metered THEN "gateway" ELSE "unknown"
Limiter(r) ==
  CASE ErrorCode(r) = "RATE_LIMITED"      -> "budget"
    [] ErrorCode(r) = "FAIR_USE_EXCEEDED" -> "account"
    [] OTHER -> IF ErrorCode(r) = "none" /\ r.metered THEN "gateway" ELSE "unknown"

RateLimited(r) == [Raise("MudraIDRateLimitedError") EXCEPT
                     !.retryAfter = RetryAfter(r), !.limiter = Limiter(r)]

\* The lifetime of an accepted token.  json parses NaN and Infinity, True is
\* the number one, and no integer is too long: only float() finds it too big.
\* Mutant: what is not a positive number counts as an hour.
AcceptedForAnHour(expiresIn) ==
  CASE expiresIn = "huge"     -> Raise("OverflowError")
    [] expiresIn = "true"     -> Token("second")
    [] expiresIn = "infinity" -> Token("forever")
    [] expiresIn = "nan"      -> Token("never")
    [] OTHER -> Token(IF expiresIn = "short" THEN "short" ELSE "long")
Accepted(expiresIn) ==
  CASE expiresIn = "huge"     -> Raise("OverflowError")
    [] expiresIn = "true"     -> Token("second")
    [] expiresIn = "infinity" -> Token("forever")
    [] expiresIn = "nan"      -> Token("never")
    [] OTHER -> Token(IF expiresIn \in {"short", "long"} THEN expiresIn
                      ELSE "fallback")

Success(r) ==
  IF r.body # "object" \/ r.token = "none" \/ r.type = "other"
  THEN Raise("MudraIDNetworkError")
  ELSE Accepted(r.expiresIn)

\* _parse_token_response: the status decides first, in this order.
\* Mutant: any refusal with an OAuth error code is an authority refusal.
ParseByErrorCode(r) ==
  CASE r.status = 402          -> Raise("MudraIDBillingFrozenError")
    [] r.status = 429          -> RateLimited(r)
    [] r.status \in 200..299   -> Success(r)
    [] r.status \in 400..499 \ {402, 429} /\ OAuthError(r) # "none"
                               -> Raise("MudraIDRevokedError")
    [] r.status = 401 /\ OAuthError(r) = "none" -> Raise("MudraIDAuthError")
    [] OTHER                   -> Raise("MudraIDNetworkError")
Parse(r) ==
  CASE r.status = 401          -> Raise("MudraIDAuthError")
    [] r.status = 402          -> Raise("MudraIDBillingFrozenError")
    [] r.status = 429          -> RateLimited(r)
    [] r.status \in 200..299   -> Success(r)
    [] r.status = 400 /\ OAuthError(r) # "none" -> Raise("MudraIDRevokedError")
    [] OTHER                   -> Raise("MudraIDNetworkError")

--------------------------------------------------------------------------------
Init == response \in Responses /\ outcome = Pending

ParseTokenResponse == /\ outcome = Pending
                      /\ outcome' = Parse(response)
                      /\ UNCHANGED response

Parsed == outcome # Pending /\ UNCHANGED vars

Next == ParseTokenResponse \/ Parsed

Spec == Init /\ [][Next]_vars

--------------------------------------------------------------------------------
TypeOK == response \in Responses /\ outcome \in Outcomes \cup {Pending}

\* "The body outranks the headers": when the service states a code, one the
\* SDK knows or not, the gateway's headers make no difference to the outcome.
HeadersNeverOutrankBody ==
  outcome # Pending /\ ErrorCode(response) # "none" =>
    outcome = Parse([response EXCEPT !.metered = ~@]) /\ outcome.limiter # "gateway"

Mislabelled(r, b, e) == [r EXCEPT !.body = b, !.error = e]

\* The class of a refusal is the status's: except for 400, no body, however
\* mislabelled or unreadable, turns one remedy into another (a billing freeze
\* into "retry later", a refused credential into a refused scope).
StatusPicksTheRefusal ==
  outcome # Pending /\ response.status \notin 200..299 \cup {400} =>
    \A b \in {"not_json", "not_object", "object"},
       e \in {"none", "invalid_client", "invalid_scope"} :
      Parse(Mislabelled(response, b, e)).kind = outcome.kind

\* "A missing field never yields a long-lived cached token": a token is kept
\* for longer than the fallback only if the server stated such a number.
LongLifeIsStated ==
  outcome.lifetime \in {"long", "forever"} => response.expiresIn \in {"long", "infinity"}
================================================================================
