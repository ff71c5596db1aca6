--------------------------- MODULE TokenResponseProofs ---------------------------
(***************************************************************************)
(* Proofs about TokenResponse, for every set of status codes.  What a run  *)
(* samples with eight of them holds of all.                                *)
(***************************************************************************)
EXTENDS TokenResponse, TLAPS

\* The invariant that carries the others: the outcome is the parse of the
\* response that came.
ParseInv == /\ response \in Responses
            /\ outcome = Pending \/ outcome = Parse(response)

--------------------------------------------------------------------------------
(***************************************************************************)
(* What the helpers return.                                                *)
(***************************************************************************)

\* _rate_limit_attribution: always one of the four attributions.
LEMMA LimiterIsAttribution ==
  ASSUME NEW r \in Responses PROVE Limiter(r) \in Attributions \ {"none"}
BY DEF Limiter, Attributions

\* The limiter's sentence and the retry delay stay within their kinds.
LEMMA RateLimitedType ==
  ASSUME NEW r \in Responses PROVE RateLimited(r) \in Outcomes
<1>1. RetryAfter(r) \in {"none", "seconds"}
  BY DEF RetryAfter
<1>2. Limiter(r) \in Attributions
  BY LimiterIsAttribution
<1> QED
  BY <1>1, <1>2 DEF RateLimited, Raise, Outcomes, Errors

\* The lifetime taken from expires_in is one that a token can be cached for.
LEMMA AcceptedType ==
  ASSUME NEW r \in Responses PROVE Accepted(r.expiresIn) \in Outcomes
<1>1. r.expiresIn \in {"absent", "text", "negative", "zero", "true", "short",
                       "long", "infinity", "nan", "huge"}
  BY DEF Responses
<1> QED
  BY <1>1 DEF Accepted, Token, Raise, Outcomes, Attributions

\* Whatever the response, the parse gives a token or one of the SDK's errors.
LEMMA ParseType ==
  ASSUME NEW r \in Responses PROVE Parse(r) \in Outcomes
<1>1. \A kind \in Errors : Raise(kind) \in Outcomes
  BY DEF Raise, Outcomes, Attributions
<1>2. Success(r) \in Outcomes
  BY <1>1, AcceptedType DEF Success, Errors
<1> QED
  BY <1>1, <1>2, RateLimitedType DEF Parse, Errors

\* No parse is pending, so a parsed response is told from one that is not.
LEMMA ParseEnds ==
  ASSUME NEW r \in Responses PROVE Parse(r) # Pending
<1>1. Parse(r).kind \in Errors \cup {"token", "OverflowError"}
  BY ParseType DEF Outcomes
<1>2. Pending.kind = "pending"
  BY DEF Pending, Raise
<1> QED
  BY <1>1, <1>2 DEF Errors

--------------------------------------------------------------------------------
(***************************************************************************)
(* What the parse may not depend on.                                       *)
(***************************************************************************)

\* With a code in the body the gateway's headers are not read.
LEMMA MeteredIsIrrelevant ==
  ASSUME NEW r \in Responses, ErrorCode(r) # "none"
  PROVE  /\ Parse(r) = Parse([r EXCEPT !.metered = ~@])
         /\ Parse(r).limiter # "gateway"
<1> DEFINE s == [r EXCEPT !.metered = ~@]
<1>1. /\ s.status = r.status /\ s.body = r.body /\ s.error = r.error
      /\ s.code = r.code /\ s.token = r.token /\ s.type = r.type
      /\ s.expiresIn = r.expiresIn /\ s.retryAfter = r.retryAfter
  BY DEF Responses
<1> HIDE DEF s
<1>2. OAuthError(s) = OAuthError(r) /\ ErrorCode(s) = ErrorCode(r)
      /\ RetryAfter(s) = RetryAfter(r)
  BY <1>1 DEF OAuthError, ErrorCode, RetryAfter
<1>3. Limiter(s) = Limiter(r) /\ Limiter(r) # "gateway"
  BY <1>2 DEF Limiter
<1>4. RateLimited(s) = RateLimited(r) /\ RateLimited(r).limiter # "gateway"
  BY <1>2, <1>3 DEF RateLimited, Raise
<1>5. Success(s) = Success(r) /\ Success(r).limiter # "gateway"
  BY <1>1 DEF Success, Accepted, Token, Raise
<1>6. Parse(s) = Parse(r) /\ Parse(r).limiter # "gateway"
  BY <1>1, <1>2, <1>4, <1>5 DEF Parse, Raise
<1> QED
  BY <1>6 DEF s

\* Outside 2xx and 400 the body does not change the class of the refusal.
LEMMA StatusDecides ==
  \A r \in Responses : r.status \notin 200..299 \cup {400} =>
    \A b \in {"not_json", "not_object", "object"},
       e \in {"none", "invalid_client", "invalid_scope"} :
      Parse(Mislabelled(r, b, e)).kind = Parse(r).kind
<1> SUFFICES ASSUME NEW r \in Responses, r.status \notin 200..299 \cup {400},
                    NEW b \in {"not_json", "not_object", "object"},
                    NEW e \in {"none", "invalid_client", "invalid_scope"}
             PROVE  Parse(Mislabelled(r, b, e)).kind = Parse(r).kind
  OBVIOUS
<1> DEFINE s == Mislabelled(r, b, e)
<1>1. s.status = r.status
  BY DEF Mislabelled, Responses
<1> HIDE DEF s
<1>2. \A t : RateLimited(t).kind = "MudraIDRateLimitedError"
  BY DEF RateLimited, Raise
<1>3. Parse(s).kind = Parse(r).kind
  BY <1>1, <1>2 DEF Parse, Raise
<1> QED
  BY <1>3 DEF s

\* A token is kept for long only on a stated number.
LEMMA LongIsStated ==
  ASSUME NEW r \in Responses, Parse(r).lifetime \in {"long", "forever"}
  PROVE  r.expiresIn \in {"long", "infinity"}
<1>1. \A kind : Raise(kind).lifetime = "none"
  BY DEF Raise
<1>2. RateLimited(r).lifetime = "none"
  BY DEF RateLimited, Raise
<1>3. Parse(r) = Accepted(r.expiresIn)
  BY <1>1, <1>2 DEF Parse, Success
<1> QED
  BY <1>1, <1>3 DEF Accepted, Token, Raise

--------------------------------------------------------------------------------
(***************************************************************************)
(* Theorems.                                                               *)
(***************************************************************************)

\* The invariant holds of every run of the parse.
THEOREM ParseInvariance == Spec => []ParseInv
<1>1. Init => ParseInv
  BY DEF Init, ParseInv
<1>2. ParseInv /\ [Next]_vars => ParseInv'
  BY DEF ParseInv, Next, ParseTokenResponse, Parsed, vars
<1> QED
  BY <1>1, <1>2, PTL DEF Spec

\* _parse_token_response returns a token or raises one of the SDK's errors,
\* or the OverflowError of float(), for every status and body.
THEOREM ParseTypeCorrect == Spec => []TypeOK
<1>1. ParseInv => TypeOK
  BY ParseType DEF ParseInv, TypeOK
<1> QED
  BY <1>1, ParseInvariance, PTL

\* The service's code in the body is never overruled by gateway headers.
THEOREM BodyFirst == Spec => []HeadersNeverOutrankBody
<1>1. ParseInv => HeadersNeverOutrankBody
  BY MeteredIsIrrelevant DEF ParseInv, HeadersNeverOutrankBody
<1> QED
  BY <1>1, ParseInvariance, PTL

\* The status alone picks the exception, 2xx and 400 apart.
THEOREM StatusFirst == Spec => []StatusPicksTheRefusal
<1>1. ASSUME ParseInv, outcome # Pending
      PROVE  StatusPicksTheRefusal
  <2>1. response \in Responses /\ outcome = Parse(response)
    BY <1>1 DEF ParseInv
  <2>2. response.status \notin 200..299 \cup {400} =>
          \A b \in {"not_json", "not_object", "object"},
             e \in {"none", "invalid_client", "invalid_scope"} :
            Parse(Mislabelled(response, b, e)).kind = Parse(response).kind
    BY <2>1, StatusDecides
  <2> QED
    BY <2>1, <2>2 DEF StatusPicksTheRefusal
<1>2. ParseInv => StatusPicksTheRefusal
  BY <1>1 DEF StatusPicksTheRefusal
<1> QED
  BY <1>2, ParseInvariance, PTL

\* A missing or malformed expires_in never gives a long-lived cached token.
THEOREM LongLifeTheorem == Spec => []LongLifeIsStated
<1>1. Pending.lifetime = "none"
  BY DEF Pending, Raise
<1>2. ParseInv => LongLifeIsStated
  BY <1>1, LongIsStated DEF ParseInv, LongLifeIsStated
<1> QED
  BY <1>2, ParseInvariance, PTL
================================================================================
