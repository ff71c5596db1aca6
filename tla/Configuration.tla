----------------------------- MODULE Configuration -----------------------------
(***************************************************************************)
(* How an agent comes to be: MachineAgent.from_env with                    *)
(* _machine_env.load_machine_identity, or the explicit constructors        *)
(* RequestedScopes.of, PyJWTSigner, MachineIdentity, ClientSecretIdentity  *)
(* and MachineAgent.  `pc` names what is read or made next.                *)
(*                                                                         *)
(* An environment variable gets its value when it is read; each is read    *)
(* once.  URLs are named, and Parts says what each of them is.             *)
(***************************************************************************)
EXTENDS Scopes, Destinations

CONSTANTS Urls,        \* names of the URLs in use
          Parts,       \* their parts
          OriginLists  \* the lists of trusted URLs that may be given

ASSUME UrlsAssumption ==
  /\ Parts \in [Urls -> UrlRecords]
  /\ Urls \cap {"unread", "unset", "blank"} = {}
ASSUME OriginListsAssumption == OriginLists \subseteq Seq(Urls)

VARIABLES pc,
          fromEnv,     \* from_env, or the explicit constructors
          signer,      \* the caller brings a signer of its own
          kind,        \* the authentication method in force
          fields,      \* what was read of each variable, or given for it
          origins,     \* resource_origins: not given, a list, something else
          scopes,      \* the identity's scopes
          trusted,     \* the agent's _resource_origins
          outcome

configVars == <<pc, fromEnv, signer, kind, fields, origins, scopes, trusted, outcome>>
allVars == <<scopesVars, configVars>>

Secret == "client_secret_basic"
Signing == "private_key_jwt"

Fields == {"CLIENT_ID", "TOKEN_ENDPOINT", "RESOURCE", "AUTH_METHOD", "CLIENT_SECRET",
           "ASSERTION_AUDIENCE", "PRIVATE_KEY_PATH", "KEY_ID", "KEY_FILE",
           "RESOURCE_ORIGINS"}
Phases == Fields \cup {"start", "SCOPES", "scopes", "given", "signer", "identity",
                       "agent", "done"}

\* A field that was looked at and held nothing is "unset" or "blank"; "blank"
\* is white space only and, given explicitly, any value that is not a string.
Nothing == {"unset", "blank"}
Texts(f) == IF f = "CLIENT_ID" THEN {"plain", "colon"}   \* "colon": a:b
            ELSE IF f \in {"TOKEN_ENDPOINT", "RESOURCE"} THEN Urls
            ELSE {"text"}

Origins == [given : {"none", "list", "other"}, list : OriginLists \cup {<<>>}]
NoOrigins == [given |-> "none", list |-> <<>>]

ConfigTypeOK ==
  /\ ScopesTypeOK
  /\ pc \in Phases
  /\ fromEnv \in BOOLEAN /\ signer \in BOOLEAN
  /\ kind \in {Secret, Signing}
  /\ \A f \in Fields : fields[f] \in {"unread"} \cup Nothing \cup Texts(f)
                         \cup {Secret, Signing, "other", "missing", "empty", "key"}
  /\ origins \in Origins
  /\ scopes \in Seq(Names)
  /\ \A o \in trusted : \E u \in Urls : o = Origin(Parts[u])
  /\ outcome \in {"none", "agent", "config_error", "scope_error", "value_error"}

ConfigInit ==
  /\ ScopesInit
  /\ pc = "start"
  /\ fromEnv = FALSE /\ signer = FALSE
  /\ kind = Signing
  /\ fields = [f \in Fields |-> "unread"]
  /\ origins = NoOrigins
  /\ scopes = <<>>
  /\ trusted = {}
  /\ outcome = "none"

Raise(error) ==
  /\ pc' = "done" /\ outcome' = error
  /\ UNCHANGED <<fromEnv, signer, kind, origins, scopes, trusted>>

Goto(phase) == /\ pc' = phase
               /\ UNCHANGED <<fromEnv, signer, origins, scopes, trusted, outcome>>

Found(f, v) == fields' = [fields EXCEPT ![f] = v]

--------------------------------------------------------------------------------
(***************************************************************************)
(* load_machine_identity.                                                  *)
(***************************************************************************)

FromEnv ==
  /\ pc = "start"
  /\ fromEnv' = TRUE
  /\ signer' \in BOOLEAN
  /\ pc' = "CLIENT_ID"
  /\ UNCHANGED <<scopesVars, kind, fields, origins, scopes, trusted, outcome>>

BadPrefix == /\ pc = "start"
             /\ Raise("config_error")
             /\ UNCHANGED <<scopesVars, fields>>

\* required(): os.environ.get(variable, "").strip() must leave something.
\* Mutant: the value is not stripped.
MissingUnstripped(v) == v = "unset"
Missing(v) == v \in Nothing

\* The order of the reads.  A signer of the caller's spares the key.
\* Mutant: the key file is opened before its key id is known.
AfterKeyFirst(f) ==
  CASE f = "CLIENT_ID" -> "TOKEN_ENDPOINT"
    [] f = "TOKEN_ENDPOINT" -> "RESOURCE"
    [] f = "RESOURCE" -> "SCOPES"
    [] f = "CLIENT_SECRET" -> "identity"
    [] f = "ASSERTION_AUDIENCE" -> IF signer THEN "identity" ELSE "PRIVATE_KEY_PATH"
    [] f = "PRIVATE_KEY_PATH" -> "KEY_FILE"
    [] f = "KEY_ID" -> "signer"
After(f) ==
  CASE f = "CLIENT_ID" -> "TOKEN_ENDPOINT"
    [] f = "TOKEN_ENDPOINT" -> "RESOURCE"
    [] f = "RESOURCE" -> "SCOPES"
    [] f = "CLIENT_SECRET" -> "identity"
    [] f = "ASSERTION_AUDIENCE" -> IF signer THEN "identity" ELSE "PRIVATE_KEY_PATH"
    [] f = "PRIVATE_KEY_PATH" -> "KEY_ID"
    [] f = "KEY_ID" -> "KEY_FILE"

\* Mutant: a client with no secret signs instead.
RequiredOrSigning(f) ==
  /\ pc = f /\ f \in Fields \ {"AUTH_METHOD", "KEY_FILE", "RESOURCE_ORIGINS"}
  /\ \E v \in Nothing \cup Texts(f) :
       /\ Found(f, v)
       /\ \/ ~Missing(v) /\ Goto(After(f)) /\ UNCHANGED kind
          \/ /\ Missing(v) /\ f = "CLIENT_SECRET"
             /\ kind' = Signing
             /\ Goto("ASSERTION_AUDIENCE")
          \/ Missing(v) /\ f # "CLIENT_SECRET" /\ Raise("config_error")
  /\ UNCHANGED scopesVars
Required(f) ==
  /\ pc = f /\ f \in Fields \ {"AUTH_METHOD", "KEY_FILE", "RESOURCE_ORIGINS"}
  /\ \E v \in Nothing \cup Texts(f) :
       /\ Found(f, v)
       /\ IF Missing(v) THEN Raise("config_error")
                        ELSE Goto(After(f)) /\ UNCHANGED kind
  /\ UNCHANGED scopesVars

\* SCOPES is split at white space: no entry is blank or padded.
SplitInputs == {s \in Inputs : \A k \in 1..Len(s) :
                  s[k].text /\ ~s[k].padded /\ s[k].name # Blank}
ReadScopes ==
  /\ pc = "SCOPES"
  /\ \E s \in IF fromEnv THEN SplitInputs ELSE Inputs : Of(s)
  /\ Goto("scopes")
  /\ UNCHANGED <<kind, fields>>

BuildScopes == /\ pc = "scopes"
               /\ Loop
               /\ UNCHANGED configVars

\* The call ends; its local variables with it.
ScopesBuilt ==
  /\ pc = "scopes" /\ building = "built"
  /\ scopes' = ordered
  /\ pc' = IF fromEnv THEN "AUTH_METHOD" ELSE "given"
  /\ entries' = <<>> /\ i' = 1 /\ seen' = {} /\ ordered' = <<>> /\ building' = "idle"
  /\ UNCHANGED <<fromEnv, signer, kind, fields, origins, trusted, outcome>>

ScopesRefused == /\ pc = "scopes" /\ building = "refused"
                 /\ Raise("scope_error")
                 /\ UNCHANGED <<scopesVars, fields>>

\* AUTH_METHOD, by default private_key_jwt.  "other" is also a blank one.
ReadMethod ==
  /\ pc = "AUTH_METHOD"
  /\ \E v \in {"unset", Secret, Signing, "other"} :
       /\ Found("AUTH_METHOD", v)
       /\ \/ /\ v = "other" \/ (v = Secret /\ signer)
             /\ Raise("config_error")
          \/ /\ v = Secret /\ ~signer
             /\ kind' = Secret
             /\ Goto("CLIENT_SECRET")
          \/ /\ v \in {"unset", Signing}
             /\ kind' = Signing
             /\ Goto("ASSERTION_AUDIENCE")
  /\ UNCHANGED scopesVars

ReadKeyFile ==
  /\ pc = "KEY_FILE"
  /\ \E v \in {"missing", "empty", "key"} :
       /\ Found("KEY_FILE", v)
       /\ IF v = "key" THEN Goto("signer") /\ UNCHANGED kind
                       ELSE Raise("config_error")
  /\ UNCHANGED scopesVars

--------------------------------------------------------------------------------
(***************************************************************************)
(* The constructors.                                                       *)
(***************************************************************************)

\* The explicit way: scopes first, then the fields of an identity of either
\* kind, with a signer of the caller's or a PyJWTSigner.
Explicitly == /\ pc = "start"
              /\ Goto("SCOPES")
              /\ UNCHANGED <<scopesVars, kind, fields>>

GiveFields ==
  /\ pc = "given"
  /\ kind' \in {Secret, Signing}
  /\ signer' \in BOOLEAN
  /\ \E id \in {"blank"} \cup Texts("CLIENT_ID"), e, r \in {"blank"} \cup Urls,
        s \in {"blank", "text"}, k \in {"unset", "text"} :
       fields' = [fields EXCEPT !["CLIENT_ID"] = id, !["TOKEN_ENDPOINT"] = e,
                    !["RESOURCE"] = r, !["KEY_ID"] = k,
                    !["CLIENT_SECRET"] = s, !["ASSERTION_AUDIENCE"] = s]
  /\ pc' = IF kind' = Signing /\ ~signer' THEN "signer" ELSE "identity"
  /\ UNCHANGED <<scopesVars, fromEnv, origins, scopes, trusted, outcome>>

\* PyJWTSigner(private_key, kid=..., algorithm=...): from_env leaves RS256.
MakeSigner ==
  /\ pc = "signer"
  /\ \E permitted \in IF fromEnv THEN {TRUE} ELSE BOOLEAN :
       IF fields["KEY_ID"] = "unset" \/ ~permitted
       THEN Raise("value_error")
       ELSE Goto("identity") /\ UNCHANGED kind
  /\ UNCHANGED <<scopesVars, fields>>

\* __post_init__ of the two identities: every field but the scopes must hold
\* something.  MachineIdentity says ValueError, ClientSecretIdentity
\* MudraIDConfigError.
Own == {"CLIENT_ID", "TOKEN_ENDPOINT", "RESOURCE",
        IF kind = Secret THEN "CLIENT_SECRET" ELSE "ASSERTION_AUDIENCE"}
Incomplete == \E f \in Own : fields[f] \in Nothing

MakeIdentity ==
  /\ pc = "identity"
  /\ \E ttlPositive \in IF fromEnv \/ kind = Secret THEN {TRUE} ELSE BOOLEAN :
       \/ Incomplete /\ Raise(IF kind = Secret THEN "config_error" ELSE "value_error")
       \/ /\ ~Incomplete
          /\ \/ kind = Secret /\ fields["CLIENT_ID"] = "colon"
             \/ ~EndpointAccepted(Parts[fields["TOKEN_ENDPOINT"]])
          /\ Raise("config_error")
       \/ /\ ~Incomplete /\ ~(kind = Secret /\ fields["CLIENT_ID"] = "colon")
          /\ EndpointAccepted(Parts[fields["TOKEN_ENDPOINT"]])
          /\ IF ttlPositive THEN Goto("RESOURCE_ORIGINS") /\ UNCHANGED kind
                            ELSE Raise("value_error")
  /\ UNCHANGED <<scopesVars, fields>>

\* RESOURCE_ORIGINS: os.getenv and split; the explicit argument may be no list.
\* Mutant: a variable that is set but blank counts as not set.
ListedIfAny(l) == IF l = <<>> THEN NoOrigins ELSE [given |-> "list", list |-> l]
Listed(l) == [given |-> "list", list |-> l]

ReadOrigins ==
  /\ pc = "RESOURCE_ORIGINS"
  /\ \/ Found("RESOURCE_ORIGINS", "unset") /\ origins' = NoOrigins
     \/ /\ Found("RESOURCE_ORIGINS", "text")
        /\ \E l \in OriginLists \cup {<<>>} : origins' = Listed(l)
     \/ /\ ~fromEnv /\ Found("RESOURCE_ORIGINS", "other")
        /\ origins' = [given |-> "other", list |-> <<>>]
  /\ pc' = "agent"
  /\ UNCHANGED <<scopesVars, fromEnv, signer, kind, scopes, trusted, outcome>>

\* The URLs whose servers the agent is to trust.
Destined == IF origins.given = "none" THEN {fields["RESOURCE"]}
            ELSE {origins.list[k] : k \in 1..Len(origins.list)}

\* MachineAgent.__init__.
MakeAgent ==
  /\ pc = "agent"
  /\ IF \/ origins.given = "other" \/ Destined = {}
        \/ \E u \in Destined : Refused(Parts[u])
        \/ origins.given = "list" /\ \E u \in Destined : Parts[u].path
     THEN Raise("config_error")
     ELSE /\ pc' = "done" /\ outcome' = "agent"
          /\ trusted' = {Origin(Parts[u]) : u \in Destined}
          /\ UNCHANGED <<fromEnv, signer, kind, origins, scopes>>
  /\ UNCHANGED <<scopesVars, fields>>

\* The check of _request's url, which MachineAgent's `admitted` stands for.
Admits(u) == ~Refused(Parts[u]) /\ Origin(Parts[u]) \in trusted

--------------------------------------------------------------------------------
Constructed == pc = "done" /\ UNCHANGED allVars

ConfigNext ==
  \/ FromEnv \/ BadPrefix \/ (\E f \in Fields : Required(f)) \/ ReadScopes \/ BuildScopes
  \/ ScopesBuilt \/ ScopesRefused \/ ReadMethod \/ ReadKeyFile
  \/ Explicitly \/ GiveFields \/ MakeSigner \/ MakeIdentity \/ ReadOrigins \/ MakeAgent
  \/ Constructed

ConfigSpec == ConfigInit /\ [][ConfigNext]_allVars

--------------------------------------------------------------------------------
(***************************************************************************)
(* Properties.                                                             *)
(***************************************************************************)

\* "Read the complete identity before opening a key file": a key file is read
\* for a signing identity that lacks nothing else, and for no other.
KeyFileIsReadLast ==
  fromEnv /\ fields["KEY_FILE"] # "unread" =>
    /\ ~signer /\ kind = Signing
    /\ fields["CLIENT_SECRET"] = "unread"
    /\ \A f \in Own \cup {"PRIVATE_KEY_PATH", "KEY_ID"} :
         fields[f] \notin Nothing \cup {"unread"}

\* exceptions.py, "All SDK-raised exceptions must inherit from MudraIDError":
\* no environment makes from_env raise the constructors' ValueError.
EnvRaisesMudraIDErrors == fromEnv => outcome # "value_error"

\* "Never ... fall back to another identity": an agent made from the
\* environment authenticates by the method stated, and what only the other
\* method uses was not read.
NoOtherIdentity ==
  fromEnv /\ outcome = "agent" =>
    /\ kind = Secret <=> fields["AUTH_METHOD"] = Secret
    /\ kind = Secret => \A f \in {"ASSERTION_AUDIENCE", "PRIVATE_KEY_PATH", "KEY_ID", "KEY_FILE"} :
                          fields[f] = "unread"
    /\ kind = Signing => fields["CLIENT_SECRET"] = "unread"

\* The agent sends its token to the servers of the URLs it was given to trust
\* and to no other, however a URL is written: those of the list whenever there
\* is one, be it empty, else that of the resource.
Stated == IF fields["RESOURCE_ORIGINS"] = "unset" THEN {fields["RESOURCE"]}
          ELSE {origins.list[k] : k \in 1..Len(origins.list)}
TrustsStatedServersOnly ==
  outcome = "agent" =>
    \A u \in Urls :
      /\ Admits(u) => \E d \in Stated : SameServer(Parts[u], Parts[d])
      /\ Parts[u].flaw \in {"none", "hash"} /\ (\E d \in Stated : SameServer(Parts[u], Parts[d]))
           => Admits(u)
================================================================================
