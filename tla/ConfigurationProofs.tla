-------------------------- MODULE ConfigurationProofs --------------------------
(***************************************************************************)
(* Proofs about Configuration, for any URLs, any lists of trusted servers, *)
(* any scopes and any number of them.                                      *)
(***************************************************************************)
EXTENDS Configuration, ScopesProofs

\* Every value a field can have.
Values == {"unread"} \cup Nothing \cup Urls \cup
          {"plain", "colon", "text", Secret, Signing, "other", "missing", "empty", "key"}

Held(S) == \A f \in S : fields[f] \notin Nothing \cup {"unread"}
Unread(S) == \A f \in S : fields[f] = "unread"

Targets == {"CLIENT_ID", "TOKEN_ENDPOINT", "RESOURCE"}
ForSigning == {"ASSERTION_AUDIENCE", "PRIVATE_KEY_PATH", "KEY_ID", "KEY_FILE"}

\* A field holds only what can be read into it.
TypeInv ==
  /\ fields \in [Fields -> Values]
  /\ pc \in Phases
  /\ fromEnv \in BOOLEAN /\ signer \in BOOLEAN
  /\ kind \in {Secret, Signing}
  /\ origins \in Origins
  /\ scopes \in Seq(Names)
  /\ \A f \in Fields : fields[f] \in {"unread"} \cup Nothing \cup Texts(f)
                         \cup {Secret, Signing, "other", "missing", "empty", "key"}
  /\ \A f \in {"TOKEN_ENDPOINT", "RESOURCE"} : fields[f] \in {"unread"} \cup Nothing \cup Urls
  /\ outcome \in {"none", "agent", "config_error", "scope_error", "value_error"}
  /\ outcome # "none" => pc = "done"
  /\ pc = "start" => Unread(Fields)
  /\ ~fromEnv => pc \in {"start", "SCOPES", "scopes", "given", "signer", "identity",
                         "RESOURCE_ORIGINS", "agent", "done"}

\* What has been read when load_machine_identity is at pc.
ReadInv ==
  /\ pc \notin {"start", "given"}
  /\ pc = "TOKEN_ENDPOINT" => Held({"CLIENT_ID"})
  /\ pc = "RESOURCE" => Held({"CLIENT_ID", "TOKEN_ENDPOINT"})
  /\ pc \notin Targets \cup {"done"} => Held(Targets)
  /\ pc \in Targets \cup {"SCOPES", "scopes", "AUTH_METHOD"} =>
       Unread(ForSigning \cup {"CLIENT_SECRET"})

\* What the method has led to.
MethodInv ==
  /\ pc = "CLIENT_SECRET" =>
       kind = Secret /\ fields["AUTH_METHOD"] = Secret /\ Unread(ForSigning)
  /\ pc \in ForSigning \cup {"signer"} =>
       kind = Signing /\ fields["AUTH_METHOD"] # Secret /\ Unread({"CLIENT_SECRET"})
  /\ pc \in ForSigning => Unread({"KEY_FILE"})
  /\ pc \in (ForSigning \ {"ASSERTION_AUDIENCE"}) \cup {"signer"} =>
       ~signer /\ Held({"ASSERTION_AUDIENCE"})
  /\ pc = "KEY_ID" => Held({"PRIVATE_KEY_PATH"})
  /\ pc \in {"KEY_FILE", "signer"} => Held({"PRIVATE_KEY_PATH", "KEY_ID"})
  /\ pc \in {"identity", "RESOURCE_ORIGINS", "agent"} =>
       /\ kind = Secret <=> fields["AUTH_METHOD"] = Secret
       /\ kind = Secret => Unread(ForSigning) /\ Held({"CLIENT_SECRET"})
       /\ kind = Signing => Unread({"CLIENT_SECRET"}) /\ Held({"ASSERTION_AUDIENCE"})

\* What from_env may have done when it has ended.
EndsInv ==
  /\ fields["KEY_FILE"] # "unread" =>
       /\ pc \in {"signer", "identity", "RESOURCE_ORIGINS", "agent", "done"}
       /\ ~signer /\ kind = Signing
       /\ Unread({"CLIENT_SECRET"})
       /\ Held(Targets \cup {"ASSERTION_AUDIENCE", "PRIVATE_KEY_PATH", "KEY_ID"})
  /\ outcome # "value_error"
  /\ outcome = "agent" =>
       /\ kind = Secret <=> fields["AUTH_METHOD"] = Secret
       /\ kind = Secret => Unread(ForSigning)
       /\ kind = Signing => Unread({"CLIENT_SECRET"})

EnvInv == fromEnv => ReadInv /\ MethodInv /\ EndsInv

\* What the agent will trust, and trusts.
TrustInv ==
  /\ pc \in {"signer", "identity"} => fields["RESOURCE"] # "unread"
  /\ pc \in {"RESOURCE_ORIGINS", "agent"} => fields["RESOURCE"] \in Urls
  /\ pc = "agent" \/ outcome = "agent" =>
       /\ fields["RESOURCE"] \in Urls
       /\ origins.given = "none" <=> fields["RESOURCE_ORIGINS"] = "unset"
  /\ outcome = "agent" =>
       /\ \A u \in Destined : ~Refused(Parts[u])
       /\ trusted = {Origin(Parts[u]) : u \in Destined}
  /\ outcome # "agent" => trusted = {}

ConfigInv == ScopesInv /\ TypeInv /\ EnvInv /\ TrustInv

--------------------------------------------------------------------------------
(***************************************************************************)
(* Facts about the definitions.                                            *)
(***************************************************************************)

\* The text of a variable is a value, and counts as held.
LEMMA TextsAreHeld ==
  ASSUME NEW f \in Fields, NEW v \in Texts(f)
  PROVE  v \in Values /\ v \notin Nothing \cup {"unread"}
  BY UrlsAssumption DEF Texts, Values, Nothing

\* The initial state: nothing is read and no scope is looked at.
LEMMA ConfigInitInv == ConfigInit => ConfigInv
<1> SUFFICES ASSUME ConfigInit PROVE ConfigInv
  OBVIOUS
<1>1. ScopesInv
  BY ScopesInitInv DEF ConfigInit
<1>2. NoOrigins \in Origins
  BY DEF NoOrigins, Origins
<1>3. TypeInv
  <2>1. fields \in [Fields -> Values] /\ \A f \in Fields : fields[f] = "unread"
    BY DEF ConfigInit, Values
  <2>2. fields["TOKEN_ENDPOINT"] = "unread" /\ fields["RESOURCE"] = "unread"
    BY <2>1 DEF Fields
  <2>3. pc \in Phases /\ scopes \in Seq(Names)
    BY DEF ConfigInit, Phases
  <2>4. /\ fromEnv \in BOOLEAN /\ signer \in BOOLEAN /\ kind \in {Secret, Signing}
        /\ origins \in Origins /\ pc = "start" /\ outcome = "none"
    BY <1>2 DEF ConfigInit
  <2> QED
    BY <2>1, <2>2, <2>3, <2>4 DEF TypeInv, Unread
<1>4. EnvInv /\ TrustInv
  BY DEF ConfigInit, EnvInv, TrustInv, Fields
<1> QED
  BY <1>1, <1>3, <1>4 DEF ConfigInv

\* The loop over the scopes goes on as in Scopes, call after call.
LEMMA ScopesStep == ConfigInv /\ [ConfigNext]_allVars => ScopesInv'
<1> SUFFICES ASSUME ConfigInv, [ConfigNext]_allVars PROVE ScopesInv'
  OBVIOUS
<1>1. CASE UNCHANGED scopesVars
  BY <1>1, ScopesInvStep DEF ConfigInv
<1>2. CASE ReadScopes
  <2>1. SplitInputs \subseteq Inputs
    BY DEF SplitInputs
  <2>2. ScopesNext
    BY <1>2, <2>1 DEF ReadScopes, ScopesNext
  <2> QED
    BY <2>2, ScopesInvStep DEF ConfigInv
<1>3. CASE BuildScopes
  BY <1>3, ScopesInvStep DEF BuildScopes, ScopesNext, ConfigInv
<1>4. CASE ScopesBuilt
  <2>1. /\ entries' = <<>> /\ i' = 1 /\ seen' = {} /\ ordered' = <<>>
        /\ building' = "idle"
    BY <1>4 DEF ScopesBuilt
  <2> QED
    BY <2>1 DEF ScopesInv, ScopesTypeOK, SeenInv, OrderInv, EndInv
<1>5. UNCHANGED scopesVars \/ ReadScopes \/ BuildScopes \/ ScopesBuilt
  BY DEF ConfigNext, allVars, FromEnv, BadPrefix, Required, ScopesRefused, ReadMethod,
         ReadKeyFile, Explicitly, GiveFields, MakeSigner, MakeIdentity, ReadOrigins,
         MakeAgent, Constructed
<1> QED
  BY <1>1, <1>2, <1>3, <1>4, <1>5

\* Reading a field changes that field and no other.
LEMMA FoundSets ==
  ASSUME TypeInv, NEW f \in Fields, NEW v, Found(f, v)
  PROVE  fields'[f] = v /\ \A g \in Fields \ {f} : fields'[g] = fields[g]
  BY DEF TypeInv, Found

--------------------------------------------------------------------------------
(***************************************************************************)
(* One lemma for each action.                                              *)
(***************************************************************************)

\* from_env begins with nothing read.
LEMMA FromEnvStep == ConfigInv /\ FromEnv => (TypeInv /\ EnvInv /\ TrustInv)'
<1> SUFFICES ASSUME TypeInv, EnvInv, TrustInv, ScopesInv, FromEnv
             PROVE  TypeInv' /\ EnvInv' /\ TrustInv'
  BY DEF ConfigInv
<1>1. TypeInv'
  BY DEF TypeInv, FromEnv, Phases, Fields, Unread, Values, Origins, Nothing,
         ScopesInv, ScopesTypeOK
<1>2. EnvInv'
  BY DEF TypeInv, FromEnv, Fields, EnvInv, ReadInv, MethodInv, EndsInv, Held,
         Unread, Targets, ForSigning, Nothing, Secret, Signing
<1>3. TrustInv'
  BY DEF TypeInv, TrustInv, EnvInv, ReadInv, Held, FromEnv, Destined, Fields,
         Targets, Nothing
<1> QED
  BY <1>1, <1>2, <1>3

\* A prefix that is refused reads nothing.
LEMMA BadPrefixStep == ConfigInv /\ BadPrefix => (TypeInv /\ EnvInv /\ TrustInv)'
<1> SUFFICES ASSUME TypeInv, EnvInv, TrustInv, ScopesInv, BadPrefix
             PROVE  TypeInv' /\ EnvInv' /\ TrustInv'
  BY DEF ConfigInv
<1>1. TypeInv'
  BY DEF TypeInv, BadPrefix, Raise, Phases, Fields, Unread, Values, Origins,
         Nothing, ScopesInv, ScopesTypeOK
<1>2. EnvInv'
  BY DEF TypeInv, BadPrefix, Raise, Fields, EnvInv, ReadInv, MethodInv, EndsInv,
         Held, Unread, Targets, ForSigning, Nothing, Secret, Signing
<1>3. TrustInv'
  BY DEF TypeInv, TrustInv, EnvInv, ReadInv, Held, BadPrefix, Raise, Destined,
         Fields, Targets, Nothing
<1> QED
  BY <1>1, <1>2, <1>3

\* The scopes are taken after what every identity needs.
LEMMA ReadScopesStep == ConfigInv /\ ReadScopes => (TypeInv /\ EnvInv /\ TrustInv)'
<1> SUFFICES ASSUME TypeInv, EnvInv, TrustInv, ScopesInv, ReadScopes
             PROVE  TypeInv' /\ EnvInv' /\ TrustInv'
  BY DEF ConfigInv
<1>1. TypeInv'
  BY DEF TypeInv, ReadScopes, Goto, Phases, Fields, Unread, Values, Origins,
         Nothing, ScopesInv, ScopesTypeOK
<1>2. EnvInv'
  BY DEF TypeInv, ReadScopes, Goto, Fields, EnvInv, ReadInv, MethodInv, EndsInv,
         Held, Unread, Targets, ForSigning, Nothing, Secret, Signing
<1>3. TrustInv'
  BY DEF TypeInv, TrustInv, EnvInv, ReadInv, Held, ReadScopes, Goto, Destined,
         Fields, Targets, Nothing
<1> QED
  BY <1>1, <1>2, <1>3

\* The loop over the scopes touches nothing else.
LEMMA BuildScopesStep == ConfigInv /\ BuildScopes => (TypeInv /\ EnvInv /\ TrustInv)'
<1> SUFFICES ASSUME TypeInv, EnvInv, TrustInv, ScopesInv, BuildScopes
             PROVE  TypeInv' /\ EnvInv' /\ TrustInv'
  BY DEF ConfigInv
<1>1. TypeInv'
  BY DEF TypeInv, BuildScopes, configVars, Phases, Fields, Unread, Values,
         Origins, Nothing, ScopesInv, ScopesTypeOK
<1>2. EnvInv'
  BY DEF TypeInv, BuildScopes, configVars, Fields, EnvInv, ReadInv, MethodInv,
         EndsInv, Held, Unread, Targets, ForSigning, Nothing, Secret, Signing
<1>3. TrustInv'
  BY DEF TypeInv, TrustInv, EnvInv, ReadInv, Held, BuildScopes, configVars,
         Destined, Fields, Targets, Nothing
<1> QED
  BY <1>1, <1>2, <1>3

\* With the scopes built the method is read next.
LEMMA ScopesBuiltStep == ConfigInv /\ ScopesBuilt => (TypeInv /\ EnvInv /\ TrustInv)'
<1> SUFFICES ASSUME TypeInv, EnvInv, TrustInv, ScopesInv, ScopesBuilt
             PROVE  TypeInv' /\ EnvInv' /\ TrustInv'
  BY DEF ConfigInv
<1>1. TypeInv'
  BY DEF TypeInv, ScopesBuilt, Phases, Fields, Unread, Values, Origins, Nothing,
         ScopesInv, ScopesTypeOK
<1>2. EnvInv'
  BY DEF TypeInv, ScopesBuilt, Fields, EnvInv, ReadInv, MethodInv, EndsInv,
         Held, Unread, Targets, ForSigning, Nothing, Secret, Signing
<1>3. TrustInv'
  BY DEF TypeInv, TrustInv, EnvInv, ReadInv, Held, ScopesBuilt, Destined,
         Fields, Targets, Nothing
<1> QED
  BY <1>1, <1>2, <1>3

\* A broad scope ends the construction.
LEMMA ScopesRefusedStep == ConfigInv /\ ScopesRefused => (TypeInv /\ EnvInv /\ TrustInv)'
<1> SUFFICES ASSUME TypeInv, EnvInv, TrustInv, ScopesInv, ScopesRefused
             PROVE  TypeInv' /\ EnvInv' /\ TrustInv'
  BY DEF ConfigInv
<1>1. TypeInv'
  BY DEF TypeInv, ScopesRefused, Raise, Phases, Fields, Unread, Values, Origins,
         Nothing, ScopesInv, ScopesTypeOK
<1>2. EnvInv'
  BY DEF TypeInv, ScopesRefused, Raise, Fields, EnvInv, ReadInv, MethodInv,
         EndsInv, Held, Unread, Targets, ForSigning, Nothing, Secret, Signing
<1>3. TrustInv'
  BY DEF TypeInv, TrustInv, EnvInv, ReadInv, Held, ScopesRefused, Raise,
         Destined, Fields, Targets, Nothing
<1> QED
  BY <1>1, <1>2, <1>3

\* The method decides the kind, and what is read from here on.
LEMMA ReadMethodStep == ConfigInv /\ ReadMethod => (TypeInv /\ EnvInv /\ TrustInv)'
<1> SUFFICES ASSUME TypeInv, EnvInv, TrustInv, ScopesInv, ReadMethod
             PROVE  TypeInv' /\ EnvInv' /\ TrustInv'
  BY DEF ConfigInv
<1>1. TypeInv'
  BY DEF TypeInv, ReadMethod, Raise, Goto, Found, Phases, Fields, Unread,
         Values, Origins, Nothing, ScopesInv, ScopesTypeOK
<1>2. EnvInv'
  <2>1. PICK v \in {"unset", Secret, Signing, "other"} :
          /\ Found("AUTH_METHOD", v)
          /\ \/ pc' = "done" /\ outcome' = "config_error" /\ kind' = kind
             \/ v = Secret /\ kind' = Secret /\ pc' = "CLIENT_SECRET" /\ outcome' = outcome
             \/ v # Secret /\ kind' = Signing /\ pc' = "ASSERTION_AUDIENCE" /\ outcome' = outcome
    BY DEF ReadMethod, Raise, Goto, Secret, Signing
  <2>2. /\ fields'["AUTH_METHOD"] = v
        /\ \A g \in Fields \ {"AUTH_METHOD"} : fields'[g] = fields[g]
    BY <2>1, FoundSets DEF Fields
  <2>3. fromEnv' = fromEnv /\ signer' = signer /\ pc = "AUTH_METHOD" /\ outcome = "none"
    BY DEF ReadMethod, Raise, Goto, TypeInv
  <2>4. ASSUME fromEnv PROVE ReadInv' /\ EndsInv'
    BY <2>1, <2>2, <2>3, <2>4 DEF EnvInv, ReadInv, EndsInv, Held, Unread,
           Targets, ForSigning, Fields
  <2>5. ASSUME fromEnv PROVE MethodInv'
    BY <2>1, <2>2, <2>3, <2>5 DEF EnvInv, ReadInv, MethodInv, Held, Unread,
           Targets, ForSigning, Fields
  <2> QED
    BY <2>3, <2>4, <2>5 DEF EnvInv
<1>3. TrustInv'
  BY DEF TypeInv, TrustInv, EnvInv, ReadInv, Held, ReadMethod, Raise, Goto,
         Found, Destined, Fields, Targets, Nothing
<1> QED
  BY <1>1, <1>2, <1>3

\* By now the identity lacks nothing but the key.
LEMMA ReadKeyFileStep == ConfigInv /\ ReadKeyFile => (TypeInv /\ EnvInv /\ TrustInv)'
<1> SUFFICES ASSUME TypeInv, EnvInv, TrustInv, ScopesInv, ReadKeyFile
             PROVE  TypeInv' /\ EnvInv' /\ TrustInv'
  BY DEF ConfigInv
<1>1. TypeInv'
  BY DEF TypeInv, ReadKeyFile, Raise, Goto, Found, Phases, Fields, Unread,
         Values, Origins, Nothing, ScopesInv, ScopesTypeOK
<1>2. EnvInv'
  <2>1. PICK v \in {"missing", "empty", "key"} : Found("KEY_FILE", v)
    BY DEF ReadKeyFile
  <2>2. /\ fields'["KEY_FILE"] = v
        /\ \A g \in Fields \ {"KEY_FILE"} : fields'[g] = fields[g]
    BY <2>1, FoundSets DEF Fields
  <2>3. /\ fromEnv' = fromEnv /\ signer' = signer /\ kind' = kind /\ pc = "KEY_FILE"
        /\ \/ pc' = "done" /\ outcome' = "config_error"
           \/ pc' = "signer" /\ outcome' = "none"
    BY DEF ReadKeyFile, Raise, Goto, TypeInv
  <2>4. ASSUME fromEnv PROVE ReadInv' /\ MethodInv'
    BY <2>2, <2>3, <2>4 DEF EnvInv, ReadInv, MethodInv, Held, Unread, Targets,
           ForSigning, Fields
  <2>5. ASSUME fromEnv PROVE EndsInv'
    BY <2>2, <2>3, <2>5 DEF EnvInv, ReadInv, MethodInv, EndsInv, Held, Unread,
           Targets, ForSigning, Fields
  <2> QED
    BY <2>3, <2>4, <2>5 DEF EnvInv
<1>3. TrustInv'
  BY DEF TypeInv, TrustInv, EnvInv, ReadInv, Held, ReadKeyFile, Raise, Goto,
         Found, Destined, Fields, Targets, Nothing
<1> QED
  BY <1>1, <1>2, <1>3

\* The explicit constructors have no environment.
LEMMA ExplicitlyStep == ConfigInv /\ Explicitly => (TypeInv /\ EnvInv /\ TrustInv)'
<1> SUFFICES ASSUME TypeInv, EnvInv, TrustInv, ScopesInv, Explicitly
             PROVE  TypeInv' /\ EnvInv' /\ TrustInv'
  BY DEF ConfigInv
<1>1. TypeInv'
  BY DEF TypeInv, Explicitly, Goto, Phases, Fields, Unread, Values, Origins,
         Nothing, ScopesInv, ScopesTypeOK
<1>2. EnvInv'
  BY DEF TypeInv, Explicitly, Goto, Fields, EnvInv, ReadInv, MethodInv, EndsInv,
         Held, Unread, Targets, ForSigning, Nothing, Secret, Signing
<1>3. TrustInv'
  BY DEF TypeInv, TrustInv, EnvInv, ReadInv, Held, Explicitly, Goto, Destined,
         Fields, Targets, Nothing
<1> QED
  BY <1>1, <1>2, <1>3

\* Explicit fields are of either kind of identity.
LEMMA GiveFieldsStep == ConfigInv /\ GiveFields => (TypeInv /\ EnvInv /\ TrustInv)'
<1> SUFFICES ASSUME TypeInv, EnvInv, TrustInv, ScopesInv, GiveFields
             PROVE  TypeInv' /\ EnvInv' /\ TrustInv'
  BY DEF ConfigInv
<1>0. PICK id \in {"blank"} \cup Texts("CLIENT_ID"), e \in {"blank"} \cup Urls,
           r \in {"blank"} \cup Urls, t \in {"blank", "text"}, k \in {"unset", "text"} :
        fields' = [fields EXCEPT !["CLIENT_ID"] = id, !["TOKEN_ENDPOINT"] = e,
                     !["RESOURCE"] = r, !["KEY_ID"] = k,
                     !["CLIENT_SECRET"] = t, !["ASSERTION_AUDIENCE"] = t]
  BY DEF GiveFields
<1>a. /\ fields' \in [Fields -> Values]
      /\ fields'["CLIENT_ID"] = id /\ fields'["TOKEN_ENDPOINT"] = e
      /\ fields'["RESOURCE"] = r /\ fields'["KEY_ID"] = k
      /\ fields'["CLIENT_SECRET"] = t /\ fields'["ASSERTION_AUDIENCE"] = t
      /\ \A f \in {"AUTH_METHOD", "PRIVATE_KEY_PATH", "KEY_FILE", "RESOURCE_ORIGINS"} :
           fields'[f] = fields[f]
  <2>1. id \in Values /\ e \in Values /\ r \in Values /\ t \in Values /\ k \in Values
    BY DEF Values, Nothing, Texts
  <2> QED
    BY <1>0, <2>1 DEF TypeInv, Fields
<1>1. TypeInv'
  <2>1. \A f \in Fields : fields'[f] \in {"unread"} \cup Nothing \cup Texts(f)
                         \cup {Secret, Signing, "other", "missing", "empty", "key"}
    BY <1>a DEF TypeInv, Fields, Texts, Nothing
  <2>2. \A f \in {"TOKEN_ENDPOINT", "RESOURCE"} : fields'[f] \in {"unread"} \cup Nothing \cup Urls
    BY <1>a DEF Nothing
  <2>3. /\ kind' \in {Secret, Signing} /\ signer' \in BOOLEAN
        /\ pc' \in {"signer", "identity"}
        /\ UNCHANGED <<fromEnv, origins, scopes, outcome>> /\ outcome = "none"
    BY DEF GiveFields, TypeInv
  <2>4. pc' \in Phases
    BY <2>3 DEF Phases
  <2> QED
    BY <1>a, <2>1, <2>2, <2>3, <2>4 DEF TypeInv
<1>2. EnvInv'
  BY DEF TypeInv, GiveFields, Fields, EnvInv, ReadInv, MethodInv, EndsInv, Held,
         Unread, Targets, ForSigning, Nothing, Secret, Signing
<1>3. TrustInv'
  <2>1. r # "unread"
    BY UrlsAssumption
  <2>2. pc' \in {"signer", "identity"} /\ trusted' = trusted
        /\ outcome = "none" /\ outcome' = outcome
    BY DEF GiveFields, TypeInv
  <2> QED
    BY <1>a, <2>1, <2>2 DEF TrustInv
<1> QED
  BY <1>1, <1>2, <1>3

\* from_env has a key id here, so the signer does not refuse.
LEMMA MakeSignerStep == ConfigInv /\ MakeSigner => (TypeInv /\ EnvInv /\ TrustInv)'
<1> SUFFICES ASSUME TypeInv, EnvInv, TrustInv, ScopesInv, MakeSigner
             PROVE  TypeInv' /\ EnvInv' /\ TrustInv'
  BY DEF ConfigInv
<1>1. TypeInv'
  BY DEF TypeInv, MakeSigner, Raise, Goto, Phases, Fields, Unread, Values,
         Origins, Nothing, ScopesInv, ScopesTypeOK
<1>2. EnvInv'
  BY DEF TypeInv, MakeSigner, Raise, Goto, Fields, EnvInv, ReadInv, MethodInv,
         EndsInv, Held, Unread, Targets, ForSigning, Nothing, Secret, Signing
<1>3. TrustInv'
  BY DEF TypeInv, TrustInv, EnvInv, ReadInv, Held, MakeSigner, Raise, Goto,
         Destined, Fields, Targets, Nothing
<1> QED
  BY <1>1, <1>2, <1>3

\* from_env has every field here, so no ValueError is raised.
LEMMA MakeIdentityStep == ConfigInv /\ MakeIdentity => (TypeInv /\ EnvInv /\ TrustInv)'
<1> SUFFICES ASSUME TypeInv, EnvInv, TrustInv, ScopesInv, MakeIdentity
             PROVE  TypeInv' /\ EnvInv' /\ TrustInv'
  BY DEF ConfigInv
<1>1. TypeInv'
  BY DEF TypeInv, MakeIdentity, Raise, Goto, Incomplete, Own, Phases, Fields,
         Unread, Values, Origins, Nothing, ScopesInv, ScopesTypeOK
<1>2. EnvInv'
  BY DEF TypeInv, MakeIdentity, Raise, Goto, Incomplete, Own, Fields, EnvInv,
         ReadInv, MethodInv, EndsInv, Held, Unread, Targets, ForSigning,
         Nothing, Secret, Signing
<1>3. TrustInv'
  BY DEF TypeInv, TrustInv, EnvInv, ReadInv, Held, MakeIdentity, Raise, Goto,
         Incomplete, Own, Destined, Fields, Targets, Nothing
<1> QED
  BY <1>1, <1>2, <1>3

\* "Not given" and "given, but empty" are told apart.
LEMMA ReadOriginsStep == ConfigInv /\ ReadOrigins => (TypeInv /\ EnvInv /\ TrustInv)'
<1> SUFFICES ASSUME TypeInv, EnvInv, TrustInv, ScopesInv, ReadOrigins
             PROVE  TypeInv' /\ EnvInv' /\ TrustInv'
  BY DEF ConfigInv
<1>1. TypeInv'
  <2>1. PICK v \in {"unset", "text", "other"} : Found("RESOURCE_ORIGINS", v)
    BY DEF ReadOrigins
  <2>2. v \in Values
    BY DEF Values, Nothing
  <2>3. origins' \in Origins
    BY DEF ReadOrigins, Listed, NoOrigins, Origins
  <2>4. /\ fields' \in [Fields -> Values] /\ fields'["RESOURCE_ORIGINS"] = v
        /\ \A g \in Fields \ {"RESOURCE_ORIGINS"} : fields'[g] = fields[g]
    BY <2>1, <2>2, FoundSets DEF Fields, TypeInv, Found
  <2>5. /\ pc = "RESOURCE_ORIGINS" /\ pc' = "agent" /\ pc' \in Phases
        /\ UNCHANGED <<fromEnv, signer, kind, scopes, outcome>>
    BY DEF ReadOrigins, Phases, Fields
  <2>6. v \in Nothing \cup Texts("RESOURCE_ORIGINS") \cup {"other"}
    BY DEF Nothing, Texts
  <2>7. \A f \in Fields : fields'[f] \in {"unread"} \cup Nothing \cup Texts(f)
                         \cup {Secret, Signing, "other", "missing", "empty", "key"}
    BY <2>4, <2>6 DEF TypeInv
  <2>8. \A f \in {"TOKEN_ENDPOINT", "RESOURCE"} : fields'[f] = fields[f]
    BY <2>4 DEF Fields
  <2> QED
    BY <2>3, <2>4, <2>5, <2>7, <2>8 DEF TypeInv
<1>2. EnvInv'
  BY DEF TypeInv, ReadOrigins, Found, Listed, NoOrigins, Fields, EnvInv,
         ReadInv, MethodInv, EndsInv, Held, Unread, Targets, ForSigning,
         Nothing, Secret, Signing
<1>3. TrustInv'
  BY DEF TypeInv, TrustInv, EnvInv, ReadInv, Held, ReadOrigins, Found, Listed,
         NoOrigins, Destined, Fields, Targets, Nothing
<1> QED
  BY <1>1, <1>2, <1>3

\* The agent trusts what was checked.
LEMMA MakeAgentStep == ConfigInv /\ MakeAgent => (TypeInv /\ EnvInv /\ TrustInv)'
<1> SUFFICES ASSUME TypeInv, EnvInv, TrustInv, ScopesInv, MakeAgent
             PROVE  TypeInv' /\ EnvInv' /\ TrustInv'
  BY DEF ConfigInv
<1>1. TypeInv'
  BY DEF TypeInv, MakeAgent, Raise, Phases, Fields, Unread, Values, Origins,
         Nothing, ScopesInv, ScopesTypeOK
<1>2. EnvInv'
  BY DEF TypeInv, MakeAgent, Raise, Fields, EnvInv, ReadInv, MethodInv, EndsInv,
         Held, Unread, Targets, ForSigning, Nothing, Secret, Signing
<1>3. TrustInv'
  <2>1. Destined' = Destined
    BY DEF MakeAgent, Raise, Destined
  <2>2. /\ UNCHANGED <<fields, origins>> /\ pc = "agent" /\ pc' = "done"
        /\ outcome = "none" /\ trusted = {}
    BY DEF MakeAgent, Raise, TypeInv, TrustInv
  <2>3. \/ outcome' = "config_error" /\ trusted' = trusted
        \/ /\ outcome' = "agent" /\ trusted' = {Origin(Parts[u]) : u \in Destined}
           /\ \A u \in Destined : ~Refused(Parts[u])
    BY DEF MakeAgent, Raise
  <2> QED
    BY <2>1, <2>2, <2>3 DEF TrustInv
<1> QED
  BY <1>1, <1>2, <1>3

\* A required variable is held when the next one is read.
LEMMA RequiredStep ==
  ASSUME ConfigInv, NEW f \in Fields, Required(f)
  PROVE  (TypeInv /\ EnvInv /\ TrustInv)'
<1> DEFINE Needed == {"CLIENT_ID", "TOKEN_ENDPOINT", "RESOURCE", "CLIENT_SECRET",
                      "ASSERTION_AUDIENCE", "PRIVATE_KEY_PATH", "KEY_ID"}
<1>1. TypeInv /\ EnvInv /\ TrustInv
  BY DEF ConfigInv
<1>2. PICK v \in Nothing \cup Texts(f) :
        /\ Found(f, v)
        /\ \/ v \in Nothing /\ pc' = "done" /\ outcome' = "config_error" /\ kind' = kind
           \/ v \notin Nothing /\ pc' = After(f) /\ outcome' = outcome /\ kind' = kind
  BY DEF Required, Missing, Raise, Goto
<1>3. pc = f /\ f \in Needed
  BY DEF Required, Fields
<1>4. /\ UNCHANGED <<fromEnv, signer, origins, scopes, trusted>>
      /\ outcome = "none" /\ fromEnv
  BY <1>1, <1>3 DEF Required, Raise, Goto, TypeInv
<1>5. v \in Values /\ v # "unread"
  BY <1>2, TextsAreHeld DEF Values, Nothing
<1>6. fields'[f] = v /\ \A g \in Fields \ {f} : fields'[g] = fields[g]
  BY <1>1, <1>2, FoundSets
<1>7. fields' \in [Fields -> Values]
  BY <1>1, <1>2, <1>5 DEF TypeInv, Found
<1>8. TypeInv'
  <2>1. pc' \in Phases
    BY <1>2, <1>3 DEF After, Phases, Fields
  <2>2. /\ \A g \in Fields : fields'[g] \in {"unread"} \cup Nothing \cup Texts(g)
                         \cup {Secret, Signing, "other", "missing", "empty", "key"}
        /\ \A g \in {"TOKEN_ENDPOINT", "RESOURCE"} :
             fields'[g] \in {"unread"} \cup Nothing \cup Urls
    BY <1>1, <1>2, <1>6 DEF TypeInv, Texts, Fields
  <2>3. pc' # "start"
    BY <1>2, <1>3 DEF After
  <2> QED
    BY <1>1, <1>2, <1>4, <1>7, <2>1, <2>2, <2>3 DEF TypeInv
<1>9. EnvInv'
  <2>1. f # "KEY_FILE" /\ f # "AUTH_METHOD"
    BY <1>3
  <2>2. ReadInv /\ MethodInv /\ EndsInv
    BY <1>1, <1>4 DEF EnvInv
  <2>3. ReadInv'
    BY <1>2, <1>3, <1>4, <1>5, <1>6, <2>2
       DEF ReadInv, After, Held, Unread, Targets, ForSigning, Fields
  <2>4. MethodInv'
    BY <1>1, <1>2, <1>3, <1>4, <1>5, <1>6, <2>2
       DEF ReadInv, MethodInv, After, Held, Unread, Targets, ForSigning, Fields,
           TypeInv, Secret, Signing
  <2>5. EndsInv'
    BY <1>2, <1>3, <1>4, <1>5, <1>6, <2>2
       DEF EndsInv, Held, Unread, Targets, ForSigning, Fields
  <2> QED
    BY <1>4, <2>3, <2>4, <2>5 DEF EnvInv
<1>10. TrustInv'
  <2>1. pc' \in {"signer", "identity"} => fields'["RESOURCE"] # "unread"
    BY <1>1, <1>2, <1>3, <1>4, <1>6 DEF After, EnvInv, ReadInv, Held, Targets,
           Fields, Nothing
  <2>2. pc' \notin {"RESOURCE_ORIGINS", "agent"} /\ outcome' # "agent"
    BY <1>2, <1>3, <1>4 DEF After
  <2> QED
    BY <1>1, <1>4, <2>1, <2>2 DEF TrustInv
<1> QED
  BY <1>8, <1>9, <1>10

\* No step, whichever order the calls are made in, breaks the invariant.
LEMMA ConfigInvStep == ConfigInv /\ [ConfigNext]_allVars => ConfigInv'
<1> SUFFICES ASSUME ConfigInv, [ConfigNext]_allVars PROVE ConfigInv'
  OBVIOUS
<1>1. ScopesInv'
  BY ScopesStep
<1>2. CASE UNCHANGED configVars
  <2>1. TypeInv' /\ EnvInv' /\ TrustInv'
    BY <1>2 DEF configVars, ConfigInv, TypeInv, EnvInv, ReadInv, MethodInv,
           EndsInv, TrustInv,
                Held, Unread, Destined
  <2> QED
    BY <1>1, <2>1 DEF ConfigInv
<1>3. ASSUME NEW f \in Fields, Required(f) PROVE ConfigInv'
  BY <1>1, <1>3, RequiredStep DEF ConfigInv
<1>4. CASE \/ FromEnv \/ BadPrefix \/ ReadScopes \/ ScopesBuilt \/ ScopesRefused
           \/ ReadMethod \/ ReadKeyFile
  BY <1>1, <1>4, FromEnvStep, BadPrefixStep, ReadScopesStep, ScopesBuiltStep,
     ScopesRefusedStep, ReadMethodStep, ReadKeyFileStep DEF ConfigInv
<1>5. CASE \/ Explicitly \/ GiveFields \/ MakeSigner \/ MakeIdentity \/ ReadOrigins
           \/ MakeAgent
  BY <1>1, <1>5, ExplicitlyStep, GiveFieldsStep, MakeSignerStep, MakeIdentityStep,
     ReadOriginsStep, MakeAgentStep DEF ConfigInv
<1>6. CASE BuildScopes \/ Constructed \/ UNCHANGED allVars
  BY <1>2, <1>6 DEF BuildScopes, Constructed, allVars, configVars
<1> QED
  BY <1>3, <1>4, <1>5, <1>6 DEF ConfigNext

\* Two URLs that neither check refuses have one origin just when they lead to
\* one server.
LEMMA OriginIsServer ==
  ASSUME NEW u \in UrlRecords, NEW v \in UrlRecords, u.port # 0, v.port # 0
  PROVE  Origin(u) = Origin(v) <=> SameServer(u, v)
  BY DEF Origin, SameServer, TcpPort, UrlRecords

\* A list of trusted URLs names URLs.
LEMMA ListedAreUrls ==
  ConfigInv => \A k \in 1..Len(origins.list) : origins.list[k] \in Urls
<1> SUFFICES ASSUME ConfigInv PROVE \A k \in 1..Len(origins.list) : origins.list[k] \in Urls
  OBVIOUS
<1>1. CASE origins.list \in OriginLists
  <2>1. origins.list \in Seq(Urls)
    BY <1>1, OriginListsAssumption
  <2> QED
    BY <2>1
<1>2. CASE origins.list = <<>>
  BY <1>2
<1> QED
  BY <1>1, <1>2 DEF ConfigInv, TypeInv, Origins

\* The servers of an agent are those of the URLs stated.
LEMMA InvIsTrust == ConfigInv => TrustsStatedServersOnly
<1> SUFFICES ASSUME ConfigInv, outcome = "agent", NEW u \in Urls
             PROVE  /\ Admits(u) => \E d \in Stated : SameServer(Parts[u], Parts[d])
                    /\ (Parts[u].flaw \in {"none", "hash"}
                         /\ \E d \in Stated : SameServer(Parts[u], Parts[d])) => Admits(u)
  BY DEF TrustsStatedServersOnly
<1>1. /\ Stated = Destined
      /\ \A d \in Destined : ~Refused(Parts[d])
      /\ trusted = {Origin(Parts[d]) : d \in Destined}
  BY DEF ConfigInv, TrustInv, Stated, Destined
<1>2. Destined \subseteq Urls
  BY ListedAreUrls DEF ConfigInv, TrustInv, Destined
<1>3. \A d \in Urls : Parts[d] \in UrlRecords
  BY UrlsAssumption
<1>4. \A d \in Urls : ~Refused(Parts[d]) => Parts[d].port # 0
  BY DEF Refused
<1>5. ASSUME Admits(u) PROVE \E d \in Stated : SameServer(Parts[u], Parts[d])
  <2>1. PICK d \in Destined : Origin(Parts[u]) = Origin(Parts[d])
    BY <1>1, <1>5 DEF Admits
  <2>2. ~Refused(Parts[u])
    BY <1>5 DEF Admits
  <2> QED
    BY <1>1, <1>2, <1>3, <1>4, <2>1, <2>2, OriginIsServer
<1>6. ASSUME Parts[u].flaw \in {"none", "hash"}, NEW d \in Stated, SameServer(Parts[u], Parts[d])
      PROVE  Admits(u)
  <2>1. d \in Urls /\ ~Refused(Parts[d])
    BY <1>1, <1>2
  <2>2. ~Refused(Parts[u])
    BY <1>3, <1>6, <2>1 DEF Refused, SameServer, TcpPort, DefaultPort, NoPort
  <2> QED
    BY <1>1, <1>3, <1>4, <1>6, <2>1, <2>2, OriginIsServer DEF Admits
<1> QED
  BY <1>5, <1>6

--------------------------------------------------------------------------------
(***************************************************************************)
(* Theorems.                                                               *)
(***************************************************************************)

\* The invariant holds of every construction.
THEOREM ConfigInvariance == ConfigSpec => []ConfigInv
  BY ConfigInitInv, ConfigInvStep, PTL DEF ConfigSpec

\* Type correctness: the values read, the scopes built and the origins trusted
\* are of their kinds however many there are.
THEOREM ConfigTypeCorrect == ConfigSpec => []ConfigTypeOK
<1>1. ConfigInv => ConfigTypeOK
  <2> SUFFICES ASSUME ConfigInv PROVE ConfigTypeOK
    OBVIOUS
  <2>1. \A o \in trusted : \E u \in Urls : o = Origin(Parts[u])
    BY ListedAreUrls DEF ConfigInv, TrustInv, Destined
  <2> QED
    BY <2>1 DEF ConfigInv, ScopesInv, TypeInv, ConfigTypeOK
<1> QED
  BY <1>1, ConfigInvariance, PTL

\* A key file is opened only for a signing identity that is otherwise complete.
THEOREM KeyFileLast == ConfigSpec => []KeyFileIsReadLast
<1>1. ConfigInv => KeyFileIsReadLast
  BY DEF ConfigInv, EnvInv, EndsInv, KeyFileIsReadLast, Held, Unread, Own,
         Targets, Secret, Signing
<1> QED
  BY <1>1, ConfigInvariance, PTL

\* from_env raises the SDK's own exceptions, whatever the environment holds.
THEOREM EnvErrorsAreTyped == ConfigSpec => []EnvRaisesMudraIDErrors
<1>1. ConfigInv => EnvRaisesMudraIDErrors
  BY DEF ConfigInv, EnvInv, EndsInv, EnvRaisesMudraIDErrors
<1> QED
  BY <1>1, ConfigInvariance, PTL

\* from_env never falls back to the other kind of identity.
THEOREM NoFallback == ConfigSpec => []NoOtherIdentity
<1>1. ConfigInv => NoOtherIdentity
  BY DEF ConfigInv, EnvInv, EndsInv, NoOtherIdentity, Unread, ForSigning
<1> QED
  BY <1>1, ConfigInvariance, PTL

\* An agent trusts exactly the servers of the URLs it was given.
THEOREM TrustIsStated == ConfigSpec => []TrustsStatedServersOnly
  BY InvIsTrust, ConfigInvariance, PTL

\* The scopes of every identity built hold each scope named, once.
THEOREM ConfigBuildsExactly == ConfigSpec => []BuiltIsWhatWasNamed
<1>1. ConfigInv => BuiltIsWhatWasNamed
  BY InvIsExact DEF ConfigInv
<1> QED
  BY <1>1, ConfigInvariance, PTL

\* And in the order of their first mention.
THEOREM ConfigKeepsOrder == ConfigSpec => []FirstSeenOrder
<1>1. ConfigInv => FirstSeenOrder
  BY InvIsOrdered DEF ConfigInv
<1> QED
  BY <1>1, ConfigInvariance, PTL
================================================================================
