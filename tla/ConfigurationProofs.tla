------------------------- MODULE ConfigurationProofs -------------------------
(***************************************************************************)
(* What every start-up guarantees, for any set of configurations, key      *)
(* files, secrets and lifetimes, from ConfigurationAssumption alone.       *)
(***************************************************************************)
EXTENDS Configuration, TLAPS

\* The widths that the assumption speaks of are those of Go: the largest cap,
\* in nanoseconds, is a time.Duration.
LEMMA WidthsOfGo == TokenCacheLimit * 1000000000 <= 9223372036854775807
BY SMT DEF TokenCacheLimit

\* defaults() leaves the types of the settings as they are.
LEMMA DefaultsType ==
  ASSUME NEW c \in Config
  PROVE  Defaults(c) \in Config
<1> DEFINE d == Defaults(c)
<1>1. d = [f \in DOMAIN c |-> d[f]]
  BY SMT DEF Defaults
<1>2. \A f \in DOMAIN c : d[f] \in {c[f], Assumed[f]} /\ (f \notin DOMAIN Absent => d[f] = c[f])
  BY SMT DEF Defaults
<1> QED
  BY <1>1, <1>2, SMTT(60) DEF Config, Absent, Assumed, FieldNames

\* LoadConfig and New both call defaults(): the second call changes nothing.
LEMMA DefaultsIdempotent ==
  ASSUME NEW c \in Config
  PROVE  Defaults(Defaults(c)) = Defaults(c)
BY SMTT(60) DEF Defaults, Absent, Assumed

\* A number that fits is itself.
LEMMA NoWrap ==
  ASSUME NEW n \in 0..MaxInt
  PROVE  Wrap(n) = n
BY SMT, ConfigurationAssumption DEF Wrap

\* Seconds as a duration keep their order.
LEMMA SecondsMonotone ==
  ASSUME NEW a \in Nat, NEW b \in Nat, a <= b
  PROVE  a * Second \in Nat /\ a * Second <= b * Second
<1>1. Second \in Nat
  BY ConfigurationAssumption
<1>2. PICK d \in Nat : b = a + d
  <2>1. b - a \in Nat /\ b = a + (b - a)
    BY SMT
  <2> QED
    BY <2>1
<1>3. b * Second = a * Second + d * Second
  BY <1>1, <1>2, SMT
<1>4. a * Second \in Nat /\ d * Second \in Nat
  BY <1>1, SMT
<1> QED
  BY <1>3, <1>4, SMT

\* A list of scopes that validate admits is a string that parseScope admits.
LEMMA ListIsString ==
  ASSUME NEW s \in Seq(Token), ValidScopes(s)
  PROVE  ParseScope(s)
<1>1. Len(s) \in 1..32 /\ Joined(s) <= ScopeTextLimit /\ \A i \in DOMAIN s : ValidScopeToken(s[i])
  BY DEF ValidScopes
<1>2. s # <<>>
  <2>1. Len(s) \in 1..32
    BY <1>1
  <2>2. Len(<<>>) = 0 /\ 0 \notin 1..32
    BY SMT
  <2> QED
    BY <2>1, <2>2
<1> QED
  BY <1>1, <1>2 DEF ParseScope

\* A key that loads under a kid of the configuration carries that kid, and the
\* algorithm of its type.
LEMMA LoadedKeyFits ==
  ASSUME NEW f \in KeyFile, NEW kid \in KeyIds, KeyLoads(f, kid), kid \notin Blanks
  PROVE  LET k == AssertionKey(f, kid) IN
         /\ k \in [kty : {"RSA", "EC"}, kid : KeyIds, alg : {"RS256", "ES256"}]
         /\ k.kid = kid
         /\ k.alg = (IF k.kty = "RSA" THEN "RS256" ELSE "ES256")
<1>1. f.kty \in {"RSA", "EC"}
  BY SMT DEF KeyLoads, StrongEnough
<1>2. KidOf(f, kid) = kid
  BY SMT DEF KeyLoads, JwkAdmitted, KidOf, Blanks, KeyFile
<1> QED
  BY <1>1, <1>2, SMT DEF AssertionKey

-----------------------------------------------------------------------------
(***************************************************************************)
(* The inductive invariant: what was loaded is valid, what runs was        *)
(* validated and copied and signs with a key of its own, and the adapter   *)
(* has its settings from the provider that runs.                           *)
(***************************************************************************)
LoadedInv == stage = "loaded" => Valid(held) /\ Defaults(held) = held

RunningInv ==
  Running =>
    /\ Valid(config)
    /\ detached = Collections
    /\ verifier = "mailpit" => config.mailpit_enabled
    /\ key.kid = config.key_id
    /\ key.kty \in {"RSA", "EC"}
    /\ key.alg = (IF key.kty = "RSA" THEN "RS256" ELSE "ES256")

AdapterInv ==
  adapter # NoAdapter =>
    /\ Running
    /\ adapter.identifierType = config.subject_id_type
    /\ adapter.channels = SupportedOTPChannels(config)

Inv == TypeOK /\ LoadedInv /\ RunningInv /\ AdapterInv

LEMMA InitInv == Init => Inv
<1> SUFFICES ASSUME Init PROVE Inv
  OBVIOUS
<1>1. held \in Config /\ config \in Config
  BY ConfigurationAssumption DEF Init
<1>2. TypeOK
  BY <1>1, SMT DEF Init, TypeOK, Running, NoKey, NoAdapter, KeyIds
<1> QED
  BY <1>2 DEF Init, Inv, LoadedInv, RunningInv, AdapterInv, Running

LEMMA LoadConfigInv ==
  ASSUME Inv, NEW d \in Documents, LoadConfig(d)
  PROVE  Inv'
<1>1. held' \in Config
  BY DefaultsType DEF Inv, TypeOK, LoadConfig
<1>2. stage' \in {"loaded", "failed"} /\ stage = "given"
  BY DEF LoadConfig
<1>3. UNCHANGED <<verifier, config, detached, key, adapter>>
  BY DEF LoadConfig
<1>4. TypeOK'
  BY <1>1, <1>2, <1>3, SMT DEF Inv, TypeOK, Running
<1>5. LoadedInv'
  BY <1>2, DefaultsIdempotent DEF LoadConfig, LoadedInv, Inv, TypeOK
<1>6. RunningInv' /\ AdapterInv'
  BY <1>2, <1>3 DEF Inv, RunningInv, AdapterInv, Running
<1> QED
  BY <1>4, <1>5, <1>6 DEF Inv

\* A start: everything but the adapter's part.
LEMMA NewStartsInv ==
  ASSUME Inv, NEW f \in KeyFiles, NEW n \in SecretSizes, NEW i \in BOOLEAN, NewStarts(f, n, i),
         adapter' \in [identifierType : {"absent", "uin", "vid"}, channels : SUBSET {"email", "phone"}]
  PROVE  TypeOK' /\ LoadedInv' /\ RunningInv'
<1> DEFINE c == Defaults(held)
<1>1. c \in Config
  BY DefaultsType DEF Inv, TypeOK
<1>2. f \in KeyFile
  BY ConfigurationAssumption
<1>3. c.key_id \in KeyIds /\ c.key_id \notin Blanks
  <2>1. Valid(c)
    BY DEF NewStarts
  <2> QED
    BY <1>1, <2>1, SMT DEF Config, Valid
<1>4. KeyLoads(f, c.key_id)
  BY DEF NewStarts, FilesLoad
<1>5. key' = AssertionKey(f, c.key_id)
  BY DEF NewStarts
<1>6. /\ key' \in [kty : {"RSA", "EC"}, kid : KeyIds, alg : {"RS256", "ES256"}]
      /\ key'.kid = c.key_id
      /\ key'.alg = (IF key'.kty = "RSA" THEN "RS256" ELSE "ES256")
  <2> HIDE DEF c
  <2> QED
    BY <1>2, <1>3, <1>4, <1>5, LoadedKeyFits
<1>7. /\ stage' = "running" /\ config' = c /\ detached' = Collections /\ held' = held
      /\ Valid(c)
  BY DEF NewStarts, Copied
<1>8. /\ verifier' \in {"injected", "mailpit", "static"}
      /\ verifier' = "mailpit" => c.mailpit_enabled
  <2>1. verifier' \in Verifiers(c, i)
    BY DEF NewStarts
  <2> HIDE DEF c
  <2> QED
    BY <2>1, SMT DEF Verifiers
<1> HIDE DEF c
<1>9. TypeOK'
  BY <1>1, <1>6, <1>7, <1>8, SMT DEF Inv, TypeOK, Running, NoKey
<1>10. LoadedInv' /\ RunningInv'
  BY <1>6, <1>7, <1>8, SMT DEF LoadedInv, RunningInv, Running
<1> QED
  BY <1>9, <1>10

LEMMA NewFailsInv ==
  ASSUME Inv, NEW f \in KeyFiles, NEW n \in SecretSizes, NEW i \in BOOLEAN, NewFails(f, n, i),
         UNCHANGED adapter
  PROVE  Inv'
<1>1. /\ stage' = "failed" /\ stage \in {"given", "loaded"}
      /\ UNCHANGED <<held, verifier, config, detached, key, adapter>>
  BY DEF NewFails
<1>2. TypeOK'
  BY <1>1, SMT DEF Inv, TypeOK, Running
<1> QED
  BY <1>1, <1>2 DEF Inv, LoadedInv, RunningInv, AdapterInv, Running

LEMMA EmbedInv ==
  ASSUME Inv, NEW f \in KeyFiles, NEW n \in SecretSizes, NEW i \in BOOLEAN, Embed(f, n, i)
  PROVE  Inv'
<1>1. UNCHANGED adapter
  BY DEF Embed
<1>2. CASE NewFails(f, n, i)
  BY <1>1, <1>2, NewFailsInv
<1>3. CASE NewStarts(f, n, i)
  <2>1. TypeOK' /\ LoadedInv' /\ RunningInv'
    BY <1>1, <1>3, NewStartsInv DEF Inv, TypeOK
  <2>2. ~Running
    BY <1>3 DEF NewStarts, Running
  <2> QED
    BY <1>1, <2>1, <2>2 DEF Inv, AdapterInv
<1> QED
  BY <1>2, <1>3 DEF Embed

LEMMA AdapterInitInv ==
  ASSUME Inv, NEW f \in KeyFiles, NEW n \in SecretSizes, AdapterInit(f, n)
  PROVE  Inv'
<1>1. CASE NewFails(f, n, FALSE) /\ UNCHANGED adapter
  BY <1>1, NewFailsInv
<1>2. CASE /\ NewStarts(f, n, FALSE)
           /\ adapter' = [identifierType |-> held.subject_id_type,
                          channels |-> SupportedOTPChannels(config')]
  <2>1. held \in Config /\ Valid(held) /\ Defaults(held) = held
    BY DEF AdapterInit, Inv, LoadedInv, TypeOK
  <2>2. held.subject_id_type \in {"uin", "vid"}
    BY <2>1, SMT DEF Config, Valid, Blanks
  <2>3. SupportedOTPChannels(config') \in SUBSET {"email", "phone"}
    BY DEF SupportedOTPChannels
  <2>4. adapter' \in [identifierType : {"absent", "uin", "vid"}, channels : SUBSET {"email", "phone"}]
    BY <1>2, <2>2, <2>3, SMT
  <2>5. TypeOK' /\ LoadedInv' /\ RunningInv'
    BY <1>2, <2>4, NewStartsInv
  <2>6. config' = held /\ stage' = "running"
    BY <1>2, <2>1 DEF NewStarts
  <2>7. AdapterInv'
    BY <1>2, <2>6 DEF AdapterInv, Running, SupportedOTPChannels
  <2> QED
    BY <2>5, <2>7 DEF Inv
<1> QED
  BY <1>1, <1>2 DEF AdapterInit

LEMMA CallerWritesInv ==
  ASSUME Inv, NEW name \in Collections, NEW c \in Rewrites, CallerWrites(name, c)
  PROVE  Inv'
<1>1. /\ held' = [held EXCEPT ![name] = c[name]]
      /\ UNCHANGED <<stage, verifier, config, detached, key, adapter>>
      /\ stage = "running"
  BY DEF CallerWrites
<1>2. c \in Config /\ held \in Config
  BY ConfigurationAssumption DEF Inv, TypeOK
<1>3. held' \in Config
  BY <1>1, <1>2, SMTT(60) DEF Config, Collections
<1>4. TypeOK'
  BY <1>1, <1>3, SMT DEF Inv, TypeOK, Running
<1> QED
  BY <1>1, <1>4 DEF Inv, LoadedInv, RunningInv, AdapterInv, Running

LEMMA StepInv == Inv /\ [Next]_vars => Inv'
<1> SUFFICES ASSUME Inv, [Next]_vars PROVE Inv'
  OBVIOUS
<1>1. ASSUME NEW d \in Documents, LoadConfig(d) PROVE Inv'
  BY <1>1, LoadConfigInv
<1>2. ASSUME NEW f \in KeyFiles, NEW n \in SecretSizes, AdapterInit(f, n) PROVE Inv'
  BY <1>2, AdapterInitInv
<1>3. ASSUME NEW f \in KeyFiles, NEW n \in SecretSizes, NEW i \in BOOLEAN, Embed(f, n, i)
      PROVE Inv'
  BY <1>3, EmbedInv
<1>4. ASSUME NEW name \in Collections, NEW c \in Rewrites, CallerWrites(name, c) PROVE Inv'
  BY <1>4, CallerWritesInv
<1>5. CASE UNCHANGED vars
  BY <1>5 DEF Inv, TypeOK, LoadedInv, RunningInv, AdapterInv, Running, vars
<1> QED
  BY <1>1, <1>2, <1>3, <1>4, <1>5 DEF Next

\* The invariant behind all of the following holds in every run.
THEOREM Invariance == Spec => []Inv
BY InitInv, StepInv, PTL DEF Spec

\* Types of the provider, its key and the adapter.
THEOREM TypeCorrect == Spec => []TypeOK
<1>1. Inv => TypeOK
  BY DEF Inv
<1> QED
  BY <1>1, Invariance, PTL

-----------------------------------------------------------------------------
\* What the rest of the provider relies on holds as long as it runs.
THEOREM FitForServiceAlways == Spec => []FitForService
<1>1. Inv => FitForService
  <2> SUFFICES ASSUME Inv, Running PROVE FitForService
    BY DEF FitForService
  <2>1. Valid(config) /\ detached = Collections
    BY DEF Inv, RunningInv
  <2>2. \A name \in Collections : InEffect(name) = config[name]
    BY <2>1 DEF InEffect
  <2>3. /\ InEffect("account_check_fields") = config.account_check_fields
        /\ InEffect("provisioned_fields") = config.provisioned_fields
        /\ InEffect("claim_map") = config.claim_map
    BY <2>2 DEF Collections
  <2>4. ValidFields(config) /\ ValidClaimMap(config.claim_map) /\ ValidNumbers(config)
    BY <2>1 DEF Valid
  <2>5. config.token_cache_max_seconds > 0 /\ config.timeout_seconds > 0
    <3>1. config.token_cache_max_seconds \in 1..TokenCacheLimit /\ config.timeout_seconds \in 1..120
      BY <2>4 DEF ValidNumbers
    <3>2. \A a \in 1..TokenCacheLimit : a > 0
      BY SMT DEF TokenCacheLimit
    <3>3. \A a \in 1..120 : a > 0
      BY SMT
    <3> QED
      BY <3>1, <3>2, <3>3
  <2> QED
    BY <2>3, <2>4, <2>5 DEF FitForService, ValidFields, ValidClaimMap
<1> QED
  BY <1>1, Invariance, PTL

\* A lifetime is exact for every int64 that an issuer can answer.
THEOREM LifetimeExactAlways == Spec => []LifetimeExact
<1>1. Inv => LifetimeExact
  <2> SUFFICES ASSUME Inv, Running, NEW n \in Grants, n > 0
               PROVE  /\ Lifetime(n) \in {n * Second, config.token_cache_max_seconds * Second}
                      /\ Lifetime(n) <= n * Second
                      /\ Lifetime(n) <= config.token_cache_max_seconds * Second
    BY DEF LifetimeExact
  <2> DEFINE cap == config.token_cache_max_seconds
  <2>1. cap \in 1..TokenCacheLimit
    <3>1. ValidNumbers(config)
      BY DEF Inv, RunningInv, Valid
    <3> QED
      BY <3>1 DEF ValidNumbers
  <2>2. n \in Int /\ Second \in Nat \ {0} /\ MaxInt \in Nat /\ TokenCacheLimit * Second <= MaxInt
    BY ConfigurationAssumption
  <2>9. TokenCacheLimit \in Nat /\ TokenCacheLimit \geq 1
    BY SMT DEF TokenCacheLimit
  <2>3. Lifetime(n) = Wrap((IF n > cap THEN cap ELSE n) * Second)
    BY DEF Lifetime, Cap
  <2> HIDE DEF cap
  <2>4. ASSUME NEW m \in 1..TokenCacheLimit PROVE Wrap(m * Second) = m * Second
    <3>1. m * Second \in Nat /\ m * Second <= TokenCacheLimit * Second
      <4>1. m \in Nat /\ m <= TokenCacheLimit
        BY <2>9, SMT
      <4> QED
        BY <2>9, <4>1, SecondsMonotone
    <3>2. m * Second \in 0..MaxInt
      <4> DEFINE x == m * Second
                 y == TokenCacheLimit * Second
      <4>1. x \in Nat /\ x <= y /\ y <= MaxInt /\ MaxInt \in Nat /\ y \in Nat
        BY <2>2, <2>9, <3>1, SecondsMonotone
      <4> HIDE DEF x, y
      <4>2. x \in 0..MaxInt
        BY <4>1, SMT
      <4> QED
        BY <4>2 DEF x
    <3> QED
      BY <3>2, NoWrap
  <2>6. CASE n > cap
    <3>1. Lifetime(n) = cap * Second
      BY <2>1, <2>3, <2>4, <2>6
    <3>2. cap \in Nat /\ n \in Nat /\ cap <= n
      BY <2>1, <2>2, <2>6, <2>9, SMT
    <3>3. cap * Second <= n * Second /\ cap * Second <= cap * Second
      BY <3>2, SecondsMonotone
    <3> QED
      BY <3>1, <3>3 DEF cap
  <2>7. CASE ~(n > cap)
    <3>1. n \in 1..TokenCacheLimit /\ n \in Nat /\ cap \in Nat /\ n <= cap
      BY <2>1, <2>2, <2>7, <2>9, SMT
    <3>2. Lifetime(n) = n * Second
      BY <2>3, <2>4, <2>7, <3>1
    <3>3. n * Second <= cap * Second /\ n * Second <= n * Second
      BY <3>1, SecondsMonotone
    <3> QED
      BY <3>2, <3>3 DEF cap
  <2> QED
    BY <2>6, <2>7
<1> QED
  BY <1>1, Invariance, PTL

\* An issuer that repeats the scopes it was asked for is never refused.
THEOREM EchoIsAcceptedAlways == Spec => []EchoIsAccepted
<1>1. Inv => EchoIsAccepted
  <2> SUFFICES ASSUME Inv, Running PROVE Covers(InEffect("scopes"))
    BY DEF EchoIsAccepted
  <2>1. InEffect("scopes") = config.scopes
    BY DEF Inv, RunningInv, InEffect, Collections
  <2>2. config.scopes \in Seq(Token)
    BY SMT DEF Inv, TypeOK, Config
  <2>3. ValidScopes(config.scopes)
    BY DEF Inv, RunningInv, Valid
  <2>4. ParseScope(config.scopes)
    BY <2>2, <2>3, ListIsString
  <2> QED
    BY <2>1, <2>4 DEF Covers
<1> QED
  BY <1>1, Invariance, PTL

\* The adapter's channels and identifier type suit the provider that runs.
THEOREM AdapterCanSendAlways == Spec => []AdapterCanSend
<1>1. Inv => AdapterCanSend
  <2> SUFFICES ASSUME Inv, adapter # NoAdapter
               PROVE  /\ adapter.identifierType = config.subject_id_type
                      /\ adapter.channels \in Sendable(verifier)
    BY DEF AdapterCanSend
  <2>1. /\ adapter.identifierType = config.subject_id_type
        /\ adapter.channels = SupportedOTPChannels(config)
        /\ verifier = "mailpit" => config.mailpit_enabled
    BY DEF Inv, AdapterInv, RunningInv
  <2>2. SupportedOTPChannels(config) \in {{"email"}, {"email", "phone"}}
    BY DEF SupportedOTPChannels
  <2>3. CASE verifier = "mailpit"
    <3>1. adapter.channels = {"email"}
      BY <2>1, <2>3 DEF SupportedOTPChannels
    <3>2. Sendable(verifier) = {{"email"}}
      BY <2>3 DEF Sendable
    <3> QED
      BY <2>1, <3>1, <3>2
  <2>4. CASE verifier # "mailpit"
    <3>1. {"email"} # {} /\ {"email", "phone"} # {}
      OBVIOUS
    <3>2. Sendable(verifier) = (SUBSET {"email", "phone"}) \ {{}}
      BY <2>4 DEF Sendable
    <3>3. adapter.channels \in (SUBSET {"email", "phone"}) \ {{}}
      BY <2>1, <2>2, <3>1
    <3> QED
      BY <2>1, <3>2, <3>3
  <2> QED
    BY <2>1, <2>3, <2>4
<1> QED
  BY <1>1, Invariance, PTL

\* Every assertion is signed as its header says.
THEOREM SignatureFitsHeaderAlways == Spec => []SignatureFitsHeader
<1>1. Inv => SignatureFitsHeader
  <2> SUFFICES ASSUME Inv, Running
               PROVE  LET a == Assertion(0) IN
                      /\ a.alg = a.signed
                      /\ a.kid = config.key_id
                      /\ a.iat < a.exp /\ a.exp <= a.iat + 300
    BY DEF SignatureFitsHeader
  <2> DEFINE ttl == config.assertion_ttl_seconds
  <2>1. ttl \in 1..300
    BY DEF Inv, RunningInv, Valid, ValidNumbers
  <2>2. key.alg = SignedWith(key.kty) /\ key.kid = config.key_id
    BY DEF Inv, RunningInv, SignedWith
  <2>3. Assertion(0) = [alg |-> key.alg, kid |-> key.kid, signed |-> SignedWith(key.kty),
                        iat |-> 0, exp |-> 0 + ttl]
    BY DEF Assertion
  <2> HIDE DEF ttl
  <2>4. 0 < 0 + ttl /\ 0 + ttl <= 0 + 300
    BY <2>1, SMT
  <2> QED
    BY <2>2, <2>3, <2>4
<1> QED
  BY <1>1, Invariance, PTL

\* ReadyForService, for every configuration, key and verifier that the assumptions admit.
THEOREM ReadyForServiceAlways == Spec => []ReadyForService
  BY FitForServiceAlways, LifetimeExactAlways, EchoIsAcceptedAlways, AdapterCanSendAlways,
     SignatureFitsHeaderAlways, PTL DEF ReadyForService

\* Nothing that the caller does afterwards changes what a provider has in effect.
THEOREM FixedForLifeAlways == Spec => FixedForLife
<1> DEFINE Fixed == Running => /\ Running'
                              /\ \A name \in Collections : InEffect(name)' = InEffect(name)
<1>1. ASSUME Inv, Inv', [Next]_vars PROVE Fixed
  <2> SUFFICES ASSUME Running PROVE Fixed
    OBVIOUS
  <2>1. Running' /\ UNCHANGED <<config, detached>>
    BY <1>1 DEF Running, Next, vars, LoadConfig, AdapterInit, Embed, NewStarts, NewFails, CallerWrites
  <2>2. detached = Collections
    BY <1>1 DEF Inv, RunningInv
  <2> QED
    BY <2>1, <2>2 DEF InEffect
<1> QED
  BY <1>1, Invariance, PTL DEF Spec, FixedForLife
=============================================================================
