---------------------------- MODULE Configuration ----------------------------
(***************************************************************************)
(* The start-up of the provider: LoadConfig and validate of                *)
(* provider/config.go, New of provider.go, loadKey of keys.go and Init of  *)
(* the eSignet adapter; then what a provider that started has in effect,   *)
(* for its own lifetime: the checks of acquire on a grant, the channels it *)
(* advertises, and the collections it took over from its caller.           *)
(*                                                                         *)
(* A configuration comes from a document or is built by the embedding      *)
(* program, which may go on writing to the slices and the map in it.       *)
(* Settings that are checked by their form alone are abstracted to whether *)
(* they pass; the ones that others depend on have values.                  *)
(***************************************************************************)
EXTENDS Integers, Sequences, FiniteSets, FiniteSetsExt

CONSTANTS
  Configs,      \* the configurations that documents and programs may hold
  Documents,    \* the files that configurations may come from
  Rewrites,     \* those whose collections a program may write over its own
  KeyFiles,     \* the contents that private_key_file may have
  SecretSizes,  \* the sizes that psut_secret_file may have, -1 when unreadable
  Grants,       \* the values that expires_in may have
  Second,       \* time.Second: units of time.Duration in a second
  MaxInt        \* the largest int64

\* "absent" is the empty string or a missing setting, "blank" one of spaces only,
\* "bad_field" a name with other characters than a field may have.
Psut == "psut"  \* "$psut"
Blanks == {"absent", "blank"}
FieldNames == {"uin", "status", "full_name", "born", "bad_field"}
ClaimNames == {"absent", "sub", "name", "birth", "iss"}
KeyIds == {"absent", "k1", "k2"}
Endpoints == {"token_endpoint", "assertion_audience", "base_url"}

\* The larger limits of validate and parseScope.
TokenCacheLimit == 86400
ResponseLimit == 16777216
ScopeTextLimit == 4096

\* The settings that validate checks by their form alone.
FormChecked == {"psut_secret_file", "client_id", "private_key_file", "route", "selector", "resource"}
\* The settings that the caller shares with the configuration it passes.
Collections == {"claim_map", "provisioned_fields", "account_check_fields", "scopes"}

\* A scope token: its length, and whether its characters are those of RFC 6749.
Token == [name : Nat, len : Nat, clean : BOOLEAN]

ClaimMap == UNION {[D -> FieldNames \cup {Psut}] : D \in SUBSET ClaimNames}

Config == [
  malformed : SUBSET FormChecked,
  endpoints : [Endpoints -> {"https", "http", "other"}],
  allow_insecure_http : BOOLEAN,
  subject_id_type : {"absent", "blank", "uin", "vid"},
  key_id : KeyIds,
  assertion_ttl_seconds : Int,
  token_cache_max_seconds : Int,
  timeout_seconds : Int,
  max_response_bytes : Int,
  scopes : Seq(Token),
  provisioned_fields : SUBSET FieldNames,
  account_check_fields : SUBSET FieldNames,
  selector_field : FieldNames \cup {"absent"},
  claim_map : ClaimMap,
  static_otp_enabled : BOOLEAN,
  static_otp_file : {"absent", "missing", "blank", "code"},
  mailpit_enabled : BOOLEAN,
  mailpit_host : {"mailpit", "loopback", "other"},
  mailpit_port : Int,
  mailpit_mail_form : BOOLEAN,
  ca_file : {"absent", "missing", "invalid", "pem"}]

\* What LoadConfig reads beside the settings: the size of the file, -1 when
\* there is none, its top-level keys, and how many documents it holds.
Document == [size : Int, keys : SUBSET {"breg", "mint", "unknown"}, count : Nat]
KnownKeys == {"breg"}

\* A key file: PEM or JWK, whether it parses to a consistent key, and the key.
KeyFile == [
  form : {"pem", "jwk"}, sound : BOOLEAN,
  kty : {"RSA", "EC", "OKP"}, bits : Nat, crv : {"P256", "P384"},
  alg : {"absent", "RS256", "ES256"}, use : {"absent", "sig", "enc"},
  kid : KeyIds, key_ops : Seq({"sign", "verify"})]

ASSUME ConfigurationAssumption ==
  /\ Configs \subseteq Config
  /\ Documents \subseteq Document
  /\ Rewrites \subseteq Config
  /\ KeyFiles \subseteq KeyFile
  /\ SecretSizes \subseteq Int
  /\ Grants \subseteq Int
  /\ Second \in Nat \ {0}
  /\ MaxInt \in Nat
  /\ TokenCacheLimit * Second <= MaxInt

VARIABLES
  stage,     \* given, loaded, running or failed
  held,      \* the configuration in the caller's hands
  verifier,  \* of the provider: injected, mailpit or static
  config,    \* of the provider: its copy
  detached,  \* the collections that it copied rather than shared
  key,       \* of the provider: the signing key, its alg and its kid
  adapter    \* identifierType and channels of the eSignet adapter

vars == <<stage, held, verifier, config, detached, key, adapter>>

-----------------------------------------------------------------------------
ReadBounded(size, limit) == size \in 0..limit
HasTopLevelKey(d, name) == d.count >= 1 /\ name \in d.keys

ValidField(f) == f # "bad_field"
ReservedClaim(c) == c = "iss"
ValidScopeToken(t) == t.len > 0 /\ t.clean

\* The length of the tokens joined by one space each.
Joined(s) == MapThenSumSet(LAMBDA i : s[i].len, DOMAIN s) + Len(s) - 1

\* Mutant: only the number and the size of the tokens are limited.
ValidScopesUnjoined(s) ==
  /\ Len(s) \in 1..32
  /\ \A i \in DOMAIN s : s[i].len <= 256 /\ ValidScopeToken(s[i])
  /\ \A i, j \in DOMAIN s : s[i] = s[j] => i = j

ValidScopes(s) ==
  /\ Len(s) \in 1..32
  /\ \A i \in DOMAIN s : s[i].len <= 256 /\ ValidScopeToken(s[i])
  /\ \A i, j \in DOMAIN s : s[i] = s[j] => i = j
  /\ Joined(s) <= ScopeTextLimit

ParseScope(s) ==
  /\ s # <<>>
  /\ Joined(s) <= ScopeTextLimit
  /\ \A i \in DOMAIN s : ValidScopeToken(s[i])

\* What stands for a setting that is absent, and what is assumed for it.
Absent == [subject_id_type |-> "absent", account_check_fields |-> {}, selector_field |-> "absent",
           assertion_ttl_seconds |-> 0, token_cache_max_seconds |-> 0,
           timeout_seconds |-> 0, max_response_bytes |-> 0]
Assumed == [subject_id_type |-> "uin", account_check_fields |-> {"uin", "status"},
            selector_field |-> "uin",
            assertion_ttl_seconds |-> 120, token_cache_max_seconds |-> 300,
            timeout_seconds |-> 10, max_response_bytes |-> 1048576]

Defaults(c) ==
  [f \in DOMAIN c |-> IF f \in DOMAIN Absent /\ c[f] = Absent[f] THEN Assumed[f] ELSE c[f]]

ValidNumbers(c) ==
  /\ c.assertion_ttl_seconds \in 1..300
  /\ c.token_cache_max_seconds \in 1..TokenCacheLimit
  /\ c.timeout_seconds \in 1..120
  /\ c.max_response_bytes \in 1..ResponseLimit

ValidEndpoint(e, insecure) == e = "https" \/ (insecure /\ e = "http")

ValidMailpitAddress(host, port) == host \in {"mailpit", "loopback"} /\ port \in 1..65535

ValidDemo(c) ==
  /\ c.static_otp_enabled => c.static_otp_file # "absent" /\ ~c.mailpit_enabled
  /\ c.mailpit_enabled => /\ ValidMailpitAddress(c.mailpit_host, c.mailpit_port)
                          /\ c.mailpit_mail_form

\* Mutant: the selector need not be among the fields that the check reads back.
ValidFieldsUnselected(c) ==
  /\ c.provisioned_fields # {}
  /\ c.account_check_fields # {}
  /\ c.account_check_fields \subseteq c.provisioned_fields
  /\ \A f \in c.provisioned_fields : ValidField(f)
  /\ ValidField(c.selector_field)

ValidFields(c) ==
  /\ c.provisioned_fields # {}
  /\ c.account_check_fields # {}
  /\ c.account_check_fields \subseteq c.provisioned_fields
  /\ \A f \in c.provisioned_fields : ValidField(f)
  /\ c.selector_field \in c.account_check_fields

ValidClaimMap(m) ==
  \A k \in DOMAIN m :
    /\ k \notin Blanks /\ ~ReservedClaim(k)
    /\ m[k] = Psut \/ ValidField(m[k])
    /\ k = "sub" => m[k] = Psut

Valid(c) ==
  /\ c.malformed = {}
  /\ c.subject_id_type \notin Blanks
  /\ c.key_id \notin Blanks
  /\ \A e \in Endpoints : ValidEndpoint(c.endpoints[e], c.allow_insecure_http)
  /\ ValidNumbers(c)
  /\ ValidScopes(c.scopes)
  /\ ValidDemo(c)
  /\ ValidFields(c)
  /\ ValidClaimMap(c.claim_map)

-----------------------------------------------------------------------------
(***************************************************************************)
(* loadKey.  A JWK names its algorithm and its kid; a PEM file has neither *)
(* and takes the kid of the configuration.                                 *)
(***************************************************************************)
JwkAdmitted(f, kid) ==
  /\ f.use \in {"absent", "sig"}
  /\ f.kid \notin Blanks
  /\ kid # "absent" => kid = f.kid
  /\ f.key_ops \in {<<>>, <<"sign">>}
  /\ \/ f.kty = "RSA" /\ f.alg = "RS256"
     \/ f.kty = "EC" /\ f.alg = "ES256" /\ f.crv = "P256"

StrongEnough(f) ==
  \/ f.kty = "RSA" /\ f.bits >= 2048
  \/ f.kty = "EC" /\ f.crv = "P256"

KidOf(f, kid) == IF f.form = "jwk" THEN f.kid ELSE kid

KeyLoads(f, kid) ==
  /\ f.sound
  /\ f.form = "jwk" => JwkAdmitted(f, kid)
  /\ StrongEnough(f)
  /\ KidOf(f, kid) \notin Blanks

\* Mutant: an EC key from a PEM file keeps the algorithm that was assumed.
AssertionKeyOfForm(f, kid) ==
  [kty |-> f.kty, kid |-> KidOf(f, kid), alg |-> IF f.form = "jwk" THEN f.alg ELSE "RS256"]

AssertionKey(f, kid) ==
  [kty |-> f.kty, kid |-> KidOf(f, kid), alg |-> IF f.kty = "EC" THEN "ES256" ELSE "RS256"]

-----------------------------------------------------------------------------
(***************************************************************************)
(* The parts of New that depend on files and options.  An injected         *)
(* verifier goes before the ones for demonstration.                        *)
(***************************************************************************)
Verifiers(c, injected) ==
  IF injected THEN {"injected"}
  ELSE IF c.mailpit_enabled THEN {"mailpit"}
  ELSE IF c.static_otp_enabled /\ c.static_otp_file = "code" THEN {"static"}
  ELSE {}

FilesLoad(c, f, secret) ==
  /\ ReadBounded(secret, 4096) /\ secret >= 32
  /\ KeyLoads(f, c.key_id)
  /\ c.ca_file \in {"absent", "pem"}

\* Mutant: every verifier is offered every channel.
SupportedOTPChannelsAll(c) == {"email", "phone"}

SupportedOTPChannels(c) == IF c.mailpit_enabled THEN {"email"} ELSE {"email", "phone"}

\* The sets of channels with which Provider.SendOTP and the verifier send.
Sendable(v) ==
  IF v = "mailpit" THEN {{"email"}} ELSE (SUBSET {"email", "phone"}) \ {{}}

\* The assertion made at second t: the key decides how it is signed.
SignedWith(kty) == IF kty = "RSA" THEN "RS256" ELSE "ES256"

Assertion(t) ==
  [alg |-> key.alg, kid |-> key.kid, signed |-> SignedWith(key.kty),
   iat |-> t, exp |-> t + config.assertion_ttl_seconds]

\* The value of a collection that the provider sees: its own, or the caller's.
InEffect(name) == IF name \in detached THEN config[name] ELSE held[name]

\* Arithmetic of int64: what does not fit wraps around.
Wrap(n) == ((n + MaxInt + 1) % (2 * (MaxInt + 1))) - (MaxInt + 1)

Cap(n) == IF n > config.token_cache_max_seconds THEN config.token_cache_max_seconds ELSE n

\* Mutant: the lifetime is a duration before it is capped.
LifetimeUncapped(n) ==
  LET d == Wrap(n * Second)
      cap == config.token_cache_max_seconds * Second
  IN  IF d > cap THEN cap ELSE d

Lifetime(n) == Wrap(Cap(n) * Second)

\* The checks of acquire on a scope member; an answer without one passes.
Covers(granted) ==
  /\ ParseScope(granted)
  /\ \A i \in DOMAIN InEffect("scopes") :
       \E j \in DOMAIN granted : granted[j] = InEffect("scopes")[i]

NoAdapter == [identifierType |-> "absent", channels |-> {}]
NoKey == [kty |-> "absent", kid |-> "absent", alg |-> "absent"]

-----------------------------------------------------------------------------
Init ==
  /\ stage = "given"
  /\ held \in Configs
  /\ verifier = "none"
  /\ config = held
  /\ detached = {}
  /\ key = NoKey
  /\ adapter = NoAdapter

\* LoadConfig of the file that REGISTRY_ESIGNET_CONFIG_FILE names.
LoadConfig(d) ==
  LET readable == /\ ReadBounded(d.size, 1048576)
                  /\ ~HasTopLevelKey(d, "mint")
                  /\ d.keys \subseteq KnownKeys
                  /\ d.count = 1
  IN
  /\ stage = "given"
  /\ IF readable /\ Valid(Defaults(held))
     THEN stage' = "loaded" /\ held' = Defaults(held)
     ELSE stage' = "failed" /\ UNCHANGED held
  /\ UNCHANGED <<verifier, config, detached, key, adapter>>

\* Mutant: the account check fields are shared with the caller.
CopiedPartly == Collections \ {"account_check_fields"}

\* New copies the map and the slices.
Copied == Collections

(***************************************************************************)
(* New, from a loaded configuration or from one that a program built.      *)
(***************************************************************************)
NewStarts(f, secret, injected) ==
  LET c == Defaults(held) IN
  /\ stage \in {"given", "loaded"}
  /\ Valid(c)
  /\ FilesLoad(c, f, secret)
  /\ verifier' \in Verifiers(c, injected)
  /\ stage' = "running"
  /\ config' = c
  /\ detached' = Copied
  /\ key' = AssertionKey(f, c.key_id)
  /\ UNCHANGED held

NewFails(f, secret, injected) ==
  LET c == Defaults(held) IN
  /\ stage \in {"given", "loaded"}
  /\ ~Valid(c) \/ ~FilesLoad(c, f, secret) \/ Verifiers(c, injected) = {}
  /\ stage' = "failed"
  /\ UNCHANGED <<held, verifier, config, detached, key>>

\* An embedding program calls New; it alone can inject a verifier.
Embed(f, secret, injected) ==
  /\ NewStarts(f, secret, injected) \/ NewFails(f, secret, injected)
  /\ UNCHANGED adapter

\* Init of the adapter: LoadConfigFromEnv, then New without options.
AdapterInit(f, secret) ==
  /\ stage = "loaded"
  /\ \/ /\ NewStarts(f, secret, FALSE)
        /\ adapter' = [identifierType |-> held.subject_id_type,
                       channels |-> SupportedOTPChannels(config')]
     \/ /\ NewFails(f, secret, FALSE)
        /\ UNCHANGED adapter

\* The program writes to a slice or to the map of the configuration it holds.
CallerWrites(name, c) ==
  /\ stage = "running"
  /\ held' = [held EXCEPT ![name] = c[name]]
  /\ UNCHANGED <<stage, verifier, config, detached, key, adapter>>

Next ==
  \/ \E d \in Documents : LoadConfig(d)
  \/ \E f \in KeyFiles, n \in SecretSizes :
       AdapterInit(f, n) \/ \E i \in BOOLEAN : Embed(f, n, i)
  \/ \E name \in Collections, c \in Rewrites : CallerWrites(name, c)

Spec == Init /\ [][Next]_vars

-----------------------------------------------------------------------------
Running == stage = "running"

(***************************************************************************)
(* Types of Config, Provider, assertionKey and authenticator; no provider  *)
(* is there without a verifier and a key.                                  *)
(***************************************************************************)
TypeOK ==
  /\ stage \in {"given", "loaded", "running", "failed"}
  /\ held \in Config
  /\ verifier \in {"none", "injected", "mailpit", "static"}
  /\ config \in Config
  /\ detached \subseteq Collections
  /\ Running => verifier # "none" /\ key # NoKey
  /\ key \in [kty : {"absent", "RSA", "EC"}, kid : KeyIds, alg : {"absent", "RS256", "ES256"}]
  /\ adapter \in [identifierType : {"absent", "uin", "vid"}, channels : SUBSET {"email", "phone"}]

(***************************************************************************)
(* What the rest of the provider relies on while it runs, whatever its     *)
(* caller does to the configuration: the account check asks for the field  *)
(* that it compares with the identifier, all of its fields are provisioned *)
(* ones, and "sub" is pairwise; the cap and the timeout are positive.      *)
(***************************************************************************)
FitForService ==
  Running =>
    /\ config.selector_field \in InEffect("account_check_fields")
    /\ InEffect("account_check_fields") \subseteq InEffect("provisioned_fields")
    /\ "sub" \in DOMAIN InEffect("claim_map") => InEffect("claim_map")["sub"] = Psut
    /\ config.token_cache_max_seconds > 0 /\ config.timeout_seconds > 0

(***************************************************************************)
(* "resource, and scopes remain fixed for the lifetime of the provider",   *)
(* and so does every other collection: no write of the caller reaches it.  *)
(***************************************************************************)
FixedForLife ==
  [][Running =>
       /\ Running'
       /\ \A name \in Collections : InEffect(name)' = InEffect(name)]_vars

(***************************************************************************)
(* A token is kept for as long as it was granted for or as the cap allows, *)
(* in exact arithmetic, however large expires_in is.                       *)
(***************************************************************************)
LifetimeExact ==
  Running =>
    \A n \in Grants : n > 0 =>
      /\ Lifetime(n) \in {n * Second, config.token_cache_max_seconds * Second}
      /\ Lifetime(n) <= n * Second
      /\ Lifetime(n) <= config.token_cache_max_seconds * Second

(***************************************************************************)
(* An issuer that answers with the very scopes it was asked for is never   *)
(* refused: what validate admits as a list, parseScope admits as a string. *)
(***************************************************************************)
EchoIsAccepted ==
  Running => Covers(InEffect("scopes"))

(***************************************************************************)
(* The adapter calls the provider with the identifier type that it expects *)
(* and with channels on which its verifier sends: no code would ever be    *)
(* mailed otherwise, and every sign-in would fail.                         *)
(***************************************************************************)
AdapterCanSend ==
  adapter # NoAdapter =>
    /\ adapter.identifierType = config.subject_id_type
    /\ adapter.channels \in Sendable(verifier)

(***************************************************************************)
(* Assertions are signed with the algorithm and under the key ID that      *)
(* their header names, which is the configured one, for PEM and JWK alike, *)
(* and are good for some time, but for no more than five minutes.          *)
(***************************************************************************)
SignatureFitsHeader ==
  Running =>
    LET a == Assertion(0) IN
    /\ a.alg = a.signed
    /\ a.kid = config.key_id
    /\ a.iat < a.exp /\ a.exp <= a.iat + 300

(***************************************************************************)
(* Whatever starts can serve: its fields fit each other, its issuer's echo *)
(* is accepted and its tokens are kept for their time, its adapter can     *)
(* send, and its assertions can be verified.                               *)
(***************************************************************************)
ReadyForService ==
  FitForService /\ LifetimeExact /\ EchoIsAccepted /\ AdapterCanSend /\ SignatureFitsHeader

=============================================================================
