--------------------------- MODULE MCConfiguration ---------------------------
(* Configuration for TLC: a valid configuration, varied one group of        *)
(* settings at a time across each of their boundaries.                      *)
EXTENDS Configuration, TLC

Tok(n, len) == [name |-> n, len |-> len, clean |-> TRUE]
Toks(n, len) == [i \in 1..n |-> Tok(i, len)]

Base == [
  malformed |-> {}, endpoints |-> [e \in Endpoints |-> "https"], allow_insecure_http |-> FALSE,
  subject_id_type |-> "absent", key_id |-> "k1",
  assertion_ttl_seconds |-> 0, token_cache_max_seconds |-> 0,
  timeout_seconds |-> 0, max_response_bytes |-> 0,
  scopes |-> Toks(2, 13),
  provisioned_fields |-> {"uin", "status", "full_name"},
  account_check_fields |-> {}, selector_field |-> "absent",
  claim_map |-> "sub" :> Psut @@ "name" :> "full_name",
  static_otp_enabled |-> TRUE, static_otp_file |-> "code",
  mailpit_enabled |-> FALSE, mailpit_host |-> "other", mailpit_port |-> 0,
  mailpit_mail_form |-> FALSE, ca_file |-> "absent"]

ByNumbers ==
  {[Base EXCEPT !.token_cache_max_seconds = n] : n \in {-1, 1, 86400, 86401}}
  \cup {[Base EXCEPT !.assertion_ttl_seconds = n] : n \in {-1, 1, 300, 301}}
  \cup {[Base EXCEPT !.timeout_seconds = n] : n \in {-1, 1, 120, 121}}
  \cup {[Base EXCEPT !.max_response_bytes = n] : n \in {-1, 1, 16777216, 16777217}}

ByScopes ==
  {[Base EXCEPT !.scopes = Toks(n, l)] : n \in {0, 1, 15, 16, 32, 33}, l \in {0, 1, 127, 255, 256, 257}}
  \cup {[Base EXCEPT !.scopes = <<Tok(1, 4), Tok(1, 4)>>],
        [Base EXCEPT !.scopes = <<[Tok(1, 4) EXCEPT !.clean = FALSE]>>]}

ByFields ==
  {[Base EXCEPT !.provisioned_fields = p, !.account_check_fields = a, !.selector_field = s] :
     p \in {{}, {"uin"}, {"uin", "status", "full_name"}, {"uin", "status", "bad_field"}},
     a \in {{}, {"uin"}, {"status"}, {"uin", "born"}, {"full_name"}},
     s \in {"absent", "uin", "status", "full_name"}}

ByClaims ==
  {[Base EXCEPT !.claim_map = m] :
     m \in {<<>>, "sub" :> "uin", "iss" :> Psut, "absent" :> "uin",
            "birth" :> "born" @@ "sub" :> Psut, "name" :> "bad_field"}}

ByDemo ==
  {[Base EXCEPT !.static_otp_enabled = e, !.static_otp_file = f,
                !.mailpit_enabled = m, !.mailpit_host = "mailpit", !.mailpit_port = 1025,
                !.mailpit_mail_form = g] :
     e \in BOOLEAN, f \in {"absent", "missing", "blank", "code"}, m \in BOOLEAN, g \in BOOLEAN}
  \cup {[Base EXCEPT !.static_otp_enabled = FALSE, !.mailpit_enabled = TRUE, !.mailpit_host = h,
                     !.mailpit_port = n, !.mailpit_mail_form = TRUE] :
          h \in {"mailpit", "loopback", "other"}, n \in {0, 1, 65535, 65536}}

ByForm ==
  {[Base EXCEPT !.malformed = {x}] : x \in FormChecked}
  \cup {[Base EXCEPT !.endpoints[e] = u, !.allow_insecure_http = i] :
           e \in Endpoints, u \in {"http", "other"}, i \in BOOLEAN}
  \cup {[Base EXCEPT !.subject_id_type = t, !.key_id = k] : t \in {"absent", "blank", "vid"}, k \in KeyIds}
  \cup {[Base EXCEPT !.ca_file = a] : a \in {"missing", "invalid", "pem"}}

MCConfigs == {Base} \cup ByNumbers \cup ByScopes \cup ByFields \cup ByClaims \cup ByDemo \cup ByForm

Rsa == [form |-> "jwk", sound |-> TRUE, kty |-> "RSA", bits |-> 2048, crv |-> "P256",
        alg |-> "RS256", use |-> "absent", kid |-> "k1", key_ops |-> <<>>]
Ec == [Rsa EXCEPT !.kty = "EC", !.alg = "ES256", !.bits = 0]

MCKeyFiles ==
  {Rsa, Ec, [Rsa EXCEPT !.sound = FALSE], [Rsa EXCEPT !.bits = 2047],
   [Rsa EXCEPT !.alg = "ES256"], [Ec EXCEPT !.crv = "P384"], [Ec EXCEPT !.kty = "OKP"]}
  \cup {[k EXCEPT !.form = "pem", !.alg = "absent", !.kid = "absent"] :
           k \in {Rsa, Ec, [Rsa EXCEPT !.bits = 2047], [Ec EXCEPT !.crv = "P384"], [Ec EXCEPT !.kty = "OKP"]}}
  \cup {[Rsa EXCEPT !.kid = "absent"], [Ec EXCEPT !.kid = "k2"], [Rsa EXCEPT !.use = "enc"]}
  \cup {[Ec EXCEPT !.key_ops = o] : o \in {<<"sign">>, <<"verify">>, <<"sign", "verify">>}}

Doc == [size |-> 1000, keys |-> {"breg"}, count |-> 1]
MCDocuments ==
  {Doc, [Doc EXCEPT !.count = 2], [Doc EXCEPT !.count = 0]}
  \cup {[Doc EXCEPT !.size = n] : n \in {-1, 1048576, 1048577}}
  \cup {[Doc EXCEPT !.keys = {"breg", k}] : k \in {"mint", "unknown"}}

\* What a program may later write over the collections that it passed.
MCRewrites ==
  {[Base EXCEPT !.provisioned_fields = {"born"}, !.account_check_fields = {"status"},
                !.claim_map = "sub" :> "uin", !.scopes = Toks(17, 256)]}

MCSecretSizes == {-1, 31, 32, 4096, 4097}
MCGrants == {-1, 0, 1, 300, 301, 86400, 86401, 100000, 200001, 350000}
=============================================================================
