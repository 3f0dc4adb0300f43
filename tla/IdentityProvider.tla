-------------------------- MODULE IdentityProvider --------------------------
(***************************************************************************)
(* The identity provider itself, Provider of provider/provider.go: SendOTP *)
(* and Authenticate, which turn a verified challenge and an account check  *)
(* into a context, and GetAttributes and Subject, which restore a context  *)
(* and release the approved claims.                                        *)
(*                                                                         *)
(* Logins are invocations of Authenticate, Reads of GetAttributes and      *)
(* Subject.  The challenge verifier is OneTimeCode itself: its state and   *)
(* its steps are that specification's, which Mailpit implements and the    *)
(* static verifier of a demonstration does not.  The registry resolves the *)
(* subjects of "enrolled".  A context is named after the login that issued *)
(* it and is kept by the host, which may present it any number of times    *)
(* and under any binding, a binding (relying party, client, transaction)   *)
(* being one model value.                                                  *)
(***************************************************************************)
EXTENDS Integers

CONSTANTS
  Logins, Reads,        \* invocations
  Otps,                 \* one-time codes, each sent at most once
  Subjects, Bindings,   \* identifiers of persons; bindings
  ClaimMap,             \* claim_map: a function from claims to fields or Psut
  Psut,                 \* "$psut"
  Provisioned,          \* breg.provisioned_fields
  Approvals,            \* the sets of claims that the host may ask for
  ContextTTL,           \* contextTTL, in seconds
  PerSecond,            \* ticks of the clock in a second
  MaxSkew,              \* bound: error of the wall clock, in ticks, either way
  MaxTime,              \* bound: the clock stops here
  None

ASSUME IdentityProviderAssumption ==
  /\ ContextTTL \in Nat \ {0}
  /\ PerSecond \in Nat \ {0}
  /\ MaxSkew \in Nat
  /\ MaxTime \in Nat
  /\ Psut \notin Provisioned
  /\ None \notin Logins \cup Subjects \cup Bindings \cup Otps

VARIABLES
  elapsed,    \* true time, in ticks
  offset,     \* error of p.now(): a clock set back, or another replica's clock
  enrolled,   \* the subjects that the registry resolves
  fresh,      \* the verifier: the codes that it has not sent yet
  current,    \* ... per key, the code that may be answered
  used,       \* ... the codes that were accepted
  sentFor,    \* history: per code, the key it was sent for
  login,      \* per Authenticate: its step
  key,        \* ... the identifier and binding it was called with
  submitted,  \* ... the code it was called with
  issued,     \* ... issued_at of the context it returned, 0 while there is none
  issuedAt,   \* ... the true time of that
  accepted,   \* history: the <<login, code>> pairs that the verifier accepted
  consulted,  \* the logins that asked the token issuer or the registry
  read,       \* per GetAttributes: its step
  source,     \* ... the login whose context it was called with
  under,      \* ... the binding it was called with
  approved,   \* ... the claims it was called with
  asked,      \* ... the fields it asked the registry for
  released    \* ... the claims it returned

clockVars == <<elapsed, offset, enrolled>>
otpVars == <<fresh, current, used, sentFor, accepted>>
loginVars == <<login, key, submitted, issued, issuedAt, consulted>>
readVars == <<read, source, under, approved, asked, released>>
vars == <<clockVars, otpVars, loginVars, readVars>>

LoginOver == {"ok", "challenge_failed", "denied", "unavailable"}
ReadOver == {"ok", "bad_request", "invalid", "expired", "denied", "unavailable"}

\* What a code is bound to: mailpitKey, without the identifier type.
Key == [subject : Subjects, binding : Bindings]
NoKey == [subject |-> None, binding |-> None]
\* p.verifier, known by what it promises.
Verifier == INSTANCE OneTimeCode WITH Challenges <- Otps, Keys <- Key

\* p.now().Unix(): whole seconds of the wall clock, well past 1970.
Start == (MaxSkew + 1) * PerSecond
Unix(t, o) == (Start + t + o) \div PerSecond
Now == Unix(elapsed, offset)

-----------------------------------------------------------------------------
(***************************************************************************)
(* The projection of GetAttributes from the approved claims a.  A claim    *)
(* counts only when it is mapped to the subject identifier or to a         *)
(* provisioned field; the registry may return less than it was asked for,  *)
(* and more.                                                               *)
(***************************************************************************)
Mapped(a) == a \cap DOMAIN ClaimMap

\* What the host is told that it may ask for.
SupportedClaims == {c \in DOMAIN ClaimMap : ClaimMap[c] \in Provisioned \cup {Psut}}

FieldsOf(a) == {ClaimMap[c] : c \in Mapped(a)} \cap Provisioned

\* Mutant: every mapped claim that the registry returned is released.
ProjectedByDefault(a, returned) == {c \in DOMAIN ClaimMap : ClaimMap[c] \in returned}

Projected(a, returned) ==
  {c \in Mapped(a) : ClaimMap[c] = Psut \/ ClaimMap[c] \in FieldsOf(a) \cap returned}

\* expires_at of the context of login c.
Expires(c) == issued[c] + ContextTTL

\* Mutant: a context is honoured for the second in which it expires.
RestoredLate(c, b) ==
  IF key[c].binding # b \/ issued[c] > Now THEN "invalid"
  ELSE IF Expires(c) < Now THEN "expired"
  ELSE "valid"

\* Mutant: a context must have been issued in an earlier second.
RestoredEarly(c, b) ==
  IF key[c].binding # b \/ issued[c] >= Now THEN "invalid"
  ELSE IF Expires(c) <= Now THEN "expired"
  ELSE "valid"

(***************************************************************************)
(* restore: what becomes of the context of login c when it is presented    *)
(* under binding b.                                                        *)
(***************************************************************************)
Restored(c, b) ==
  IF key[c].binding # b \/ issued[c] > Now THEN "invalid"
  ELSE IF Expires(c) <= Now THEN "expired"
  ELSE "valid"

-----------------------------------------------------------------------------
Init ==
  /\ elapsed = 0
  /\ offset = 0
  /\ enrolled \in SUBSET Subjects
  /\ Verifier!CInit
  /\ sentFor = [o \in Otps |-> NoKey]
  /\ login = [l \in Logins |-> "idle"]
  /\ key = [l \in Logins |-> NoKey]
  /\ submitted = [l \in Logins |-> None]
  /\ issued = [l \in Logins |-> 0]
  /\ issuedAt = [l \in Logins |-> 0]
  /\ accepted = {}
  /\ consulted = {}
  /\ read = [r \in Reads |-> "idle"]
  /\ source = [r \in Reads |-> None]
  /\ under = [r \in Reads |-> None]
  /\ approved = [r \in Reads |-> {}]
  /\ asked = [r \in Reads |-> {}]
  /\ released = [r \in Reads |-> {}]

(***************************************************************************)
(* The environment: time passes, the wall clock is adjusted or another     *)
(* replica answers, a person is enrolled or removed, codes expire at the   *)
(* verifier, are lost with it or never leave it.                           *)
(***************************************************************************)
Tick ==
  /\ elapsed < MaxTime
  /\ elapsed' = elapsed + 1
  /\ UNCHANGED <<offset, enrolled, otpVars, loginVars, readVars>>

Adjust(o) ==
  /\ offset' = o
  /\ UNCHANGED <<elapsed, enrolled, otpVars, loginVars, readVars>>

Register(e) ==
  /\ enrolled' = e
  /\ UNCHANGED <<elapsed, offset, otpVars, loginVars, readVars>>

Lapse ==
  /\ \E K \in SUBSET Key, C \in SUBSET fresh : Verifier!Withdraw(K, C)
  /\ UNCHANGED <<clockVars, sentFor, accepted, loginVars, readVars>>

(***************************************************************************)
(* SendOTP.  The verifier replaces the code that is pending under the key. *)
(* Whether the caller hears of it does not matter: a code whose sending is *)
(* reported unavailable may be pending all the same.                       *)
(***************************************************************************)
SendOTP(o, k) ==
  /\ Verifier!Offer(o, k)
  /\ sentFor' = [sentFor EXCEPT ![o] = k]
  /\ UNCHANGED <<clockVars, accepted, loginVars, readVars>>

(***************************************************************************)
(* Authenticate.  The verifier decides, then the deadline of its context   *)
(* is looked at: an accepted code is spent even when the answer came late. *)
(***************************************************************************)
Move(l, from, to) ==
  /\ login[l] = from
  /\ login' = [login EXCEPT ![l] = to]

Authenticate(l, k, o) ==
  /\ Move(l, "idle", "verify")
  /\ key' = [key EXCEPT ![l] = k]
  /\ submitted' = [submitted EXCEPT ![l] = o]
  /\ UNCHANGED <<clockVars, otpVars, issued, issuedAt, consulted, readVars>>

Matches(l) == current[key[l]] = submitted[l]

\* Mutant: the code is spent by the login that succeeds, not by the verification.
VerifyKeeps(l, to) ==
  /\ to \in {"lookup", "unavailable"}
  /\ Move(l, "verify", to)
  /\ Matches(l)
  /\ accepted' = accepted \cup {<<l, submitted[l]>>}
  /\ used' = used \cup {submitted[l]}
  /\ UNCHANGED <<clockVars, fresh, current, sentFor, key, submitted, issued, issuedAt, consulted, readVars>>

\* The answer of the verifier is known in time, or the context is done.
VerifyAccepts(l, to) ==
  /\ to \in {"lookup", "unavailable"}
  /\ Move(l, "verify", to)
  /\ Matches(l)
  /\ Verifier!Use(key[l])
  /\ accepted' = accepted \cup {<<l, submitted[l]>>}
  /\ UNCHANGED <<clockVars, sentFor, key, submitted, issued, issuedAt, consulted, readVars>>

\* Mutant: only a challenge that failed stops Authenticate, not one in doubt.
VerifyLateLookup(l) ==
  /\ Move(l, "verify", "lookup")
  /\ UNCHANGED <<clockVars, otpVars, key, submitted, issued, issuedAt, consulted, readVars>>

VerifyRefuses(l) ==
  /\ Move(l, "verify", "challenge_failed")
  /\ ~Matches(l)
  /\ UNCHANGED <<clockVars, otpVars, key, submitted, issued, issuedAt, consulted, readVars>>

VerifyLate(l) ==
  /\ Move(l, "verify", "unavailable")
  /\ UNCHANGED <<clockVars, otpVars, key, submitted, issued, issuedAt, consulted, readVars>>

\* The account check: the registry resolves the subject, with every account
\* check field and the selector field as submitted, or Authenticate fails.
AccountCheck(l, to) ==
  /\ \/ to = "issue" /\ key[l].subject \in enrolled
     \/ to = "denied" /\ key[l].subject \notin enrolled
     \/ to = "unavailable"
  /\ Move(l, "lookup", to)
  /\ consulted' = consulted \cup {l}
  /\ UNCHANGED <<clockVars, otpVars, key, submitted, issued, issuedAt, readVars>>

Issue(l) ==
  /\ Move(l, "issue", "ok")
  /\ issued' = [issued EXCEPT ![l] = Now]
  /\ issuedAt' = [issuedAt EXCEPT ![l] = elapsed]
  /\ UNCHANGED <<clockVars, otpVars, key, submitted, consulted, readVars>>

(***************************************************************************)
(* GetAttributes.  A nil list of approved claims is refused before all     *)
(* else.  The context is restored once, before the lookup; no approved     *)
(* field means no lookup at all.                                           *)
(***************************************************************************)
Present(r, l, b, a) ==
  /\ read[r] = "idle"
  /\ login[l] = "ok"
  /\ source' = [source EXCEPT ![r] = l]
  /\ under' = [under EXCEPT ![r] = b]
  /\ approved' = [approved EXCEPT ![r] = a]
  /\ UNCHANGED <<clockVars, otpVars, loginVars>>

NilApproval(r, l, b) ==
  /\ Present(r, l, b, {})
  /\ read' = [read EXCEPT ![r] = "bad_request"]
  /\ UNCHANGED <<asked, released>>

RestoreFails(r, l, b, a) ==
  /\ Present(r, l, b, a)
  /\ Restored(l, b) # "valid"
  /\ read' = [read EXCEPT ![r] = Restored(l, b)]
  /\ UNCHANGED <<asked, released>>

NothingToAsk(r, l, b, a) ==
  /\ Present(r, l, b, a)
  /\ Restored(l, b) = "valid"
  /\ FieldsOf(a) = {}
  /\ read' = [read EXCEPT ![r] = "ok"]
  /\ released' = [released EXCEPT ![r] = Projected(a, {})]
  /\ UNCHANGED asked

AskRegistry(r, l, b, a) ==
  /\ Present(r, l, b, a)
  /\ Restored(l, b) = "valid"
  /\ FieldsOf(a) # {}
  /\ read' = [read EXCEPT ![r] = "lookup"]
  /\ asked' = [asked EXCEPT ![r] = FieldsOf(a)]
  /\ UNCHANGED released

\* The registry returns a part of what it was asked for, and what it was not.
Release(r, returned) ==
  /\ read[r] = "lookup"
  /\ key[source[r]].subject \in enrolled
  /\ read' = [read EXCEPT ![r] = "ok"]
  /\ released' = [released EXCEPT ![r] = Projected(approved[r], returned)]
  /\ UNCHANGED <<clockVars, otpVars, loginVars, source, under, approved, asked>>

LookupFails(r, to) ==
  /\ read[r] = "lookup"
  /\ to \in {"denied", "unavailable"}
  /\ to = "denied" => key[source[r]].subject \notin enrolled
  /\ read' = [read EXCEPT ![r] = to]
  /\ UNCHANGED <<clockVars, otpVars, loginVars, source, under, approved, asked, released>>

\* Subject restores the context like GetAttributes, and asks nobody.
Subject(r, l, b, done) ==
  /\ Present(r, l, b, {})
  /\ read' = [read EXCEPT ![r] = IF done THEN "unavailable"
                                 ELSE IF Restored(l, b) = "valid" THEN "ok" ELSE Restored(l, b)]
  /\ UNCHANGED <<asked, released>>

GetAttributes(r, l, b, a) ==
  RestoreFails(r, l, b, a) \/ NothingToAsk(r, l, b, a) \/ AskRegistry(r, l, b, a)

-----------------------------------------------------------------------------
LoginStep(l) ==
  \/ \E k \in Key, o \in Otps : Authenticate(l, k, o)
  \/ \E to \in {"lookup", "unavailable"} : VerifyAccepts(l, to)
  \/ VerifyRefuses(l) \/ VerifyLate(l)
  \/ \E to \in {"issue", "denied", "unavailable"} : AccountCheck(l, to)
  \/ Issue(l)

ReadStep(r) ==
  \/ \E l \in Logins, b \in Bindings, a \in Approvals : GetAttributes(r, l, b, a)
  \/ \E l \in Logins, b \in Bindings : NilApproval(r, l, b)
  \/ \E l \in Logins, b \in Bindings, done \in BOOLEAN : Subject(r, l, b, done)
  \/ \E returned \in SUBSET Provisioned : Release(r, returned)
  \/ \E to \in {"denied", "unavailable"} : LookupFails(r, to)

Next ==
  \/ \E l \in Logins : LoginStep(l)
  \/ \E r \in Reads : ReadStep(r)
  \/ Lapse
  \/ \E o \in Otps, k \in Key : SendOTP(o, k)
  \/ Tick
  \/ \E o \in -MaxSkew..MaxSkew : Adjust(o)
  \/ \E e \in SUBSET Subjects : Register(e)

Spec == Init /\ [][Next]_vars

-----------------------------------------------------------------------------
(***************************************************************************)
(* Types of the calls' arguments, locals and results and of the external   *)
(* parties' records (types AuthenticationRequest, authContext).            *)
(***************************************************************************)
TypeOK ==
  /\ elapsed \in Nat
  /\ offset \in -MaxSkew..MaxSkew
  /\ enrolled \subseteq Subjects
  /\ fresh \subseteq Otps
  /\ current \in [Key -> Otps \cup {None}]
  /\ used \subseteq Otps
  /\ sentFor \in [Otps -> Key \cup {NoKey}]
  /\ login \in [Logins -> {"idle", "verify", "lookup", "issue"} \cup LoginOver]
  /\ key \in [Logins -> Key \cup {NoKey}]
  /\ submitted \in [Logins -> Otps \cup {None}]
  /\ issued \in [Logins -> Nat]
  /\ issuedAt \in [Logins -> Nat]
  /\ accepted \subseteq Logins \X Otps
  /\ consulted \subseteq Logins
  /\ read \in [Reads -> {"idle", "lookup"} \cup ReadOver]
  /\ source \in [Reads -> Logins \cup {None}]
  /\ under \in [Reads -> Bindings \cup {None}]
  /\ approved \in [Reads -> Approvals \cup {{}}]
  /\ asked \in [Reads -> SUBSET Provisioned]
  /\ released \in [Reads -> SUBSET DOMAIN ClaimMap]

(***************************************************************************)
(* "A failed challenge makes no token-issuer or BREG request": whoever     *)
(* asked the registry had its own code accepted, sent for the very person  *)
(* and binding that it asks about, even while other logins use that code.  *)
(***************************************************************************)
NoLookupWithoutProof ==
  \A l \in consulted :
    /\ <<l, submitted[l]>> \in accepted
    /\ sentFor[submitted[l]] = key[l]

(***************************************************************************)
(* One code makes at most one context, however many logins submit it at    *)
(* once and however often a login is repeated after it became unavailable  *)
(* half way: an interrupted login needs a new code.                        *)
(***************************************************************************)
OneContextPerCode ==
  \A l, m \in Logins :
    /\ l # m
    /\ login[l] = "ok"
    /\ submitted[l] = submitted[m]
    => m \notin consulted

(***************************************************************************)
(* "Attribute retrieval intersects approved claim names with the claim map *)
(* and provisioned fields": nothing is asked for that was not approved,    *)
(* and nothing is released that was not asked for, whatever the registry   *)
(* returns; the subject identifier needs no asking.  What is asked for is  *)
(* all that was approved of the claims which SupportedClaims advertises,   *)
(* and nothing that it does not advertise is released.                     *)
(***************************************************************************)
ReleasedWithinApproval ==
  \A r \in Reads :
    /\ asked[r] \subseteq {ClaimMap[c] : c \in approved[r] \cap DOMAIN ClaimMap}
    /\ read[r] = "lookup" =>
         asked[r] = {ClaimMap[c] : c \in approved[r] \cap SupportedClaims} \ {Psut}
    /\ \A c \in released[r] :
         /\ c \in approved[r] \cap SupportedClaims
         /\ ClaimMap[c] \in asked[r] \cup {Psut}

(***************************************************************************)
(* "A five-minute context binds the lookup": a context is honoured only    *)
(* under its own binding and for less than contextTTL of true time, give   *)
(* or take what the wall clock was off when it was issued and restored.    *)
(***************************************************************************)
HonouredInTime ==
  [][\A r \in Reads :
       read[r] = "idle" /\ read'[r] \in {"lookup", "ok"} =>
         LET l == source'[r] IN
           /\ under'[r] = key[l].binding
           /\ elapsed - issuedAt[l] < ContextTTL * PerSecond + 2 * MaxSkew]_vars

(***************************************************************************)
(* A context is turned down under its own binding only for its age, less   *)
(* the second that the whole seconds of issued_at may cost, or because the *)
(* clock has gone back behind its issue.                                   *)
(***************************************************************************)
RefusedForCause ==
  [][\A r \in Reads :
       LET l == source'[r]
           age == elapsed - issuedAt[l]
       IN  read[r] = "idle" /\ read'[r] \in {"invalid", "expired"}
             /\ under'[r] = key[l].binding =>
               IF read'[r] = "invalid" THEN age < 2 * MaxSkew
               ELSE age + 2 * MaxSkew > (ContextTTL - 1) * PerSecond]_vars

(***************************************************************************)
(* The life of a context, from both sides.                                 *)
(***************************************************************************)
HonouredForItsTime == HonouredInTime /\ RefusedForCause

=============================================================================
