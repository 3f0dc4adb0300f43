----------------------- MODULE IdentityProviderProofs -----------------------
(***************************************************************************)
(* IdentityProvider for any sets of calls, codes, persons, bindings and    *)
(* claims, any lifetime, clock and skew.                                   *)
(***************************************************************************)
EXTENDS IdentityProvider, TLAPS

-----------------------------------------------------------------------------
(***************************************************************************)
(* Whole seconds of a clock: what \div loses is less than a second.        *)
(***************************************************************************)
LEMMA Product == ASSUME NEW m \in Nat, NEW n \in Nat, n > 0 PROVE m * n \in Nat /\ m <= m * n
  BY SMT

LEMMA Seconds ==
  ASSUME NEW x \in Nat
  PROVE  /\ x \div PerSecond \in Nat
         /\ (x \div PerSecond) * PerSecond <= x
         /\ x < (x \div PerSecond) * PerSecond + PerSecond
  BY IdentityProviderAssumption, SMT

LEMMA ClockIsPositive ==
  ASSUME NEW t \in Nat, NEW o \in -MaxSkew..MaxSkew
  PROVE  /\ Start + t + o \in Nat /\ Start \in Nat
         /\ Unix(t, o) \in Nat
         /\ Unix(t, o) * PerSecond <= Start + t + o
         /\ Start + t + o < Unix(t, o) * PerSecond + PerSecond
<1>1. MaxSkew + 1 <= Start /\ Start \in Nat
  BY IdentityProviderAssumption, Product DEF Start
<1>2. Start + t + o \in Nat
  BY <1>1, IdentityProviderAssumption
<1> QED
  BY <1>1, <1>2, Seconds DEF Unix

-----------------------------------------------------------------------------
(***************************************************************************)
(* The inductive invariant.  A code that was accepted can be neither sent  *)
(* nor answered any more, and names the one login that submitted it under  *)
(* its key; whoever is past the verification has such a code.  A context   *)
(* has the whole second of some clock at the time of its issue.            *)
(***************************************************************************)
Called == \A l \in Logins : login[l] # "idle" => key[l] \in Key /\ submitted[l] \in Otps

Accepted ==
  \A l \in Logins, o \in Otps : <<l, o>> \in accepted =>
    /\ login[l] \notin {"idle", "verify"}
    /\ submitted[l] = o /\ sentFor[o] = key[l]
    /\ o \notin fresh /\ \A k \in Key : current[k] # o

Once ==
  \A l, m \in Logins, o \in Otps : <<l, o>> \in accepted /\ <<m, o>> \in accepted => l = m

Proven ==
  \A l \in Logins : login[l] \in {"lookup", "issue", "ok", "denied"} \/ l \in consulted =>
    <<l, submitted[l]>> \in accepted

Issued ==
  \A l \in Logins : login[l] = "ok" =>
    /\ issuedAt[l] <= elapsed
    /\ \E o \in -MaxSkew..MaxSkew : issued[l] = Unix(issuedAt[l], o)

Keyed ==
  \A k \in Key : current[k] # None => current[k] \notin fresh /\ sentFor[current[k]] = k

Answered(r) ==
  /\ read[r] = "idle" => asked[r] = {} /\ released[r] = {}
  /\ read[r] = "lookup" => asked[r] = FieldsOf(approved[r]) /\ released[r] = {}
  /\ asked[r] \subseteq FieldsOf(approved[r])
  /\ \A c \in released[r] : c \in Mapped(approved[r]) /\ ClaimMap[c] \in asked[r] \cup {Psut}

LoginInv == Called /\ Accepted /\ Once /\ Proven
ReadInv == \A r \in Reads : Answered(r)

IInv == TypeOK /\ LoginInv /\ Keyed /\ Issued /\ ReadInv

LEMMA InitInv == Init => IInv
<1> SUFFICES ASSUME Init PROVE IInv
  OBVIOUS
<1>1. fresh = Otps /\ used = {} /\ current = [k \in Key |-> None]
  BY DEF Init, Verifier!CInit
<1>2. current \in [Key -> Otps \cup {None}] /\ \A k \in Key : current[k] = None
  BY <1>1
<1>3. TypeOK
  BY <1>1, <1>2, IdentityProviderAssumption DEF Init, TypeOK, LoginOver, ReadOver
<1>4. LoginInv
  BY DEF Init, LoginInv, Called, Accepted, Once, Proven
<1>5. Keyed
  BY <1>2 DEF Keyed
<1>6. Issued /\ ReadInv
  BY DEF Init, Issued, ReadInv, Answered
<1> QED
  BY <1>3, <1>4, <1>5, <1>6 DEF IInv

-----------------------------------------------------------------------------
\* Time, clocks and the registry touch no call.
LEMMA ClockInv ==
  ASSUME IInv, Tick \/ (\E o \in -MaxSkew..MaxSkew : Adjust(o)) \/ (\E e \in SUBSET Subjects : Register(e))
  PROVE  IInv'
<1>1. /\ elapsed' \in Nat /\ elapsed <= elapsed' /\ offset' \in -MaxSkew..MaxSkew /\ enrolled' \subseteq Subjects
      /\ UNCHANGED <<otpVars, loginVars, readVars>>
  BY DEF Tick, Adjust, Register, IInv, TypeOK
<1>2. TypeOK'
  BY <1>1 DEF IInv, TypeOK, otpVars, loginVars, readVars
<1>3. LoginInv' /\ Keyed' /\ ReadInv'
  BY <1>1 DEF IInv, LoginInv, ReadInv, Called, Accepted, Once, Proven, Keyed, Answered,
              otpVars, loginVars, readVars
<1>4. Issued'
  BY <1>1 DEF IInv, Issued, TypeOK, otpVars, loginVars, readVars
<1> QED
  BY <1>2, <1>3, <1>4 DEF IInv

LEMMA LapseInv ==
  ASSUME IInv, Lapse
  PROVE  IInv'
<1>1. /\ fresh' \subseteq fresh /\ used' = used
      /\ current' \in [Key -> Otps \cup {None}]
      /\ \A k \in Key : current'[k] \in {current[k], None}
      /\ UNCHANGED <<clockVars, sentFor, accepted, loginVars, readVars>>
  BY DEF Lapse, Verifier!Withdraw, IInv, TypeOK
<1>2. TypeOK'
  BY <1>1 DEF IInv, TypeOK, clockVars, loginVars, readVars
<1>3. Accepted'
  BY <1>1, IdentityProviderAssumption DEF IInv, TypeOK, LoginInv, Accepted, loginVars
<1>4. Called' /\ Once' /\ Proven' /\ Keyed'
  BY <1>1 DEF IInv, LoginInv, Called, Once, Proven, Keyed, loginVars
<1>5. ReadInv' /\ Issued'
  BY <1>1 DEF IInv, ReadInv, Answered, Issued, readVars, loginVars, clockVars
<1> QED
  BY <1>2, <1>3, <1>4, <1>5 DEF IInv, LoginInv

LEMMA SendOTPInv ==
  ASSUME IInv, NEW o \in Otps, NEW k \in Key, SendOTP(o, k)
  PROVE  IInv'
<1>1. /\ o \in fresh /\ fresh' = fresh \ {o} /\ used' = used
      /\ current' \in [Key -> Otps \cup {None}] /\ current'[k] = o
      /\ \A j \in Key : j # k => current'[j] = current[j]
      /\ sentFor' \in [Otps -> Key \cup {NoKey}] /\ sentFor'[o] = k
      /\ \A p \in Otps : p # o => sentFor'[p] = sentFor[p]
      /\ UNCHANGED <<clockVars, accepted, loginVars, readVars>>
  BY DEF SendOTP, Verifier!Offer, IInv, TypeOK
<1>2. TypeOK'
  BY <1>1 DEF IInv, TypeOK, clockVars, loginVars, readVars
<1>3. \A l \in Logins : <<l, o>> \notin accepted
  BY <1>1 DEF IInv, LoginInv, Accepted
<1>4. Accepted'
  BY <1>1, <1>3 DEF IInv, LoginInv, Accepted, loginVars
<1>5. Called' /\ Once' /\ Proven'
  BY <1>1 DEF IInv, LoginInv, Called, Once, Proven, loginVars
<1>6. Keyed'
  BY <1>1 DEF IInv, TypeOK, Keyed
<1>7. ReadInv' /\ Issued'
  BY <1>1 DEF IInv, ReadInv, Answered, Issued, readVars, loginVars, clockVars
<1> QED
  BY <1>2, <1>4, <1>5, <1>6, <1>7 DEF IInv, LoginInv

-----------------------------------------------------------------------------
LEMMA AuthenticateInv ==
  ASSUME IInv, NEW l \in Logins, NEW k \in Key, NEW o \in Otps, Authenticate(l, k, o)
  PROVE  IInv'
<1>1. /\ login' \in [Logins -> {"idle", "verify", "lookup", "issue"} \cup LoginOver]
      /\ key' \in [Logins -> Key \cup {NoKey}]
      /\ submitted' \in [Logins -> Otps \cup {None}]
  BY DEF Authenticate, Move, IInv, TypeOK
<1>2. /\ login[l] = "idle" /\ login'[l] = "verify" /\ key'[l] = k /\ submitted'[l] = o
      /\ \A m \in Logins : m # l => login'[m] = login[m] /\ key'[m] = key[m] /\ submitted'[m] = submitted[m]
      /\ UNCHANGED <<clockVars, otpVars, issued, issuedAt, consulted, readVars>>
  BY DEF Authenticate, Move, IInv, TypeOK
<1>3. TypeOK'
  BY <1>1, <1>2 DEF IInv, TypeOK, clockVars, otpVars, readVars
<1>4. l \notin consulted /\ \A p \in Otps : <<l, p>> \notin accepted
  BY <1>2 DEF IInv, TypeOK, LoginInv, Accepted, Proven
<1>5. Called' /\ Accepted' /\ Once'
  BY <1>2, <1>4 DEF IInv, LoginInv, Called, Accepted, Once, otpVars
<1>6. Proven'
  BY <1>2, <1>4 DEF IInv, LoginInv, Proven, otpVars
<1>7. Keyed' /\ Issued' /\ ReadInv'
  BY <1>2 DEF IInv, Keyed, Issued, ReadInv, Answered, otpVars, clockVars, readVars
<1> QED
  BY <1>3, <1>5, <1>6, <1>7 DEF IInv, LoginInv

LEMMA VerifyAcceptsInv ==
  ASSUME IInv, NEW l \in Logins, NEW to \in {"lookup", "unavailable"}, VerifyAccepts(l, to)
  PROVE  IInv'
<1> DEFINE c == submitted[l]
<1>1. /\ login[l] = "verify" /\ c \in Otps /\ key[l] \in Key /\ current[key[l]] = c
      /\ c # None /\ c \notin fresh /\ sentFor[c] = key[l]
  BY IdentityProviderAssumption DEF VerifyAccepts, Move, Matches, IInv, LoginInv, Called, Keyed
<1>2. /\ login' \in [Logins -> {"idle", "verify", "lookup", "issue"} \cup LoginOver]
      /\ login'[l] = to /\ \A m \in Logins : m # l => login'[m] = login[m]
  BY DEF VerifyAccepts, Move, IInv, TypeOK, LoginOver
<1>3. /\ fresh' = fresh /\ used' = used \cup {c}
      /\ current' \in [Key -> Otps \cup {None}] /\ current'[key[l]] = None
      /\ \A k \in Key : k # key[l] => current'[k] = current[k]
  BY <1>1 DEF VerifyAccepts, Verifier!Use, IInv, TypeOK
<1>4. /\ accepted' = accepted \cup {<<l, c>>}
      /\ UNCHANGED <<clockVars, sentFor, key, submitted, issued, issuedAt, consulted, readVars>>
  BY DEF VerifyAccepts
<1>5. TypeOK'
  BY <1>1, <1>2, <1>3, <1>4 DEF IInv, TypeOK, clockVars, readVars
<1>6. \A m \in Logins : <<m, c>> \notin accepted
  BY <1>1 DEF IInv, LoginInv, Accepted
<1>7. \A m \in Logins, p \in Otps : <<m, p>> \in accepted' <=> <<m, p>> \in accepted \/ (m = l /\ p = c)
  BY <1>4
<1> HIDE DEF c
<1>8. Called'
  BY <1>1, <1>2, <1>4 DEF IInv, LoginInv, Called
<1>9. Accepted'
  <2>1. \A k \in Key : current'[k] # c
    BY <1>1, <1>3 DEF IInv, Keyed
  <2>2. \A k \in Key : current'[k] \in {current[k], None}
    BY <1>1, <1>3
  <2> QED
    BY <1>1, <1>2, <1>3, <1>4, <1>7, <2>1, <2>2, IdentityProviderAssumption DEF IInv, LoginInv, Accepted, c
<1>10. Once'
  BY <1>6, <1>7 DEF IInv, LoginInv, Once
<1>11. Proven'
  <2>1. \A m \in Logins : m # l /\ (login[m] \in {"lookup", "issue", "ok", "denied"} \/ m \in consulted) =>
          <<m, submitted[m]>> \in accepted
    BY DEF IInv, LoginInv, Proven
  <2> QED
    BY <2>1, <1>2, <1>4 DEF Proven, c
<1>12. Keyed'
  BY <1>1, <1>3, <1>4 DEF IInv, Keyed
<1>13. Issued' /\ ReadInv'
  BY <1>1, <1>2, <1>4 DEF IInv, Issued, ReadInv, Answered, clockVars, readVars
<1> QED
  BY <1>5, <1>8, <1>9, <1>10, <1>11, <1>12, <1>13 DEF IInv, LoginInv

\* A login ends, or goes on from one step to the next, and only its step changes.
LEMMA VerifyEndsInv ==
  ASSUME IInv, NEW l \in Logins, VerifyRefuses(l) \/ VerifyLate(l)
  PROVE  IInv'
<1>1. /\ login' \in [Logins -> {"idle", "verify", "lookup", "issue"} \cup LoginOver]
      /\ login[l] = "verify" /\ login'[l] \in {"challenge_failed", "unavailable"}
      /\ \A m \in Logins : m # l => login'[m] = login[m]
      /\ UNCHANGED <<clockVars, otpVars, key, submitted, issued, issuedAt, consulted, readVars>>
  BY DEF VerifyRefuses, VerifyLate, Move, IInv, TypeOK, LoginOver
<1>2. TypeOK'
  BY <1>1 DEF IInv, TypeOK, clockVars, otpVars, readVars
<1>3. LoginInv'
  BY <1>1 DEF IInv, LoginInv, Called, Accepted, Once, Proven, otpVars
<1>4. Keyed' /\ Issued' /\ ReadInv'
  BY <1>1 DEF IInv, Keyed, Issued, ReadInv, Answered, otpVars, clockVars, readVars
<1> QED
  BY <1>2, <1>3, <1>4 DEF IInv

LEMMA AccountCheckInv ==
  ASSUME IInv, NEW l \in Logins, NEW to \in {"issue", "denied", "unavailable"}, AccountCheck(l, to)
  PROVE  IInv'
<1>1. /\ login' \in [Logins -> {"idle", "verify", "lookup", "issue"} \cup LoginOver]
      /\ login[l] = "lookup" /\ login'[l] = to /\ \A m \in Logins : m # l => login'[m] = login[m]
      /\ consulted' = consulted \cup {l}
      /\ UNCHANGED <<clockVars, otpVars, key, submitted, issued, issuedAt, readVars>>
  BY DEF AccountCheck, Move, IInv, TypeOK, LoginOver
<1>2. TypeOK'
  BY <1>1 DEF IInv, TypeOK, clockVars, otpVars, readVars
<1>3. Called' /\ Accepted' /\ Once'
  BY <1>1 DEF IInv, LoginInv, Called, Accepted, Once, otpVars
<1>4. Proven'
  BY <1>1 DEF IInv, LoginInv, Proven, otpVars
<1>5. Keyed' /\ Issued' /\ ReadInv'
  BY <1>1 DEF IInv, Keyed, Issued, ReadInv, Answered, otpVars, clockVars, readVars
<1> QED
  BY <1>2, <1>3, <1>4, <1>5 DEF IInv, LoginInv

LEMMA IssueInv ==
  ASSUME IInv, NEW l \in Logins, Issue(l)
  PROVE  IInv'
<1>1. Now \in Nat /\ elapsed \in Nat /\ offset \in -MaxSkew..MaxSkew /\ Now = Unix(elapsed, offset)
  BY ClockIsPositive DEF IInv, TypeOK, Now
<1>2. /\ login' \in [Logins -> {"idle", "verify", "lookup", "issue"} \cup LoginOver]
      /\ login[l] = "issue" /\ login'[l] = "ok" /\ \A m \in Logins : m # l => login'[m] = login[m]
  BY DEF Issue, Move, IInv, TypeOK, LoginOver
<1>3. /\ issued' \in [Logins -> Nat] /\ issuedAt' \in [Logins -> Nat]
      /\ issued'[l] = Now /\ issuedAt'[l] = elapsed
      /\ \A m \in Logins : m # l => issued'[m] = issued[m] /\ issuedAt'[m] = issuedAt[m]
      /\ UNCHANGED <<clockVars, otpVars, key, submitted, consulted, readVars>>
  BY <1>1 DEF Issue, IInv, TypeOK
<1>4. TypeOK'
  BY <1>2, <1>3 DEF IInv, TypeOK, clockVars, otpVars, readVars
<1>5. LoginInv'
  BY <1>2, <1>3 DEF IInv, LoginInv, Called, Accepted, Once, Proven, otpVars
<1>6. Issued'
  BY <1>1, <1>2, <1>3 DEF IInv, Issued, clockVars
<1>7. Keyed' /\ ReadInv'
  BY <1>3 DEF IInv, Keyed, ReadInv, Answered, otpVars, readVars
<1> QED
  BY <1>4, <1>5, <1>6, <1>7 DEF IInv

-----------------------------------------------------------------------------
\* What a step of one read leaves of the invariant to show.
LEMMA ReadStepInv ==
  ASSUME IInv, NEW r \in Reads, UNCHANGED <<clockVars, otpVars, loginVars>>,
         read' \in [Reads -> {"idle", "lookup"} \cup ReadOver],
         source' \in [Reads -> Logins \cup {None}],
         under' \in [Reads -> Bindings \cup {None}],
         approved' \in [Reads -> Approvals \cup {{}}],
         asked' \in [Reads -> SUBSET Provisioned],
         released' \in [Reads -> SUBSET DOMAIN ClaimMap],
         \A q \in Reads : q # r =>
           read'[q] = read[q] /\ approved'[q] = approved[q] /\ asked'[q] = asked[q] /\ released'[q] = released[q],
         Answered(r)'
  PROVE  IInv'
<1>1. TypeOK'
  BY DEF IInv, TypeOK, clockVars, otpVars, loginVars
<1>2. LoginInv' /\ Keyed' /\ Issued'
  BY DEF IInv, LoginInv, Called, Accepted, Once, Proven, Keyed, Issued, clockVars, otpVars, loginVars
<1>3. \A q \in Reads : Answered(q)
  BY DEF IInv, ReadInv
<1>4. \A q \in Reads : Answered(q)'
  BY <1>3 DEF Answered
<1> QED
  BY <1>1, <1>2, <1>4 DEF IInv, ReadInv

LEMMA Presented ==
  ASSUME IInv, NEW r \in Reads, NEW l \in Logins, NEW b \in Bindings, NEW a \in Approvals \cup {{}},
         Present(r, l, b, a)
  PROVE  /\ read[r] = "idle" /\ asked[r] = {} /\ released[r] = {}
         /\ UNCHANGED <<clockVars, otpVars, loginVars>>
         /\ source' \in [Reads -> Logins \cup {None}] /\ source'[r] = l
         /\ under' \in [Reads -> Bindings \cup {None}] /\ under'[r] = b
         /\ approved' \in [Reads -> Approvals \cup {{}}] /\ approved'[r] = a
         /\ \A q \in Reads : q # r => approved'[q] = approved[q]
  BY DEF Present, IInv, TypeOK, ReadInv, Answered

LEMMA RestoredCases ==
  ASSUME NEW l, NEW b
  PROVE  Restored(l, b) \in {"invalid", "expired", "valid"}
  BY DEF Restored

LEMMA NilApprovalInv ==
  ASSUME IInv, NEW r \in Reads, NEW l \in Logins, NEW b \in Bindings, NilApproval(r, l, b)
  PROVE  IInv'
<1>1. Present(r, l, b, {})
  BY DEF NilApproval
<1>2. /\ read' \in [Reads -> {"idle", "lookup"} \cup ReadOver] /\ read'[r] = "bad_request"
      /\ \A q \in Reads : q # r => read'[q] = read[q]
      /\ asked' = asked /\ released' = released
  BY DEF NilApproval, IInv, TypeOK, ReadOver
<1>3. asked' \in [Reads -> SUBSET Provisioned] /\ released' \in [Reads -> SUBSET DOMAIN ClaimMap]
  BY <1>2 DEF IInv, TypeOK
<1>4. asked'[r] = {} /\ released'[r] = {}
  BY <1>1, <1>2, Presented
<1>5. Answered(r)'
  BY <1>2, <1>4 DEF Answered
<1> QED
  BY <1>1, <1>2, <1>3, <1>5, Presented, ReadStepInv

LEMMA RestoreFailsInv ==
  ASSUME IInv, NEW r \in Reads, NEW l \in Logins, NEW b \in Bindings, NEW a \in Approvals,
         RestoreFails(r, l, b, a)
  PROVE  IInv'
<1>1. Present(r, l, b, a) /\ Restored(l, b) \in {"invalid", "expired"}
  BY RestoredCases DEF RestoreFails
<1>2. /\ read' \in [Reads -> {"idle", "lookup"} \cup ReadOver] /\ read'[r] \in {"invalid", "expired"}
      /\ \A q \in Reads : q # r => read'[q] = read[q]
      /\ asked' = asked /\ released' = released
  BY <1>1 DEF RestoreFails, IInv, TypeOK, ReadOver
<1>3. asked' \in [Reads -> SUBSET Provisioned] /\ released' \in [Reads -> SUBSET DOMAIN ClaimMap]
  BY <1>2 DEF IInv, TypeOK
<1>4. asked'[r] = {} /\ released'[r] = {}
  BY <1>1, <1>2, Presented
<1>5. Answered(r)'
  BY <1>2, <1>4 DEF Answered
<1> QED
  BY <1>1, <1>2, <1>3, <1>5, Presented, ReadStepInv

LEMMA NothingToAskInv ==
  ASSUME IInv, NEW r \in Reads, NEW l \in Logins, NEW b \in Bindings, NEW a \in Approvals,
         NothingToAsk(r, l, b, a)
  PROVE  IInv'
<1>1. Present(r, l, b, a)
  BY DEF NothingToAsk
<1>2. /\ read' \in [Reads -> {"idle", "lookup"} \cup ReadOver] /\ read'[r] = "ok"
      /\ \A q \in Reads : q # r => read'[q] = read[q]
      /\ asked' = asked
  BY DEF NothingToAsk, IInv, TypeOK, ReadOver
<1>3. Projected(a, {}) \in SUBSET DOMAIN ClaimMap
  BY DEF Projected, Mapped
<1>4. /\ asked' \in [Reads -> SUBSET Provisioned] /\ released' \in [Reads -> SUBSET DOMAIN ClaimMap]
      /\ released'[r] = Projected(a, {}) /\ \A q \in Reads : q # r => released'[q] = released[q]
  BY <1>2, <1>3 DEF NothingToAsk, IInv, TypeOK
<1>5. asked'[r] = {} /\ approved'[r] = a
  BY <1>1, <1>2, Presented
<1>6. Answered(r)'
  BY <1>2, <1>4, <1>5 DEF Answered, Projected
<1> QED
  BY <1>1, <1>2, <1>4, <1>6, Presented, ReadStepInv

LEMMA AskRegistryInv ==
  ASSUME IInv, NEW r \in Reads, NEW l \in Logins, NEW b \in Bindings, NEW a \in Approvals,
         AskRegistry(r, l, b, a)
  PROVE  IInv'
<1>1. Present(r, l, b, a)
  BY DEF AskRegistry
<1>2. /\ read' \in [Reads -> {"idle", "lookup"} \cup ReadOver] /\ read'[r] = "lookup"
      /\ \A q \in Reads : q # r => read'[q] = read[q]
      /\ released' = released
  BY DEF AskRegistry, IInv, TypeOK, ReadOver
<1>3. FieldsOf(a) \in SUBSET Provisioned
  BY DEF FieldsOf
<1>4. /\ asked' \in [Reads -> SUBSET Provisioned] /\ released' \in [Reads -> SUBSET DOMAIN ClaimMap]
      /\ asked'[r] = FieldsOf(a) /\ \A q \in Reads : q # r => asked'[q] = asked[q]
  BY <1>2, <1>3 DEF AskRegistry, IInv, TypeOK
<1>5. released'[r] = {} /\ approved'[r] = a
  BY <1>1, <1>2, Presented
<1>6. Answered(r)'
  BY <1>2, <1>4, <1>5 DEF Answered
<1> QED
  BY <1>1, <1>2, <1>4, <1>6, Presented, ReadStepInv

LEMMA SubjectInv ==
  ASSUME IInv, NEW r \in Reads, NEW l \in Logins, NEW b \in Bindings, NEW done \in BOOLEAN,
         Subject(r, l, b, done)
  PROVE  IInv'
<1>1. Present(r, l, b, {})
  BY DEF Subject
<1> DEFINE outcome == IF done THEN "unavailable"
                      ELSE IF Restored(l, b) = "valid" THEN "ok" ELSE Restored(l, b)
<1>2. outcome \in ReadOver
  BY RestoredCases DEF ReadOver
<1>3. read' = [read EXCEPT ![r] = outcome] /\ asked' = asked /\ released' = released
  BY DEF Subject
<1> HIDE DEF outcome
<1>4. /\ read' \in [Reads -> {"idle", "lookup"} \cup ReadOver] /\ read'[r] = outcome
      /\ \A q \in Reads : q # r => read'[q] = read[q]
  BY <1>2, <1>3 DEF IInv, TypeOK
<1>5. asked' \in [Reads -> SUBSET Provisioned] /\ released' \in [Reads -> SUBSET DOMAIN ClaimMap]
  BY <1>3 DEF IInv, TypeOK
<1>6. asked'[r] = {} /\ released'[r] = {}
  BY <1>1, <1>3, Presented
<1>7. Answered(r)'
  BY <1>2, <1>4, <1>6 DEF Answered, ReadOver
<1> QED
  BY <1>1, <1>3, <1>4, <1>5, <1>7, Presented, ReadStepInv

LEMMA ReleaseInv ==
  ASSUME IInv, NEW r \in Reads, NEW returned \in SUBSET Provisioned, Release(r, returned)
  PROVE  IInv'
<1>1. /\ read[r] = "lookup" /\ read' \in [Reads -> {"idle", "lookup"} \cup ReadOver] /\ read'[r] = "ok"
      /\ \A q \in Reads : q # r => read'[q] = read[q]
      /\ UNCHANGED <<clockVars, otpVars, loginVars, source, under, approved, asked>>
  BY DEF Release, IInv, TypeOK, ReadOver
<1>2. Projected(approved[r], returned) \in SUBSET DOMAIN ClaimMap
  BY DEF Projected, Mapped
<1>3. /\ released' \in [Reads -> SUBSET DOMAIN ClaimMap]
      /\ released'[r] = Projected(approved[r], returned) /\ \A q \in Reads : q # r => released'[q] = released[q]
  BY <1>2 DEF Release, IInv, TypeOK
<1>4. asked[r] = FieldsOf(approved[r])
  BY <1>1 DEF IInv, ReadInv, Answered
<1>5. Answered(r)'
  BY <1>1, <1>3, <1>4 DEF Answered, Projected
<1>6. /\ source' \in [Reads -> Logins \cup {None}] /\ under' \in [Reads -> Bindings \cup {None}]
      /\ approved' \in [Reads -> Approvals \cup {{}}] /\ asked' \in [Reads -> SUBSET Provisioned]
  BY <1>1 DEF IInv, TypeOK
<1> QED
  BY <1>1, <1>3, <1>5, <1>6, ReadStepInv

LEMMA LookupFailsInv ==
  ASSUME IInv, NEW r \in Reads, NEW to \in {"denied", "unavailable"}, LookupFails(r, to)
  PROVE  IInv'
<1>1. /\ read[r] = "lookup" /\ read' \in [Reads -> {"idle", "lookup"} \cup ReadOver] /\ read'[r] = to
      /\ \A q \in Reads : q # r => read'[q] = read[q]
      /\ UNCHANGED <<clockVars, otpVars, loginVars, source, under, approved, asked, released>>
  BY DEF LookupFails, IInv, TypeOK, ReadOver
<1>2. Answered(r)'
  BY <1>1 DEF IInv, ReadInv, Answered
<1>3. /\ source' \in [Reads -> Logins \cup {None}] /\ under' \in [Reads -> Bindings \cup {None}]
      /\ approved' \in [Reads -> Approvals \cup {{}}] /\ asked' \in [Reads -> SUBSET Provisioned]
      /\ released' \in [Reads -> SUBSET DOMAIN ClaimMap]
  BY <1>1 DEF IInv, TypeOK
<1> QED
  BY <1>1, <1>2, <1>3, ReadStepInv

-----------------------------------------------------------------------------
LEMMA NextInv == IInv /\ [Next]_vars => IInv'
<1> SUFFICES ASSUME IInv, [Next]_vars PROVE IInv'
  OBVIOUS
<1>1. ASSUME NEW l \in Logins, LoginStep(l) PROVE IInv'
  BY <1>1, AuthenticateInv, VerifyAcceptsInv, VerifyEndsInv, AccountCheckInv, IssueInv DEF LoginStep
<1>2. ASSUME NEW r \in Reads, ReadStep(r) PROVE IInv'
  BY <1>2, NilApprovalInv, RestoreFailsInv, NothingToAskInv, AskRegistryInv, SubjectInv, ReleaseInv, LookupFailsInv
  DEF ReadStep, GetAttributes
<1>3. ASSUME Lapse \/ \E o \in Otps, k \in Key : SendOTP(o, k) PROVE IInv'
  BY <1>3, LapseInv, SendOTPInv
<1>4. CASE UNCHANGED vars
  BY <1>4 DEF vars, IInv, TypeOK, LoginInv, ReadInv, Called, Accepted, Once, Proven, Issued, Keyed,
              Answered, clockVars, otpVars, loginVars, readVars
<1> QED
  BY <1>1, <1>2, <1>3, <1>4, ClockInv DEF Next

\* The inductive invariant of every login and every read.
THEOREM Invariance == Spec => []IInv
  BY InitInv, NextInv, PTL DEF Spec

\* Types of the calls' arguments, locals and results (AuthenticationRequest, authContext).
THEOREM TypeCorrect == Spec => []TypeOK
<1>1. IInv => TypeOK
  BY DEF IInv
<1> QED
  BY <1>1, Invariance, PTL

(***************************************************************************)
(* Authenticate asks neither token issuer nor registry about anyone who    *)
(* has not answered a challenge for that person and binding: Proven says   *)
(* that the answer was accepted, Accepted under which key.                 *)
(***************************************************************************)
THEOREM NoLookupWithoutProofAlways == Spec => []NoLookupWithoutProof
<1>1. IInv => NoLookupWithoutProof
  <2> SUFFICES ASSUME IInv, NEW l \in consulted
               PROVE  <<l, submitted[l]>> \in accepted /\ sentFor[submitted[l]] = key[l]
    BY DEF NoLookupWithoutProof
  <2>1. l \in Logins
    BY DEF IInv, TypeOK
  <2>2. <<l, submitted[l]>> \in accepted
    BY <2>1 DEF IInv, LoginInv, Proven
  <2>3. submitted[l] \in Otps
    BY <2>2 DEF IInv, TypeOK
  <2> QED
    BY <2>1, <2>2, <2>3 DEF IInv, LoginInv, Accepted
<1> QED
  BY <1>1, Invariance, PTL

(***************************************************************************)
(* Authenticate makes at most one context out of a code, and what another  *)
(* login did with that code ended before the registry.                     *)
(***************************************************************************)
THEOREM OneContextPerCodeAlways == Spec => []OneContextPerCode
<1>1. IInv => OneContextPerCode
  <2> SUFFICES ASSUME IInv, NEW l \in Logins, NEW m \in Logins, l # m, login[l] = "ok",
                      submitted[l] = submitted[m], m \in consulted
               PROVE  FALSE
    BY DEF OneContextPerCode
  <2>1. <<l, submitted[l]>> \in accepted /\ <<m, submitted[l]>> \in accepted
    BY DEF IInv, LoginInv, Proven
  <2>2. submitted[l] \in Otps
    BY <2>1 DEF IInv, TypeOK
  <2> QED
    BY <2>1, <2>2 DEF IInv, LoginInv, Once
<1> QED
  BY <1>1, Invariance, PTL

\* The fields of a projection are those of the claims that SupportedClaims advertises.
LEMMA FieldsAreSupported ==
  ASSUME NEW a
  PROVE  /\ FieldsOf(a) = {ClaimMap[c] : c \in a \cap SupportedClaims} \ {Psut}
         /\ FieldsOf(a) \subseteq {ClaimMap[c] : c \in a \cap DOMAIN ClaimMap}
  BY IdentityProviderAssumption DEF FieldsOf, Mapped, SupportedClaims

(***************************************************************************)
(* GetAttributes asks and releases within approval, claim map and          *)
(* provisioned fields, whatever the registry answers.                      *)
(***************************************************************************)
THEOREM ReleasedWithinApprovalAlways == Spec => []ReleasedWithinApproval
<1>1. IInv => ReleasedWithinApproval
  <2> SUFFICES ASSUME IInv, NEW r \in Reads
               PROVE  /\ asked[r] \subseteq {ClaimMap[c] : c \in approved[r] \cap DOMAIN ClaimMap}
                      /\ read[r] = "lookup" =>
                           asked[r] = {ClaimMap[c] : c \in approved[r] \cap SupportedClaims} \ {Psut}
                      /\ \A c \in released[r] :
                           c \in approved[r] \cap SupportedClaims /\ ClaimMap[c] \in asked[r] \cup {Psut}
    BY DEF ReleasedWithinApproval
  <2>1. Answered(r) /\ asked[r] \subseteq Provisioned
    BY DEF IInv, ReadInv, TypeOK
  <2>2. \A c \in released[r] :
          c \in approved[r] /\ c \in DOMAIN ClaimMap /\ ClaimMap[c] \in asked[r] \cup {Psut}
    BY <2>1 DEF Answered, Mapped
  <2>3. \A c \in released[r] : c \in approved[r] \cap SupportedClaims
    BY <2>1, <2>2 DEF SupportedClaims
  <2>4. asked[r] \subseteq FieldsOf(approved[r]) /\ (read[r] = "lookup" => asked[r] = FieldsOf(approved[r]))
    BY <2>1 DEF Answered
  <2> QED
    BY <2>2, <2>3, <2>4, FieldsAreSupported
<1> QED
  BY <1>1, Invariance, PTL

-----------------------------------------------------------------------------
(***************************************************************************)
(* How long a context lives.  Its age in ticks against the whole seconds   *)
(* of two clocks, each at most MaxSkew from true time: n ticks of age      *)
(* below the lifetime, or beyond it.                                       *)
(***************************************************************************)
LEMMA WithinLife ==
  ASSUME NEW q \in Nat, NEW n \in Nat, n < q + ContextTTL
  PROVE  n * PerSecond + PerSecond <= q * PerSecond + ContextTTL * PerSecond
<1>1. n + 1 <= q + ContextTTL /\ ContextTTL \in Nat /\ PerSecond \in Nat
  BY IdentityProviderAssumption
<1>2. \A i, j, k \in Nat : i <= j => i * k <= j * k
  BY SMT
<1>3. (n + 1) * PerSecond <= (q + ContextTTL) * PerSecond
  BY <1>1, <1>2
<1>4. (n + 1) * PerSecond = n * PerSecond + PerSecond
  BY <1>1, SMT
<1>5. (q + ContextTTL) * PerSecond = q * PerSecond + ContextTTL * PerSecond
  BY <1>1, SMT
<1> QED
  BY <1>3, <1>4, <1>5

LEMMA BeyondLife ==
  ASSUME NEW q \in Nat, NEW n \in Nat, q + ContextTTL <= n
  PROVE  q * PerSecond + ContextTTL * PerSecond <= n * PerSecond
<1>1. ContextTTL \in Nat /\ PerSecond \in Nat
  BY IdentityProviderAssumption
<1>2. \A i, j, k \in Nat : i <= j => i * k <= j * k
  BY SMT
<1>3. (q + ContextTTL) * PerSecond <= n * PerSecond
  BY <1>1, <1>2
<1>4. (q + ContextTTL) * PerSecond = q * PerSecond + ContextTTL * PerSecond
  BY <1>1, SMT
<1> QED
  BY <1>3, <1>4

LEMMA Later ==
  ASSUME NEW q \in Nat, NEW n \in Nat, n < q
  PROVE  n * PerSecond + PerSecond <= q * PerSecond
<1>1. n + 1 <= q /\ PerSecond \in Nat
  BY IdentityProviderAssumption
<1>2. \A i, j, k \in Nat : i <= j => i * k <= j * k
  BY SMT
<1>3. (n + 1) * PerSecond <= q * PerSecond
  BY <1>1, <1>2
<1>4. (n + 1) * PerSecond = n * PerSecond + PerSecond
  BY <1>1, SMT
<1> QED
  BY <1>3, <1>4

Age(l) == elapsed - issuedAt[l]

LEMMA AgeOfContext ==
  ASSUME IInv, NEW l \in Logins, login[l] = "ok", NEW b
  PROVE  /\ Restored(l, b) = "valid" =>
              key[l].binding = b /\ Age(l) < ContextTTL * PerSecond + 2 * MaxSkew
         /\ Restored(l, b) = "invalid" /\ key[l].binding = b => Age(l) < 2 * MaxSkew
         /\ Restored(l, b) = "expired" => Age(l) + 2 * MaxSkew > (ContextTTL - 1) * PerSecond
<1> DEFINE n == Now
           q == issued[l]
           T == ContextTTL * PerSecond
<1>1. /\ elapsed \in Nat /\ offset \in -MaxSkew..MaxSkew /\ issuedAt[l] \in Nat /\ issuedAt[l] <= elapsed
      /\ q \in Nat
  BY DEF IInv, TypeOK, Issued
<1>2. PICK o \in -MaxSkew..MaxSkew : q = Unix(issuedAt[l], o)
  BY DEF IInv, Issued
<1>3. /\ Start \in Nat
      /\ q * PerSecond <= Start + issuedAt[l] + o
      /\ Start + issuedAt[l] + o < q * PerSecond + PerSecond
  BY <1>1, <1>2, ClockIsPositive
<1>4. /\ n \in Nat
      /\ n * PerSecond <= Start + elapsed + offset
      /\ Start + elapsed + offset < n * PerSecond + PerSecond
  BY <1>1, ClockIsPositive DEF Now
<1>5. /\ ContextTTL \in Nat /\ PerSecond \in Nat /\ MaxSkew \in Nat /\ T \in Nat
      /\ q * PerSecond \in Nat /\ n * PerSecond \in Nat
      /\ (ContextTTL - 1) * PerSecond = T - PerSecond
  BY <1>1, <1>4, IdentityProviderAssumption, Product, SMT
<1>6. ASSUME Restored(l, b) = "valid"
      PROVE  key[l].binding = b /\ Age(l) < T + 2 * MaxSkew
  <2>1. key[l].binding = b /\ n < q + ContextTTL
    BY <1>1, <1>4, <1>5, <1>6 DEF Restored, Expires
  <2>2. n * PerSecond + PerSecond <= q * PerSecond + T
    BY <1>1, <1>4, <2>1, WithinLife
  <2> HIDE DEF n, q, T
  <2>3. elapsed - issuedAt[l] < T + 2 * MaxSkew
    BY <1>1, <1>2, <1>3, <1>4, <1>5, <2>2
  <2> QED
    BY <2>1, <2>3 DEF Age
<1>7. ASSUME Restored(l, b) = "invalid", key[l].binding = b
      PROVE  Age(l) < 2 * MaxSkew
  <2>1. n < q
    BY <1>1, <1>4, <1>7 DEF Restored
  <2>2. n * PerSecond + PerSecond <= q * PerSecond
    BY <1>1, <1>4, <2>1, Later
  <2> HIDE DEF n, q, T
  <2>3. elapsed - issuedAt[l] < 2 * MaxSkew
    BY <1>1, <1>2, <1>3, <1>4, <1>5, <2>2
  <2> QED
    BY <2>3 DEF Age
<1>8. ASSUME Restored(l, b) = "expired"
      PROVE  Age(l) + 2 * MaxSkew > (ContextTTL - 1) * PerSecond
  <2>1. q + ContextTTL <= n
    BY <1>8 DEF Restored, Expires
  <2>2. q * PerSecond + T <= n * PerSecond
    BY <1>1, <1>4, <2>1, BeyondLife
  <2> HIDE DEF n, q, T
  <2>3. elapsed - issuedAt[l] + 2 * MaxSkew > T - PerSecond
    BY <1>1, <1>2, <1>3, <1>4, <1>5, <2>2
  <2> QED
    BY <1>5, <2>3 DEF Age
<1> QED
  BY <1>6, <1>7, <1>8

\* Who presents a context is told what restore makes of it.
LEMMA Restores ==
  ASSUME IInv, [Next]_vars, NEW r \in Reads, read[r] = "idle", read'[r] # "idle"
  PROVE  \E l \in Logins, b \in Bindings :
           /\ login[l] = "ok" /\ source'[r] = l /\ under'[r] = b
           /\ read'[r] \in {"lookup", "ok"} => Restored(l, b) = "valid"
           /\ read'[r] \in {"invalid", "expired"} => read'[r] = Restored(l, b)
<1> DEFINE Goal == \E l \in Logins, b \in Bindings :
           /\ login[l] = "ok" /\ source'[r] = l /\ under'[r] = b
           /\ read'[r] \in {"lookup", "ok"} => Restored(l, b) = "valid"
           /\ read'[r] \in {"invalid", "expired"} => read'[r] = Restored(l, b)
<1>1. ASSUME read' = read PROVE FALSE
  BY <1>1
<1>2. ASSUME NEW l \in Logins, LoginStep(l) PROVE read' = read
  BY <1>2 DEF LoginStep, Authenticate, VerifyAccepts, VerifyRefuses, VerifyLate, AccountCheck, Issue, readVars
<1>3. ASSUME NEW q \in Reads, ReadStep(q) PROVE q = r
  <2>1. PICK v : read' = [read EXCEPT ![q] = v]
    BY <1>3 DEF ReadStep, GetAttributes, NilApproval, RestoreFails, NothingToAsk, AskRegistry, Subject, Release,
                LookupFails
  <2> QED
    BY <2>1 DEF IInv, TypeOK
<1>4. PICK l \in Logins, b \in Bindings :
        \/ \E a \in Approvals : GetAttributes(r, l, b, a)
        \/ \E done \in BOOLEAN : Subject(r, l, b, done)
        \/ NilApproval(r, l, b)
  <2>1. ~(Tick \/ (\E o \in -MaxSkew..MaxSkew : Adjust(o)) \/ (\E e \in SUBSET Subjects : Register(e)))
    BY <1>1 DEF Tick, Adjust, Register, readVars
  <2>2. ~(Lapse \/ \E o \in Otps, k \in Key : SendOTP(o, k))
    BY <1>1 DEF Lapse, SendOTP, readVars
  <2>3. ~UNCHANGED vars
    BY <1>1 DEF vars, readVars
  <2>4. ReadStep(r)
    BY <1>1, <1>2, <1>3, <2>1, <2>2, <2>3 DEF Next
  <2>5. ~(\E returned \in SUBSET Provisioned : Release(r, returned))
        /\ ~(\E to \in {"denied", "unavailable"} : LookupFails(r, to))
    BY DEF Release, LookupFails
  <2> QED
    BY <2>4, <2>5 DEF ReadStep
<1>5. PICK a \in Approvals \cup {{}} : Present(r, l, b, a)
  BY <1>4 DEF GetAttributes, RestoreFails, NothingToAsk, AskRegistry, Subject, NilApproval
<1>6. login[l] = "ok" /\ source'[r] = l /\ under'[r] = b
  BY <1>5, Presented DEF Present
<1>7. read \in [Reads -> {"idle", "lookup"} \cup ReadOver]
  BY DEF IInv, TypeOK
<1>8. ASSUME NEW done \in BOOLEAN, Subject(r, l, b, done) PROVE Goal
  <2>1. read'[r] = IF done THEN "unavailable"
                   ELSE IF Restored(l, b) = "valid" THEN "ok" ELSE Restored(l, b)
    BY <1>7, <1>8 DEF Subject
  <2> QED
    BY <2>1, <1>6, RestoredCases
<1>9. ASSUME NEW c \in Approvals, GetAttributes(r, l, b, c) PROVE Goal
  <2>1. CASE RestoreFails(r, l, b, c)
    BY <2>1, <1>6, <1>7, RestoredCases DEF RestoreFails
  <2>2. CASE NothingToAsk(r, l, b, c) \/ AskRegistry(r, l, b, c)
    BY <2>2, <1>6, <1>7 DEF NothingToAsk, AskRegistry
  <2> QED
    BY <1>9, <2>1, <2>2 DEF GetAttributes
<1>10. ASSUME NilApproval(r, l, b) PROVE Goal
  BY <1>6, <1>7, <1>10 DEF NilApproval
<1> QED
  BY <1>4, <1>8, <1>9, <1>10

(***************************************************************************)
(* A context is honoured under its own binding and for contextTTL, and     *)
(* refused under it only for age or a clock gone back: restore compares    *)
(* whole seconds of clocks that are MaxSkew off, whatever those are.       *)
(***************************************************************************)
THEOREM HonouredForItsTimeAlways == Spec => HonouredForItsTime
<1>1. ASSUME IInv, [Next]_vars, NEW r \in Reads, read[r] = "idle", read'[r] \in {"lookup", "ok"}
      PROVE  /\ under'[r] = key[source'[r]].binding
             /\ elapsed - issuedAt[source'[r]] < ContextTTL * PerSecond + 2 * MaxSkew
  <2>1. PICK l \in Logins, b \in Bindings :
          login[l] = "ok" /\ source'[r] = l /\ under'[r] = b /\ Restored(l, b) = "valid"
    BY <1>1, Restores
  <2> QED
    BY <1>1, <2>1, AgeOfContext DEF Age
<1>2. ASSUME IInv, [Next]_vars, NEW r \in Reads, read[r] = "idle", read'[r] \in {"invalid", "expired"},
             under'[r] = key[source'[r]].binding
      PROVE  IF read'[r] = "invalid" THEN elapsed - issuedAt[source'[r]] < 2 * MaxSkew
             ELSE elapsed - issuedAt[source'[r]] + 2 * MaxSkew > (ContextTTL - 1) * PerSecond
  <2>1. PICK l \in Logins, b \in Bindings :
          login[l] = "ok" /\ source'[r] = l /\ under'[r] = b /\ Restored(l, b) = read'[r]
    BY <1>2, Restores
  <2> QED
    BY <1>2, <2>1, AgeOfContext DEF Age
<1> DEFINE Honoured ==
      \A r \in Reads :
        read[r] = "idle" /\ read'[r] \in {"lookup", "ok"} =>
          LET l == source'[r] IN
            /\ under'[r] = key[l].binding
            /\ elapsed - issuedAt[l] < ContextTTL * PerSecond + 2 * MaxSkew
<1> DEFINE Refused ==
      \A r \in Reads :
        LET l == source'[r]
            age == elapsed - issuedAt[l]
        IN  read[r] = "idle" /\ read'[r] \in {"invalid", "expired"} /\ under'[r] = key[l].binding =>
              IF read'[r] = "invalid" THEN age < 2 * MaxSkew
              ELSE age + 2 * MaxSkew > (ContextTTL - 1) * PerSecond
<1>3. IInv /\ [Next]_vars => [Honoured]_vars
  BY <1>1
<1>4. IInv /\ [Next]_vars => [Refused]_vars
  BY <1>2
<1> HIDE DEF Honoured, Refused
<1>5. Spec => [][Honoured]_vars
  BY <1>3, Invariance, PTL DEF Spec
<1>6. Spec => [][Refused]_vars
  BY <1>4, Invariance, PTL DEF Spec
<1>7. Spec => HonouredInTime
  BY <1>5 DEF HonouredInTime, Honoured
<1>8. Spec => RefusedForCause
  BY <1>6 DEF RefusedForCause, Refused
<1> QED
  BY <1>7, <1>8 DEF HonouredForItsTime

=============================================================================
