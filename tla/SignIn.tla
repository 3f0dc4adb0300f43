------------------------------- MODULE SignIn -------------------------------
(***************************************************************************)
(* A sign-in through eSignet: the flow of flow-breg-otp.yaml, the adapter  *)
(* of package breg that the flow's executors call, and its consent         *)
(* wrapper.  The engine that walks the flow and its executors are external *)
(* and modelled by what the flow, the adapter, the patches and their tests *)
(* rely on.  The verifier is any OneTimeCode.                              *)
(*                                                                         *)
(* Each element of Flows is one execution of the flow, for one client.     *)
(* The engine keeps the flow's data between requests; a request runs the   *)
(* flow up to its next prompt.                                             *)
(***************************************************************************)
EXTENDS Integers

CONSTANTS
  Flows,           \* executions of the flow
  People,          \* identifiers
  Challenges,      \* the codes, named after their challenge
  Essential,       \* essential claims of the client's request
  Optional,        \* its optional claims
  Sourced,         \* the claims for which the registry has a value
  Drawn,           \* a transaction that SendOTP draws when it is given none
  ConsentTimeout,  \* "timeout" of consent_check, in ticks
  ContextTTL,      \* contextTTL, in ticks
  MaxTime,         \* bound: the clock stops here
  None

ASSUME SignInAssumption ==
  /\ ConsentTimeout \in Nat
  /\ ContextTTL \in Nat
  /\ MaxTime \in Nat
  /\ Drawn \notin Flows
  /\ None \notin Flows \cup People \cup Challenges \cup Nat
  /\ \A A \in SUBSET (Essential \cup Optional) : A # None

VARIABLES
  now,
  flow,     \* per flow: the node it is at and the data that the engine keeps
  log,      \* per flow: what happened in it
  consents, \* the host's consent records: of whom, and of which sign-in
  fresh, current, used  \* the verifier

verifier == <<fresh, current, used>>
vars == <<now, flow, log, consents, verifier>>

Requested == Essential \cup Optional

\* What a code is bound to: the identifier and the flow's transaction.
Key == People \X (Flows \cup {Drawn})

Verifier == INSTANCE OneTimeCode WITH Keys <- Key

(***************************************************************************)
(* The graph of flow-breg-otp.yaml: onSuccess of the tasks, nextNode of    *)
(* the actions of the prompts.  A flow is over at "end", or when the       *)
(* engine stopped it: "denied" by the person, or in "error".               *)
(***************************************************************************)
\* Mutant: the flow starts with its first prompt.
OnSuccessUnseeded ==
  [start |-> "select_otp", seed_transaction_id |-> "select_otp",
   send_otp |-> "prompt_otp", authenticate |-> "clear_otp",
   clear_otp |-> "authorization_check", authorization_check |-> "consent_check",
   consent_check |-> "auth_assert", auth_assert |-> "end"]

OnSuccess ==
  [start |-> "seed_transaction_id", seed_transaction_id |-> "select_otp",
   send_otp |-> "prompt_otp", authenticate |-> "clear_otp",
   clear_otp |-> "authorization_check", authorization_check |-> "consent_check",
   consent_check |-> "auth_assert", auth_assert |-> "end"]

OnIncomplete == [consent_check |-> "prompt_consent"]

\* Mutant: "Cancel" asks again.
NextNodeAskingAgain ==
  [select_otp_action |-> "prompt_identifier", send_otp_action |-> "send_otp",
   verify_action |-> "authenticate", allow_action |-> "consent_check",
   deny_action |-> "prompt_consent"]

NextNode ==
  [select_otp_action |-> "prompt_identifier", send_otp_action |-> "send_otp",
   verify_action |-> "authenticate", allow_action |-> "consent_check",
   deny_action |-> "consent_check"]

\* Mutant: "Cancel" declares no input, so that what was decided is not submitted with it.
InputsOfAllow == [allow_action |-> {"consent_decisions"}, deny_action |-> {}]

\* The inputs that the two actions of prompt_consent submit.
Inputs == [allow_action |-> {"consent_decisions"}, deny_action |-> {"consent_decisions"}]

Prompts == {"select_otp", "prompt_identifier", "prompt_otp", "prompt_consent"}
Over == {"end", "denied", "error"}
Nodes == DOMAIN OnSuccess \cup Prompts \cup Over

At(f, n) == flow[f].node = n

-----------------------------------------------------------------------------
Init ==
  /\ now = 0
  /\ flow = [f \in Flows |->
       [node |-> "start", transaction |-> None, username |-> None, otp |-> None,
        context |-> None, answer |-> None, prompted |-> None,
        consented |-> None, recorded |-> FALSE]]
  /\ log = [f \in Flows |-> [sent |-> {}, under |-> None, proof |-> None, decision |-> None, released |-> {}]]
  /\ consents = {}
  /\ Verifier!CInit

\* Time passes at the prompts and in the tasks between them alike.
Tick ==
  /\ now < MaxTime
  /\ now' = now + 1
  /\ UNCHANGED <<flow, log, consents, verifier>>

\* Codes expire, are guessed at too often, or are lost when the process restarts.
Withdraw(K) ==
  /\ \E k \in K : current[k] # None
  /\ Verifier!Withdraw(K, {})
  /\ UNCHANGED <<now, flow, log, consents>>

-----------------------------------------------------------------------------
(***************************************************************************)
(* The person, at a prompt.                                                *)
(***************************************************************************)
Select(f) ==
  /\ At(f, "select_otp")
  /\ flow' = [flow EXCEPT ![f].node = NextNode.select_otp_action]
  /\ UNCHANGED <<now, log, consents, verifier>>

Identify(f, p) ==
  /\ At(f, "prompt_identifier")
  /\ flow' = [flow EXCEPT ![f].username = p, ![f].node = NextNode.send_otp_action]
  /\ UNCHANGED <<now, log, consents, verifier>>

\* Any code may be typed: of this flow or another, stale, or not sent at all.
EnterCode(f, c) ==
  /\ At(f, "prompt_otp")
  /\ flow' = [flow EXCEPT ![f].otp = c, ![f].node = NextNode.verify_action]
  /\ UNCHANGED <<now, log, consents, verifier>>

\* The page submits what the person decided, or nothing at all (None).
Decide(f, A, action) ==
  /\ At(f, "prompt_consent")
  /\ flow' = [flow EXCEPT ![f].answer = IF "consent_decisions" \in Inputs[action] THEN A ELSE None,
                          ![f].node = NextNode[action]]
  /\ log' = [log EXCEPT ![f].decision = A]
  /\ UNCHANGED <<now, consents, verifier>>

-----------------------------------------------------------------------------
(***************************************************************************)
(* Tasks that only move on, the seed of the transaction, and what becomes  *)
(* of a flow whose task fails: the engine ends it or lets the person try   *)
(* again at the node before.                                               *)
(***************************************************************************)
Pass(f) ==
  /\ flow[f].node \in {"start", "authorization_check"}
  /\ flow' = [flow EXCEPT ![f].node = OnSuccess[@]]
  /\ UNCHANGED <<now, log, consents, verifier>>

Seed(f) ==
  /\ At(f, "seed_transaction_id")
  /\ flow' = [flow EXCEPT ![f].transaction = f, ![f].node = OnSuccess[@]]
  /\ UNCHANGED <<now, log, consents, verifier>>

ClearOtp(f) ==
  /\ At(f, "clear_otp")
  /\ flow' = [flow EXCEPT ![f].otp = None, ![f].node = OnSuccess[@]]
  /\ UNCHANGED <<now, log, consents, verifier>>

FailsTo(f, back) ==
  \E n \in {back, "error"} : flow' = [flow EXCEPT ![f].node = n, ![f].otp = None]

-----------------------------------------------------------------------------
(***************************************************************************)
(* The adapter's binding, and its SendOTP and Authenticate.  Of the client *)
(* only the transaction remains; SendOTP makes up for one that is missing, *)
(* Authenticate and GetAttributes refuse.                                  *)
(***************************************************************************)
\* Mutant: a code is bound to the person and the client only.
BoundToClient(f, t) == <<flow[f].username, Drawn>>

BoundTo(f, t) == <<flow[f].username, t>>

OtpKey(f) ==
  BoundTo(f, IF flow[f].transaction = None THEN Drawn ELSE flow[f].transaction)

\* The verifier may have stored the challenge of a SendOTP that fails.
SendOTP(f, c) ==
  /\ At(f, "send_otp")
  /\ Verifier!Offer(c, OtpKey(f))
  /\ log' = [log EXCEPT ![f].sent = @ \cup {c}, ![f].under = OtpKey(f)]
  /\ \/ flow' = [flow EXCEPT ![f].node = OnSuccess[@]]
     \/ FailsTo(f, "prompt_identifier")
  /\ UNCHANGED <<now, consents>>

SendFails(f) ==
  /\ At(f, "send_otp")
  /\ FailsTo(f, "prompt_identifier")
  /\ UNCHANGED <<now, log, consents, verifier>>

Matches(f) ==
  /\ flow[f].transaction # None
  /\ current[BoundTo(f, flow[f].transaction)] = flow[f].otp

\* The code is accepted and spent; the account check or the deadline may
\* fail the login all the same.
Accepted(f) ==
  /\ At(f, "authenticate")
  /\ Matches(f)
  /\ Verifier!Use(BoundTo(f, flow[f].transaction))
  /\ \/ /\ flow' = [flow EXCEPT ![f].context = now, ![f].node = OnSuccess[@]]
        /\ log' = [log EXCEPT ![f].proof = flow[f].otp]
     \/ FailsTo(f, "prompt_otp") /\ UNCHANGED log
  /\ UNCHANGED <<now, consents>>

\* An invalid request, a wrong code, or a verifier that does not answer.
Rejected(f) ==
  /\ At(f, "authenticate")
  /\ FailsTo(f, "prompt_otp")
  /\ UNCHANGED <<now, log, consents, verifier>>

-----------------------------------------------------------------------------
(***************************************************************************)
(* consent_check before a decision.  The executor probes GetAttributes     *)
(* with nil, which the adapter refuses so that the context is kept, and    *)
(* asks the consent provider whether to prompt.  The wrapper forces the    *)
(* prompt; the host's own provider spares those who consented before.      *)
(***************************************************************************)
\* Mutant: the probe succeeds, and what it returns takes the context's place.
ProbeAnswered(context) == None

AfterProbe(context) == context

HostAsks(p, force) == force \/ \A f \in Flows : <<p, f>> \notin consents

\* Mutant: the wrapper passes the host's choice on.
AsksUnforced(p) == HostAsks(p, FALSE)

Asks(p) == HostAsks(p, TRUE)

\* A prompt that came back without decisions is shown again, with its time
\* running on or anew.
ConsentCheck(f) ==
  /\ At(f, "consent_check")
  /\ flow[f].answer = None
  /\ \E t \in {now, flow[f].prompted} \ {None} : flow' = [flow EXCEPT
       ![f].context = AfterProbe(@),
       ![f].prompted = t,
       ![f].node = IF Asks(flow[f].username) THEN OnIncomplete[@] ELSE OnSuccess[@]]
  /\ UNCHANGED <<now, log, consents, verifier>>

(***************************************************************************)
(* consent_check after a decision.  In time, it is recorded, refusals too; *)
(* the host then reports the refusal of an essential claim as an error,    *)
(* and the wrapper renames the error to the one that the executor knows.   *)
(* A late decision is a timeout: nothing is recorded, nothing is shared.   *)
(* Any other error of the host, with whatever decisions, is passed on.     *)
(***************************************************************************)
InTime(f) == now <= flow[f].prompted + ConsentTimeout

\* Mutant: the host's error is passed on as it is.
RecordErrorRaw(code) == code

RecordError(code) == IF code = "essential_consent_denied" THEN "AUTH-CES-1006" ELSE code

StoppedBy(code) == IF code = "AUTH-CES-1006" THEN "denied" ELSE "error"

RecordConsent(f) ==
  /\ At(f, "consent_check")
  /\ flow[f].answer # None /\ InTime(f)
  /\ consents' = consents \cup {<<flow[f].username, f>>}
  /\ flow' = IF Essential \subseteq flow[f].answer
               THEN [flow EXCEPT ![f].consented = flow[f].answer, ![f].recorded = TRUE,
                                 ![f].node = OnSuccess[@]]
               ELSE [flow EXCEPT ![f].node = StoppedBy(RecordError("essential_consent_denied"))]
  /\ UNCHANGED <<now, log, verifier>>

\* The prompt cannot be resolved, or what was decided cannot be recorded.
ConsentFails(f) ==
  /\ At(f, "consent_check")
  /\ flow' = [flow EXCEPT ![f].node = StoppedBy(RecordError("consent_record_failed"))]
  /\ UNCHANGED <<now, log, consents, verifier>>

ConsentTimesOut(f) ==
  /\ At(f, "consent_check")
  /\ flow[f].answer # None /\ ~InTime(f)
  /\ flow' = [flow EXCEPT ![f].consented = {}, ![f].node = OnSuccess[@]]
  /\ UNCHANGED <<now, log, consents, verifier>>

(***************************************************************************)
(* auth_assert.  What the patched executor asks the adapter for: what the  *)
(* consent step left, even when that is nothing; the client's whole        *)
(* request only when there was no consent step.                            *)
(***************************************************************************)
\* Mutant: the executor before thunder-consent.patch.
UserAttributesUnpatched(f) ==
  IF flow[f].recorded
    THEN IF flow[f].consented # None THEN flow[f].consented ELSE {}
    ELSE Requested

UserAttributes(f) ==
  IF flow[f].consented # None THEN flow[f].consented
  ELSE IF flow[f].recorded THEN {}
  ELSE Requested

Expired(f) == flow[f].context # None /\ now >= flow[f].context + ContextTTL

AuthAssert(f) ==
  /\ At(f, "auth_assert")
  /\ ~Expired(f)
  /\ log' = [log EXCEPT ![f].released =
       IF flow[f].context = None THEN {} ELSE UserAttributes(f) \cap Sourced]
  /\ flow' = [flow EXCEPT ![f].context = None, ![f].node = OnSuccess[@]]
  /\ UNCHANGED <<now, consents, verifier>>

\* The context has expired, or the client, the token or the registry fails.
AuthAssertFails(f) ==
  /\ At(f, "auth_assert")
  /\ flow' = [flow EXCEPT ![f].node = "error"]
  /\ UNCHANGED <<now, log, consents, verifier>>

-----------------------------------------------------------------------------
Task(f) ==
  \/ Pass(f) \/ Seed(f) \/ ClearOtp(f)
  \/ \E c \in Challenges : SendOTP(f, c)
  \/ SendFails(f) \/ Accepted(f) \/ Rejected(f)
  \/ ConsentCheck(f) \/ RecordConsent(f) \/ ConsentFails(f) \/ ConsentTimesOut(f)
  \/ AuthAssert(f) \/ AuthAssertFails(f)

Answer(f) ==
  \E A \in (SUBSET Requested) \cup {None}, action \in {"allow_action", "deny_action"} : Decide(f, A, action)

Person(f) ==
  \/ Select(f) \/ Answer(f)
  \/ \E p \in People : Identify(f, p)
  \/ \E c \in Challenges : EnterCode(f, c)

Next ==
  \/ \E f \in Flows : Task(f) \/ Person(f)
  \/ \E k \in Key : Withdraw({k})
  \/ Withdraw(Key)
  \/ Tick

Spec == Init /\ [][Next]_vars

(***************************************************************************)
(* Fairness.  The engine runs the tasks of a request to the end, each of   *)
(* them bounded by http.timeout_seconds.  Nobody needs to answer a prompt. *)
(***************************************************************************)
Served(f) == WF_vars(Task(f))
Scheduling == \A f \in Flows : Served(f)
FairSpec == Spec /\ Scheduling

-----------------------------------------------------------------------------
\* What the engine keeps of a flow, and what is recorded of it here.
FlowData ==
  [node : Nodes, transaction : Flows \cup {None}, username : People \cup {None},
   otp : Challenges \cup {None}, context : Nat \cup {None},
   answer : (SUBSET Requested) \cup {None}, prompted : Nat \cup {None},
   consented : (SUBSET Requested) \cup {None}, recorded : BOOLEAN]

History ==
  [sent : SUBSET Challenges, under : Key \cup {None}, proof : Challenges \cup {None},
   decision : (SUBSET Requested) \cup {None}, released : SUBSET Requested]

(***************************************************************************)
(* Types of the flow's data, of what happened and of the verifier (the     *)
(* nodes and inputs of flow-breg-otp.yaml).                                *)
(***************************************************************************)
TypeOK ==
  /\ now \in Nat
  /\ flow \in [Flows -> FlowData]
  /\ log \in [Flows -> History]
  /\ consents \subseteq People \X Flows
  /\ fresh \subseteq Challenges
  /\ current \in [Key -> Challenges \cup {None}]
  /\ used \subseteq Challenges

(***************************************************************************)
(* "TestHostSeedBindsWholeSignIn": the host does not keep the transaction  *)
(* that SendOTP returns, so a code is worth something only when it was     *)
(* sent under the transaction that Authenticate will present.              *)
(***************************************************************************)
CodeFitsFlow ==
  \A f \in Flows :
    flow[f].node \in {"prompt_otp", "authenticate"} => log[f].under = <<flow[f].username, f>>

(***************************************************************************)
(* Whoever is signed in typed a code that was sent in this very sign-in:   *)
(* one mailed for another sign-in of the same person, however alike, does  *)
(* not do, and no two sign-ins succeed with one code.                      *)
(***************************************************************************)
ProofOfThisSignIn ==
  \A f \in Flows : log[f].proof # None =>
    /\ log[f].proof \in log[f].sent \cap used
    /\ \A g \in Flows \ {f} : log[g].proof # log[f].proof

\* The host has a consent record of this sign-in.
OnRecord(f) == <<flow[f].username, f>> \in consents

Refused(f) == log[f].decision # None /\ ~(Essential \subseteq log[f].decision)

(***************************************************************************)
(* A person is told that they declined when they did and the host has it   *)
(* on record, and at no other time: not when the record failed, when the   *)
(* decision was late or when something else went wrong.                    *)
(***************************************************************************)
RefusalIsDenial == \A f \in Flows : At(f, "denied") <=> OnRecord(f) /\ Refused(f)

(***************************************************************************)
(* No claim reaches the client without a consent record of this very       *)
(* sign-in: a decision that came after the prompt's time, though it agrees *)
(* to everything, is not one, nor is a record of another sign-in.          *)
(***************************************************************************)
ReleaseIsOnRecord == \A f \in Flows : log[f].released # {} => OnRecord(f)

(***************************************************************************)
(* What the person agreed to in time is what the client receives, as far   *)
(* as the registry has it: the probes before the consent have not used up  *)
(* the context, and a sign-in so slow that the context expired ends in an  *)
(* error and not with fewer claims.                                        *)
(***************************************************************************)
AgreedIsDelivered ==
  \A f \in Flows : At(f, "end") /\ flow[f].recorded =>
    log[f].released = log[f].decision \cap Sourced

(***************************************************************************)
(* Once the person has decided the flow ends, however they decided, late   *)
(* or in time, and by either button: a decision never leads back to the    *)
(* prompt, which only an answer without decisions does.                    *)
(***************************************************************************)
ConsentSettlesFor(f) == ~(log[f].decision = None) ~> flow[f].node \in Over
ConsentSettles == \A f \in Flows : ConsentSettlesFor(f)

\* What fairness needs to get a flow from there to its end: a step to take.
Answered(f) == At(f, "consent_check") /\ flow[f].answer # None

NeverStuck ==
  \A f \in Flows : Answered(f) \/ At(f, "auth_assert") => ENABLED <<Task(f)>>_vars

(***************************************************************************)
(* With its nodes, codes and clock a sign-in is a ConsentedRelease: earlier*)
(* consents of the same person count for nothing, a timeout shares nothing,*)
(* a refusal of an essential claim shares nothing.                         *)
(***************************************************************************)
Stage(f) ==
  IF At(f, "end") THEN "released"
  ELSE IF flow[f].node \in {"denied", "error"} THEN "stopped"
  ELSE IF log[f].decision # None THEN "decided"
  ELSE IF log[f].proof # None THEN "known"
  ELSE "open"

Promise == INSTANCE ConsentedRelease WITH
  stage <- [f \in Flows |-> Stage(f)],
  decision <- [f \in Flows |-> log[f].decision],
  given <- [f \in Flows |-> log[f].released]

ImplementsConsentedRelease == Promise!RSpec

=============================================================================
