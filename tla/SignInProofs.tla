---------------------------- MODULE SignInProofs ----------------------------
(***************************************************************************)
(* Proofs about SignIn for any number of sign-ins, people and codes, any   *)
(* request of the client and any deadline.                                 *)
(*                                                                         *)
(* The invariant says, node by node, what a flow has been through: before  *)
(* the code was accepted there is no decision, between the probe and the   *)
(* assertion there is exactly the one that was taken, and what is about to *)
(* be asked for is within it.                                              *)
(* To that it adds whose code is current for a sign-in, and what the host  *)
(* has on record of it.  One lemma per part shows that each action keeps   *)
(* it.                                                                     *)
(***************************************************************************)
EXTENDS SignIn, TLAPS

-----------------------------------------------------------------------------
BeforeLogin ==
  {"start", "seed_transaction_id", "select_otp", "prompt_identifier", "send_otp", "prompt_otp",
   "authenticate"}

BeforeConsent == {"clear_otp", "authorization_check", "prompt_consent"}

\* Nothing was decided, kept or recorded.
Undecided(f) ==
  /\ log[f].decision = None
  /\ flow[f].answer = None
  /\ flow[f].consented = None
  /\ flow[f].recorded = FALSE

\* What is to be released is within the decision.
Agreed(f, A) ==
  /\ log[f].decision # None
  /\ A \subseteq log[f].decision
  /\ A # {} => Essential \subseteq log[f].decision

Progress(f) ==
  /\ flow[f].node \in BeforeLogin => Undecided(f) /\ log[f].proof = None
  /\ flow[f].node \in BeforeConsent => Undecided(f) /\ log[f].proof # None
  /\ At(f, "consent_check") =>
       /\ log[f].proof # None
       /\ flow[f].answer = log[f].decision
       /\ flow[f].consented = None
       /\ flow[f].recorded = FALSE
  /\ At(f, "auth_assert") =>
       /\ log[f].proof # None
       /\ flow[f].consented # None
       /\ Agreed(f, flow[f].consented)
       /\ flow[f].recorded => flow[f].consented = log[f].decision
  /\ flow[f].node \in BeforeConsent \cup {"consent_check", "auth_assert"} => flow[f].context # None
  /\ At(f, "end") =>
       /\ log[f].decision # None
       /\ flow[f].recorded => log[f].released = log[f].decision \cap Sourced
  /\ ~At(f, "end") => log[f].released = {}

\* The transaction of a flow is its own from the seed on, its person is known
\* once the identifier was given.
Seeded(f) ==
  /\ ~(flow[f].node \in {"start", "seed_transaction_id"} \cup Over) => flow[f].transaction = f
  /\ flow[f].node \in {"send_otp", "prompt_otp", "authenticate", "consent_check"} \cup BeforeConsent =>
       flow[f].username \in People

ProgressInv == \A f \in Flows : Progress(f) /\ Seeded(f)

\* The code that is current for a sign-in was sent in it, no code is sent in
\* two, and whoever is signed in used one of this sign-in.
CodesInv ==
  /\ \A f \in Flows : log[f].sent \cap fresh = {}
  /\ \A f \in Flows : \A g \in Flows \ {f} : log[f].sent \cap log[g].sent = {}
  /\ \A f \in Flows, p \in People :
       current[<<p, f>>] # None => current[<<p, f>>] \in log[f].sent
  /\ \A f \in Flows : log[f].proof # None => log[f].proof \in log[f].sent \cap used
  /\ CodeFitsFlow

\* There is a consent record only of a sign-in whose decision was taken in
\* time; a refusal on record has stopped it, and without a record nothing is
\* about to be asked for.
Recorded(f) ==
  /\ ~(flow[f].node \in {"auth_assert"} \cup Over) => \A p \in People : <<p, f>> \notin consents
  /\ At(f, "auth_assert") =>
       IF OnRecord(f) THEN Essential \subseteq log[f].decision ELSE flow[f].consented = {}
  /\ log[f].released # {} => OnRecord(f)
  /\ At(f, "denied") <=> OnRecord(f) /\ Refused(f)

RecordInv == \A f \in Flows : Recorded(f)

IInv == TypeOK /\ ProgressInv /\ CodesInv /\ RecordInv

-----------------------------------------------------------------------------
\* The edges of the flow, one by one.
LEMMA Edges ==
  /\ OnSuccess["start"] = "seed_transaction_id"
  /\ OnSuccess["seed_transaction_id"] = "select_otp"
  /\ OnSuccess["send_otp"] = "prompt_otp"
  /\ OnSuccess["authenticate"] = "clear_otp"
  /\ OnSuccess["clear_otp"] = "authorization_check"
  /\ OnSuccess["authorization_check"] = "consent_check"
  /\ OnSuccess["consent_check"] = "auth_assert"
  /\ OnSuccess["auth_assert"] = "end"
  /\ OnIncomplete["consent_check"] = "prompt_consent"
  /\ NextNode.select_otp_action = "prompt_identifier"
  /\ NextNode.send_otp_action = "send_otp"
  /\ NextNode.verify_action = "authenticate"
  /\ NextNode["allow_action"] = "consent_check"
  /\ NextNode["deny_action"] = "consent_check"
  /\ \A action \in {"allow_action", "deny_action"} : "consent_decisions" \in Inputs[action]
BY DEF OnSuccess, OnIncomplete, NextNode, Inputs

\* The code is offered and used under the key of the flow's own person.
LEMMA KeysOfFlows ==
  ASSUME TypeOK, NEW f \in Flows, flow[f].username # None
  PROVE  /\ OtpKey(f) \in Key
         /\ flow[f].transaction # None => BoundTo(f, flow[f].transaction) \in Key
BY DEF TypeOK, FlowData, Key, OtpKey, BoundTo

-----------------------------------------------------------------------------
\* One field of one flow is written, then another: the actions' EXCEPTs are
\* chains of these.
LEMMA FlowWrites ==
  ASSUME NEW F \in [Flows -> FlowData], NEW f \in Flows
  PROVE  /\ \A n \in Nodes : [F EXCEPT ![f].node = n] \in [Flows -> FlowData]
         /\ \A t \in Flows \cup {None} : [F EXCEPT ![f].transaction = t] \in [Flows -> FlowData]
         /\ \A p \in People \cup {None} : [F EXCEPT ![f].username = p] \in [Flows -> FlowData]
         /\ \A c \in Challenges \cup {None} : [F EXCEPT ![f].otp = c] \in [Flows -> FlowData]
         /\ \A t \in Nat \cup {None} : [F EXCEPT ![f].context = t] \in [Flows -> FlowData]
         /\ \A A \in (SUBSET Requested) \cup {None} : [F EXCEPT ![f].answer = A] \in [Flows -> FlowData]
         /\ \A t \in Nat \cup {None} : [F EXCEPT ![f].prompted = t] \in [Flows -> FlowData]
         /\ \A A \in (SUBSET Requested) \cup {None} : [F EXCEPT ![f].consented = A] \in [Flows -> FlowData]
         /\ \A b \in BOOLEAN : [F EXCEPT ![f].recorded = b] \in [Flows -> FlowData]
<1>1. \A n \in Nodes : [F EXCEPT ![f].node = n] \in [Flows -> FlowData]
  BY DEF FlowData
<1>2. \A t \in Flows \cup {None} : [F EXCEPT ![f].transaction = t] \in [Flows -> FlowData]
  BY DEF FlowData
<1>3. \A p \in People \cup {None} : [F EXCEPT ![f].username = p] \in [Flows -> FlowData]
  BY DEF FlowData
<1>4. \A c \in Challenges \cup {None} : [F EXCEPT ![f].otp = c] \in [Flows -> FlowData]
  BY DEF FlowData
<1>5. \A t \in Nat \cup {None} : [F EXCEPT ![f].context = t] \in [Flows -> FlowData]
  BY DEF FlowData
<1>6. \A A \in (SUBSET Requested) \cup {None} : [F EXCEPT ![f].answer = A] \in [Flows -> FlowData]
  BY DEF FlowData
<1>7. \A t \in Nat \cup {None} : [F EXCEPT ![f].prompted = t] \in [Flows -> FlowData]
  BY DEF FlowData
<1>8. \A A \in (SUBSET Requested) \cup {None} : [F EXCEPT ![f].consented = A] \in [Flows -> FlowData]
  BY DEF FlowData
<1>9. \A b \in BOOLEAN : [F EXCEPT ![f].recorded = b] \in [Flows -> FlowData]
  BY DEF FlowData
<1> QED
  BY <1>1, <1>2, <1>3, <1>4, <1>5, <1>6, <1>7, <1>8, <1>9

LEMMA LogWrites ==
  ASSUME NEW L \in [Flows -> History], NEW f \in Flows
  PROVE  /\ \A c \in Challenges : [L EXCEPT ![f].sent = @ \cup {c}] \in [Flows -> History]
         /\ \A k \in Key : [L EXCEPT ![f].under = k] \in [Flows -> History]
         /\ \A c \in Challenges : [L EXCEPT ![f].proof = c] \in [Flows -> History]
         /\ \A A \in (SUBSET Requested) \cup {None} : [L EXCEPT ![f].decision = A] \in [Flows -> History]
         /\ \A A \in SUBSET Requested : [L EXCEPT ![f].released = A] \in [Flows -> History]
<1>1. \A c \in Challenges : [L EXCEPT ![f].sent = @ \cup {c}] \in [Flows -> History]
  BY DEF History
<1>2. \A k \in Key : [L EXCEPT ![f].under = k] \in [Flows -> History]
  BY DEF History
<1>3. \A c \in Challenges : [L EXCEPT ![f].proof = c] \in [Flows -> History]
  BY DEF History
<1>4. \A A \in (SUBSET Requested) \cup {None} : [L EXCEPT ![f].decision = A] \in [Flows -> History]
  BY DEF History
<1>5. \A A \in SUBSET Requested : [L EXCEPT ![f].released = A] \in [Flows -> History]
  BY DEF History
<1> QED
  BY <1>1, <1>2, <1>3, <1>4, <1>5

-----------------------------------------------------------------------------
\* The engine's data, the records of what happened and the verifier keep
\* their types.
LEMMA TypeStep == TypeOK /\ ProgressInv /\ [Next]_vars => TypeOK'
<1> SUFFICES ASSUME TypeOK, ProgressInv, [Next]_vars PROVE TypeOK'
  OBVIOUS
<1> USE SignInAssumption DEF TypeOK, verifier, At
<1>n. /\ "seed_transaction_id" \in Nodes /\ "select_otp" \in Nodes /\ "authorization_check" \in Nodes
      /\ "prompt_identifier" \in Nodes /\ "prompt_otp" \in Nodes /\ "prompt_consent" \in Nodes
      /\ "send_otp" \in Nodes /\ "authenticate" \in Nodes /\ "clear_otp" \in Nodes
      /\ "consent_check" \in Nodes /\ "auth_assert" \in Nodes
      /\ "end" \in Nodes /\ "denied" \in Nodes /\ "error" \in Nodes
  BY DEF OnSuccess, Nodes, Prompts, Over
<1>fails. ASSUME NEW f \in Flows, NEW back \in Nodes, FailsTo(f, back)
          PROVE  flow' \in [Flows -> FlowData]
  <2>1. PICK n \in Nodes : flow' = [flow EXCEPT ![f].node = n, ![f].otp = None]
    BY <1>fails, <1>n DEF FailsTo
  <2>2. [flow EXCEPT ![f].node = n] \in [Flows -> FlowData]
    BY FlowWrites
  <2> QED
    BY <2>1, <2>2, FlowWrites
<1>1. CASE Tick
  BY <1>1 DEF Tick
<1>2. ASSUME NEW K, Withdraw(K) PROVE TypeOK'
  BY <1>2 DEF Withdraw, Verifier!Withdraw
<1>3. ASSUME NEW f \in Flows, Select(f) PROVE TypeOK'
  BY <1>3, <1>n, Edges, FlowWrites DEF Select
<1>4. ASSUME NEW f \in Flows, NEW p \in People, Identify(f, p) PROVE TypeOK'
  <2>1. [flow EXCEPT ![f].username = p] \in [Flows -> FlowData]
    BY FlowWrites
  <2>2. flow' = [flow EXCEPT ![f].username = p, ![f].node = "send_otp"]
    BY <1>4, Edges DEF Identify
  <2>3. flow' \in [Flows -> FlowData]
    BY <1>n, <2>1, <2>2, FlowWrites
  <2> QED
    BY <1>4, <2>3 DEF Identify
<1>5. ASSUME NEW f \in Flows, NEW c \in Challenges, EnterCode(f, c) PROVE TypeOK'
  <2>1. [flow EXCEPT ![f].otp = c] \in [Flows -> FlowData]
    BY FlowWrites
  <2>2. flow' = [flow EXCEPT ![f].otp = c, ![f].node = "authenticate"]
    BY <1>5, Edges DEF EnterCode
  <2>3. flow' \in [Flows -> FlowData]
    BY <1>n, <2>1, <2>2, FlowWrites
  <2> QED
    BY <1>5, <2>3 DEF EnterCode
<1>6. ASSUME NEW f \in Flows, NEW A \in (SUBSET Requested) \cup {None},
             NEW a \in {"allow_action", "deny_action"}, Decide(f, A, a)
      PROVE  TypeOK'
  <2>1. [flow EXCEPT ![f].answer = A] \in [Flows -> FlowData]
    BY FlowWrites
  <2>2. flow' = [flow EXCEPT ![f].answer = A, ![f].node = "consent_check"]
    BY <1>6, Edges DEF Decide
  <2>3. flow' \in [Flows -> FlowData]
    BY <1>n, <2>1, <2>2, FlowWrites
  <2>4. log' \in [Flows -> History]
    BY <1>6, LogWrites DEF Decide
  <2> QED
    BY <1>6, <2>3, <2>4 DEF Decide
<1>7. ASSUME NEW f \in Flows, Pass(f) PROVE TypeOK'
  BY <1>7, <1>n, Edges, FlowWrites DEF Pass
<1>8. ASSUME NEW f \in Flows, Seed(f) PROVE TypeOK'
  <2>1. [flow EXCEPT ![f].transaction = f] \in [Flows -> FlowData]
    BY FlowWrites
  <2>2. flow' = [flow EXCEPT ![f].transaction = f, ![f].node = "select_otp"]
    BY <1>8, Edges DEF Seed, FlowData
  <2>3. flow' \in [Flows -> FlowData]
    BY <1>n, <2>1, <2>2, FlowWrites
  <2> QED
    BY <1>8, <2>3 DEF Seed
<1>9. ASSUME NEW f \in Flows, ClearOtp(f) PROVE TypeOK'
  <2>1. [flow EXCEPT ![f].otp = None] \in [Flows -> FlowData]
    BY FlowWrites
  <2>2. flow' = [flow EXCEPT ![f].otp = None, ![f].node = "authorization_check"]
    BY <1>9, Edges DEF ClearOtp, FlowData
  <2>3. flow' \in [Flows -> FlowData]
    BY <1>n, <2>1, <2>2, FlowWrites
  <2> QED
    BY <1>9, <2>3 DEF ClearOtp
<1>10. ASSUME NEW f \in Flows, NEW c \in Challenges, SendOTP(f, c) PROVE TypeOK'
  <2>1. OtpKey(f) \in Key
    BY <1>10, KeysOfFlows DEF SendOTP, ProgressInv, Seeded
  <2>2. flow' \in [Flows -> FlowData]
    BY <1>10, <1>n, <1>fails, Edges, FlowWrites DEF SendOTP
  <2>3. [log EXCEPT ![f].sent = @ \cup {c}] \in [Flows -> History]
    BY LogWrites
  <2>4. log' \in [Flows -> History]
    BY <1>10, <2>1, <2>3, LogWrites DEF SendOTP
  <2>5. /\ fresh' \subseteq Challenges /\ used' = used
        /\ current' \in [Key -> Challenges \cup {None}]
    BY <1>10, <2>1 DEF SendOTP, Verifier!Offer
  <2> QED
    BY <1>10, <2>2, <2>4, <2>5 DEF SendOTP
<1>11. ASSUME NEW f \in Flows, SendFails(f) \/ Rejected(f) PROVE TypeOK'
  BY <1>11, <1>n, <1>fails DEF SendFails, Rejected
<1>12. ASSUME NEW f \in Flows, Accepted(f) PROVE TypeOK'
  <2> DEFINE k == BoundTo(f, flow[f].transaction)
  <2>1. k \in Key
    BY <1>12, KeysOfFlows DEF Accepted, Matches, ProgressInv, Seeded
  <2>2. flow[f].otp = current[k] /\ current[k] # None /\ flow[f].otp \in Challenges
    BY <1>12, <2>1 DEF Accepted, Matches, Verifier!Use
  <2>3. used' \subseteq Challenges /\ current' \in [Key -> Challenges \cup {None}] /\ fresh' = fresh
    BY <1>12, <2>1, <2>2 DEF Accepted, Verifier!Use
  <2>4. [flow EXCEPT ![f].context = now] \in [Flows -> FlowData]
    BY FlowWrites
  <2>5. flow' \in [Flows -> FlowData]
    BY <1>12, <1>n, <1>fails, <2>4, Edges, FlowWrites DEF Accepted
  <2>6. log' \in [Flows -> History]
    BY <1>12, <2>2, LogWrites DEF Accepted
  <2>7. now' = now /\ consents' = consents
    BY <1>12 DEF Accepted
  <2> QED
    BY <2>3, <2>5, <2>6, <2>7
<1>13. ASSUME NEW f \in Flows, ConsentCheck(f) PROVE TypeOK'
  <2>0. PICK t \in {now, flow[f].prompted} \ {None} :
          flow' = [flow EXCEPT ![f].context = AfterProbe(@), ![f].prompted = t,
                               ![f].node = IF Asks(flow[f].username) THEN OnIncomplete[@] ELSE OnSuccess[@]]
    BY <1>13 DEF ConsentCheck
  <2>1. t \in Nat \cup {None}
    BY DEF FlowData
  <2>2. [flow EXCEPT ![f].prompted = t] \in [Flows -> FlowData]
    BY <2>1, FlowWrites
  <2>c. flow' = [flow EXCEPT ![f].prompted = t, ![f].node = "prompt_consent"]
    BY <1>13, <2>0, Edges DEF ConsentCheck, AfterProbe, Asks, HostAsks, FlowData
  <2>3. flow' \in [Flows -> FlowData]
    BY <1>n, <2>2, <2>c, FlowWrites
  <2> QED
    BY <1>13, <2>3 DEF ConsentCheck
<1>14. ASSUME NEW f \in Flows, RecordConsent(f) PROVE TypeOK'
  <2>1. flow[f].answer \in SUBSET Requested
    BY <1>14 DEF RecordConsent, FlowData
  <2>2. [flow EXCEPT ![f].consented = flow[f].answer] \in [Flows -> FlowData]
    BY <2>1, FlowWrites
  <2>3. [flow EXCEPT ![f].consented = flow[f].answer, ![f].recorded = TRUE] \in [Flows -> FlowData]
    BY <2>2, FlowWrites
  <2>4. \/ flow' = [flow EXCEPT ![f].consented = flow[f].answer, ![f].recorded = TRUE,
                                ![f].node = "auth_assert"]
        \/ flow' = [flow EXCEPT ![f].node = "denied"]
    BY <1>14, Edges DEF RecordConsent, RecordError, StoppedBy, FlowData
  <2>5. flow' \in [Flows -> FlowData]
    <3>1. CASE flow' = [flow EXCEPT ![f].node = "denied"]
      BY <3>1, <1>n, FlowWrites
    <3>2. CASE flow' = [flow EXCEPT ![f].consented = flow[f].answer, ![f].recorded = TRUE,
                                    ![f].node = "auth_assert"]
      BY <3>2, <1>n, <2>3, FlowWrites
    <3> QED
      BY <3>1, <3>2, <2>4
  <2>6. consents' \subseteq People \X Flows
    BY <1>14 DEF RecordConsent, ProgressInv, Seeded
  <2> QED
    BY <1>14, <2>5, <2>6 DEF RecordConsent
<1>15. ASSUME NEW f \in Flows, ConsentFails(f) PROVE TypeOK'
  BY <1>15, <1>n, FlowWrites DEF ConsentFails, RecordError, StoppedBy
<1>16. ASSUME NEW f \in Flows, ConsentTimesOut(f) PROVE TypeOK'
  <2>1. [flow EXCEPT ![f].consented = {}] \in [Flows -> FlowData]
    BY FlowWrites
  <2>2. flow' = [flow EXCEPT ![f].consented = {}, ![f].node = "auth_assert"]
    BY <1>16, Edges DEF ConsentTimesOut
  <2>3. flow' \in [Flows -> FlowData]
    BY <1>n, <2>1, <2>2, FlowWrites
  <2> QED
    BY <1>16, <2>3 DEF ConsentTimesOut
<1>17. ASSUME NEW f \in Flows, AuthAssert(f) PROVE TypeOK'
  <2>1. UserAttributes(f) \in SUBSET Requested
    BY DEF UserAttributes, FlowData
  <2>2. [flow EXCEPT ![f].context = None] \in [Flows -> FlowData]
    BY FlowWrites
  <2>3. flow' = [flow EXCEPT ![f].context = None, ![f].node = "end"]
    BY <1>17, Edges DEF AuthAssert, FlowData
  <2>4. flow' \in [Flows -> FlowData]
    BY <1>n, <2>2, <2>3, FlowWrites
  <2>5. log' \in [Flows -> History]
    BY <1>17, <2>1, LogWrites DEF AuthAssert
  <2> QED
    BY <1>17, <2>4, <2>5 DEF AuthAssert
<1>18. ASSUME NEW f \in Flows, AuthAssertFails(f) PROVE TypeOK'
  BY <1>18, <1>n, FlowWrites DEF AuthAssertFails
<1>19. CASE UNCHANGED vars
  BY <1>19 DEF vars
<1> HIDE DEF TypeOK, verifier, At
<1>20. ASSUME NEW f \in Flows, Task(f) PROVE TypeOK'
  BY <1>20, <1>7, <1>8, <1>9, <1>10, <1>11, <1>12, <1>13, <1>14, <1>15, <1>16, <1>17, <1>18 DEF Task
<1>21. ASSUME NEW f \in Flows, Person(f) PROVE TypeOK'
  BY <1>21, <1>3, <1>4, <1>5, <1>6 DEF Person, Answer
<1> QED
  BY <1>1, <1>2, <1>19, <1>20, <1>21 DEF Next

-----------------------------------------------------------------------------
\* What is known of a flow that a step of another flow leaves alone.
LEMMA OthersKeep ==
  ASSUME ProgressInv, NEW f \in Flows,
         \A g \in Flows \ {f} : flow'[g] = flow[g] /\ log'[g] = log[g],
         Progress(f)', Seeded(f)'
  PROVE  ProgressInv'
BY DEF ProgressInv, Progress, Seeded, Undecided, Agreed, At

\* Each task and each answer leads to a node of whose past the invariant holds.
LEMMA ProgressStep == TypeOK /\ ProgressInv /\ [Next]_vars => ProgressInv'
<1> SUFFICES ASSUME TypeOK, ProgressInv, [Next]_vars PROVE ProgressInv'
  OBVIOUS
<1> USE DEF At, Progress, Seeded, Undecided, Agreed, BeforeLogin, BeforeConsent, Over
<1> DEFINE Before(f) ==
      /\ DOMAIN flow[f] = {"node", "transaction", "username", "otp", "context", "answer",
                           "prompted", "consented", "recorded"}
      /\ DOMAIN log[f] = {"sent", "under", "proof", "decision", "released"}
      /\ Progress(f) /\ Seeded(f)
<1>d. ASSUME NEW f \in Flows PROVE Before(f)
  BY DEF TypeOK, FlowData, History, ProgressInv
<1>o. /\ flow \in [Flows -> FlowData] /\ log \in [Flows -> History]
  BY DEF TypeOK
<1> DEFINE Only(f) == \A g \in Flows \ {f} : flow'[g] = flow[g] /\ log'[g] = log[g]
           Holds(f) == Progress(f)' /\ Seeded(f)'
<1>0. ASSUME UNCHANGED <<flow, log>> PROVE ProgressInv'
  BY <1>0 DEF ProgressInv
<1>only. ASSUME NEW f \in Flows, Only(f), Holds(f) PROVE ProgressInv'
  BY <1>only, OthersKeep
<1> HIDE DEF Holds, Before
<1>1. ASSUME NEW f \in Flows, Select(f) PROVE ProgressInv'
  <2>1. flow'[f] = [flow[f] EXCEPT !.node = "prompt_identifier"]
    BY <1>1, <1>o, <1>d, Edges DEF Before, Select
  <2>2. log'[f] = log[f]
    BY <1>1, <1>o DEF Select
  <2>3. Only(f)
    BY <1>1, <1>o DEF Select
  <2>g. At(f, "select_otp")
    BY <1>1 DEF Select
  <2>p. Before(f)
    BY <1>d
  <2>4. Holds(f)
    BY <2>g, <2>p, <2>1, <2>2 DEF Holds, Before
  <2> QED
    BY <2>3, <2>4, <1>only
<1>2. ASSUME NEW f \in Flows, NEW p \in People, Identify(f, p) PROVE ProgressInv'
  <2>1. flow'[f] = [flow[f] EXCEPT !.username = p, !.node = "send_otp"]
    BY <1>2, <1>o, <1>d, Edges DEF Before, Identify
  <2>2. log'[f] = log[f]
    BY <1>2, <1>o DEF Identify
  <2>3. Only(f)
    BY <1>2, <1>o DEF Identify
  <2>g. At(f, "prompt_identifier")
    BY <1>2 DEF Identify
  <2>p. Before(f)
    BY <1>d
  <2>4. Holds(f)
    BY <2>g, <2>p, <2>1, <2>2 DEF Holds, Before
  <2> QED
    BY <2>3, <2>4, <1>only
<1>3. ASSUME NEW f \in Flows, NEW c \in Challenges, EnterCode(f, c) PROVE ProgressInv'
  <2>1. flow'[f] = [flow[f] EXCEPT !.otp = c, !.node = "authenticate"]
    BY <1>3, <1>o, <1>d, Edges DEF Before, EnterCode
  <2>2. log'[f] = log[f]
    BY <1>3, <1>o DEF EnterCode
  <2>3. Only(f)
    BY <1>3, <1>o DEF EnterCode
  <2>g. At(f, "prompt_otp")
    BY <1>3 DEF EnterCode
  <2>p. Before(f)
    BY <1>d
  <2>4. Holds(f)
    BY <2>g, <2>p, <2>1, <2>2 DEF Holds, Before
  <2> QED
    BY <2>3, <2>4, <1>only
<1>4. ASSUME NEW f \in Flows, NEW A \in (SUBSET Requested) \cup {None}, NEW a \in {"allow_action", "deny_action"}, Decide(f, A, a)
      PROVE  ProgressInv'
  <2>1. flow'[f] = [flow[f] EXCEPT !.answer = A, !.node = "consent_check"]
    BY <1>4, <1>o, <1>d, Edges DEF Before, Decide
  <2>2. log'[f] = [log[f] EXCEPT !.decision = A]
    BY <1>4, <1>o DEF Decide
  <2>3. Only(f)
    BY <1>4, <1>o DEF Decide
  <2>g. At(f, "prompt_consent")
    BY <1>4 DEF Decide
  <2>p. Before(f)
    BY <1>d
  <2>4. Holds(f)
    BY <2>g, <2>p, <2>1, <2>2 DEF Holds, Before
  <2> QED
    BY <2>3, <2>4, <1>only
<1>5. ASSUME NEW f \in Flows, Seed(f) PROVE ProgressInv'
  <2>1. flow'[f] = [flow[f] EXCEPT !.transaction = f, !.node = "select_otp"]
    BY <1>5, <1>o, <1>d, Edges DEF Before, Seed
  <2>2. log'[f] = log[f]
    BY <1>5, <1>o DEF Seed
  <2>3. Only(f)
    BY <1>5, <1>o DEF Seed
  <2>g. At(f, "seed_transaction_id")
    BY <1>5 DEF Seed
  <2>p. Before(f)
    BY <1>d
  <2>4. Holds(f)
    BY <2>g, <2>p, <2>1, <2>2 DEF Holds, Before
  <2> QED
    BY <2>3, <2>4, <1>only
<1>6. ASSUME NEW f \in Flows, ClearOtp(f) PROVE ProgressInv'
  <2>1. flow'[f] = [flow[f] EXCEPT !.otp = None, !.node = "authorization_check"]
    BY <1>6, <1>o, <1>d, Edges DEF Before, ClearOtp
  <2>2. log'[f] = log[f]
    BY <1>6, <1>o DEF ClearOtp
  <2>3. Only(f)
    BY <1>6, <1>o DEF ClearOtp
  <2>g. At(f, "clear_otp")
    BY <1>6 DEF ClearOtp
  <2>p. Before(f)
    BY <1>d
  <2>4. Holds(f)
    BY <2>g, <2>p, <2>1, <2>2 DEF Holds, Before
  <2> QED
    BY <2>3, <2>4, <1>only
<1>7. ASSUME NEW f \in Flows, Pass(f) PROVE ProgressInv'
  <2>1. \/ At(f, "start") /\ flow'[f] = [flow[f] EXCEPT !.node = "seed_transaction_id"]
        \/ At(f, "authorization_check") /\ flow'[f] = [flow[f] EXCEPT !.node = "consent_check"]
    BY <1>7, <1>o, <1>d, Edges DEF Before, Pass
  <2>2. log'[f] = log[f]
    BY <1>7, <1>o DEF Pass
  <2>3. Only(f)
    BY <1>7, <1>o DEF Pass
  <2>p. Before(f)
    BY <1>d
  <2>4. Holds(f)
    BY <1>7, <2>p, <2>1, <2>2 DEF Holds, Before
  <2> QED
    BY <2>3, <2>4, <1>only
<1>fails. ASSUME NEW f \in Flows, NEW back, FailsTo(f, back)
          PROVE  \E m \in {back, "error"} : flow'[f] = [flow[f] EXCEPT !.node = m, !.otp = None]
  BY <1>fails, <1>o DEF FailsTo
<1>8. ASSUME NEW f \in Flows, NEW c \in Challenges, SendOTP(f, c) PROVE ProgressInv'
  <2>1. \E m \in {"prompt_otp", "prompt_identifier", "error"} :
          \/ flow'[f] = [flow[f] EXCEPT !.node = m]
          \/ flow'[f] = [flow[f] EXCEPT !.node = m, !.otp = None]
    <3>1. CASE FailsTo(f, "prompt_identifier")
      BY <3>1, <1>fails
    <3>2. CASE flow' = [flow EXCEPT ![f].node = OnSuccess[@]]
      <4>1. flow[f].node = "send_otp"
        BY <1>8 DEF SendOTP
      <4> QED
        BY <3>2, <4>1, <1>o, Edges
    <3> QED
      BY <1>8, <3>1, <3>2 DEF SendOTP
  <2>2. log'[f] = [log[f] EXCEPT !.sent = @ \cup {c}, !.under = OtpKey(f)]
    BY <1>8, <1>o DEF SendOTP
  <2>3. Only(f)
    BY <1>8, <1>o DEF SendOTP, FailsTo
  <2>g. At(f, "send_otp")
    BY <1>8 DEF SendOTP
  <2>p. Before(f)
    BY <1>d
  <2>4. Holds(f)
    BY <2>g, <2>p, <2>1, <2>2 DEF Holds, Before
  <2> QED
    BY <2>3, <2>4, <1>only
<1>9. ASSUME NEW f \in Flows, SendFails(f) \/ Rejected(f) PROVE ProgressInv'
  <2>1. \/ /\ At(f, "send_otp")
           /\ \E m \in {"prompt_identifier", "error"} :
                flow'[f] = [flow[f] EXCEPT !.node = m, !.otp = None]
        \/ /\ At(f, "authenticate")
           /\ \E m \in {"prompt_otp", "error"} :
                flow'[f] = [flow[f] EXCEPT !.node = m, !.otp = None]
    BY <1>9, <1>fails DEF SendFails, Rejected
  <2>2. log'[f] = log[f]
    BY <1>9 DEF SendFails, Rejected
  <2>3. Only(f)
    BY <1>9, <1>o DEF SendFails, Rejected, FailsTo
  <2>p. Before(f)
    BY <1>d
  <2>4. Holds(f)
    BY <2>p, <2>1, <2>2 DEF Holds, Before
  <2> QED
    BY <2>3, <2>4, <1>only
<1>10. ASSUME NEW f \in Flows, Accepted(f) PROVE ProgressInv'
  <2>1. flow[f].otp # None
    BY <1>10 DEF Accepted, Matches, Verifier!Use
  <2>g. At(f, "authenticate")
    BY <1>10 DEF Accepted
  <2>p. Before(f)
    BY <1>d
  <2>3. Only(f)
    BY <1>10, <1>o DEF Accepted, FailsTo
  <2>4. CASE FailsTo(f, "prompt_otp") /\ UNCHANGED log
    <3>1. \E m \in {"prompt_otp", "error"} :
            flow'[f] = [flow[f] EXCEPT !.node = m, !.otp = None]
      BY <2>4, <1>fails
    <3>2. log'[f] = log[f]
      BY <2>4
    <3>3. Holds(f)
      BY <2>g, <2>p, <3>1, <3>2 DEF Holds, Before
    <3> QED
      BY <2>3, <3>3, <1>only
  <2>5. CASE /\ flow' = [flow EXCEPT ![f].context = now, ![f].node = OnSuccess[@]]
             /\ log' = [log EXCEPT ![f].proof = flow[f].otp]
    <3>1. flow'[f] = [flow[f] EXCEPT !.context = now, !.node = "clear_otp"]
      BY <2>5, <2>g, <2>p, <1>o, Edges DEF Before
    <3>2. log'[f] = [log[f] EXCEPT !.proof = flow[f].otp]
      BY <2>5, <1>o
    <3>3. now # None
      BY SignInAssumption DEF TypeOK
    <3>4. Holds(f)
      BY <2>g, <2>p, <2>1, <3>1, <3>2, <3>3 DEF Holds, Before
    <3> QED
      BY <2>3, <3>4, <1>only
  <2> QED
    BY <1>10, <2>4, <2>5 DEF Accepted
<1>11. ASSUME NEW f \in Flows, ConsentCheck(f) PROVE ProgressInv'
  <2>0. PICK t \in {now, flow[f].prompted} \ {None} :
          flow' = [flow EXCEPT ![f].context = AfterProbe(@), ![f].prompted = t,
                               ![f].node = IF Asks(flow[f].username) THEN OnIncomplete[@] ELSE OnSuccess[@]]
    BY <1>11 DEF ConsentCheck
  <2>a. flow[f].node = "consent_check"
    BY <1>11 DEF ConsentCheck
  <2>b. flow'[f] = [flow[f] EXCEPT !.context = flow[f].context, !.prompted = t, !.node = "prompt_consent"]
    BY <2>0, <2>a, <1>o, Edges DEF AfterProbe, Asks, HostAsks
  <2>1. flow'[f] = [flow[f] EXCEPT !.prompted = t, !.node = "prompt_consent"]
    BY <2>b, <1>d DEF Before
  <2>2. log'[f] = log[f]
    BY <1>11, <1>o DEF ConsentCheck
  <2>3. Only(f)
    BY <1>11, <1>o DEF ConsentCheck
  <2>g. At(f, "consent_check") /\ flow[f].answer = None
    BY <1>11 DEF ConsentCheck
  <2>p. Before(f)
    BY <1>d
  <2>4. Holds(f)
    BY <2>g, <2>p, <2>1, <2>2 DEF Holds, Before
  <2> QED
    BY <2>3, <2>4, <1>only
<1>12. ASSUME NEW f \in Flows, RecordConsent(f) PROVE ProgressInv'
  <2>1. IF Essential \subseteq flow[f].answer
          THEN flow'[f] = [flow[f] EXCEPT !.consented = flow[f].answer, !.recorded = TRUE,
                                          !.node = "auth_assert"]
          ELSE flow'[f] = [flow[f] EXCEPT !.node = "denied"]
    BY <1>12, <1>o, <1>d, Edges DEF Before, RecordConsent, RecordError, StoppedBy
  <2>2. log'[f] = log[f]
    BY <1>12 DEF RecordConsent
  <2>3. Only(f)
    BY <1>12, <1>o DEF RecordConsent
  <2>g. At(f, "consent_check") /\ flow[f].answer # None
    BY <1>12 DEF RecordConsent
  <2>p. Before(f)
    BY <1>d
  <2>4. Holds(f)
    BY <2>g, <2>p, <2>1, <2>2 DEF Holds, Before
  <2> QED
    BY <2>3, <2>4, <1>only
<1>13. ASSUME NEW f \in Flows, ConsentFails(f) PROVE ProgressInv'
  <2>1. flow'[f] = [flow[f] EXCEPT !.node = "error"]
    BY <1>13, <1>o, <1>d, Edges DEF Before, ConsentFails, RecordError, StoppedBy
  <2>2. log'[f] = log[f]
    BY <1>13, <1>o DEF ConsentFails
  <2>3. Only(f)
    BY <1>13, <1>o DEF ConsentFails
  <2>g. At(f, "consent_check")
    BY <1>13 DEF ConsentFails
  <2>p. Before(f)
    BY <1>d
  <2>4. Holds(f)
    BY <2>g, <2>p, <2>1, <2>2 DEF Holds, Before
  <2> QED
    BY <2>3, <2>4, <1>only
<1>14. ASSUME NEW f \in Flows, ConsentTimesOut(f) PROVE ProgressInv'
  <2>1. flow'[f] = [flow[f] EXCEPT !.consented = {}, !.node = "auth_assert"]
    BY <1>14, <1>o, <1>d, Edges DEF Before, ConsentTimesOut
  <2>2. log'[f] = log[f]
    BY <1>14 DEF ConsentTimesOut
  <2>3. Only(f)
    BY <1>14, <1>o DEF ConsentTimesOut
  <2>4. {} # None
    BY SignInAssumption
  <2>g. At(f, "consent_check") /\ flow[f].answer # None
    BY <1>14 DEF ConsentTimesOut
  <2>p. Before(f)
    BY <1>d
  <2>5. Holds(f)
    BY <2>g, <2>p, <2>1, <2>2, <2>4 DEF Holds, Before
  <2> QED
    BY <2>3, <2>5, <1>only
<1>15. ASSUME NEW f \in Flows, AuthAssertFails(f) PROVE ProgressInv'
  <2>1. flow'[f] = [flow[f] EXCEPT !.node = "error"]
    BY <1>15, <1>o, <1>d, Edges DEF Before, AuthAssertFails
  <2>2. log'[f] = log[f]
    BY <1>15, <1>o DEF AuthAssertFails
  <2>3. Only(f)
    BY <1>15, <1>o DEF AuthAssertFails
  <2>g. At(f, "auth_assert")
    BY <1>15 DEF AuthAssertFails
  <2>p. Before(f)
    BY <1>d
  <2>4. Holds(f)
    BY <2>g, <2>p, <2>1, <2>2 DEF Holds, Before
  <2> QED
    BY <2>3, <2>4, <1>only
<1>16. ASSUME NEW f \in Flows, AuthAssert(f) PROVE ProgressInv'
  <2>1. flow'[f] = [flow[f] EXCEPT !.context = None, !.node = "end"]
    BY <1>16, <1>o, <1>d, Edges DEF Before, AuthAssert
  <2>g. At(f, "auth_assert")
    BY <1>16 DEF AuthAssert
  <2>p. Before(f)
    BY <1>d
  <2>2. log'[f] = [log[f] EXCEPT !.released = flow[f].consented \cap Sourced]
    BY <1>16, <1>o, <2>g, <2>p DEF AuthAssert, UserAttributes, Before
  <2>3. Only(f)
    BY <1>16, <1>o DEF AuthAssert
  <2>4. Holds(f)
    BY <2>g, <2>p, <2>1, <2>2 DEF Holds, Before
  <2> QED
    BY <2>3, <2>4, <1>only
<1>17. ASSUME NEW K, Withdraw(K) PROVE ProgressInv'
  BY <1>17, <1>0 DEF Withdraw
<1>18. CASE Tick
  BY <1>18, <1>0 DEF Tick
<1>19. CASE UNCHANGED vars
  BY <1>19, <1>0 DEF vars
<1>20. ASSUME NEW f \in Flows, Task(f) PROVE ProgressInv'
  BY <1>20, <1>5, <1>6, <1>7, <1>8, <1>9, <1>10, <1>11, <1>12, <1>13, <1>14, <1>15, <1>16 DEF Task
<1>21. ASSUME NEW f \in Flows, Person(f) PROVE ProgressInv'
  BY <1>21, <1>1, <1>2, <1>3, <1>4 DEF Person, Answer
<1> QED
  BY <1>17, <1>18, <1>19, <1>20, <1>21 DEF Next

-----------------------------------------------------------------------------
\* Steps that send no code and accept none.
LEMMA CodesKeep ==
  ASSUME CodesInv, UNCHANGED verifier,
         \A f \in Flows :
           /\ log'[f].sent = log[f].sent /\ log'[f].under = log[f].under
           /\ log'[f].proof = log[f].proof
           /\ flow'[f].node \in {"prompt_otp", "authenticate"} =>
                /\ flow[f].node \in {"prompt_otp", "authenticate"}
                /\ flow'[f].username = flow[f].username
  PROVE  CodesInv'
BY DEF CodesInv, CodeFitsFlow, verifier

\* A code that is sent is new to every sign-in, and the code that is accepted
\* is the one that is current for this sign-in.
LEMMA CodesStep == TypeOK /\ ProgressInv /\ CodesInv /\ [Next]_vars => CodesInv'
<1> SUFFICES ASSUME TypeOK, ProgressInv, CodesInv, [Next]_vars PROVE CodesInv'
  OBVIOUS
<1> USE DEF At
<1>d. ASSUME NEW f \in Flows
      PROVE  /\ DOMAIN flow[f] = {"node", "transaction", "username", "otp", "context", "answer",
                                  "prompted", "consented", "recorded"}
             /\ DOMAIN log[f] = {"sent", "under", "proof", "decision", "released"}
  BY DEF TypeOK, FlowData, History
<1>o. /\ flow \in [Flows -> FlowData] /\ log \in [Flows -> History]
  BY DEF TypeOK
<1>still. ASSUME NEW f \in Flows, UNCHANGED verifier,
                 \A g \in Flows \ {f} : flow'[g] = flow[g],
                 \A g \in Flows : /\ log'[g].sent = log[g].sent /\ log'[g].under = log[g].under
                                  /\ log'[g].proof = log[g].proof,
                 flow'[f].node \in {"prompt_otp", "authenticate"} =>
                   /\ flow[f].node \in {"prompt_otp", "authenticate"}
                   /\ flow'[f].username = flow[f].username
          PROVE  CodesInv'
  BY <1>still, CodesKeep
<1>fails. ASSUME NEW f \in Flows, NEW back, FailsTo(f, back)
          PROVE  /\ \A g \in Flows \ {f} : flow'[g] = flow[g]
                 /\ flow'[f].node \in {back, "error"} /\ flow'[f].username = flow[f].username
  BY <1>fails, <1>o, <1>d DEF FailsTo
<1>1. ASSUME NEW f \in Flows, Select(f) PROVE CodesInv'
  <2>1. /\ flow'[f].node = "prompt_identifier"
        /\ \A g \in Flows \ {f} : flow'[g] = flow[g]
    BY <1>1, <1>o, <1>d, Edges DEF Select
  <2> QED
    BY <1>1, <2>1, <1>still DEF Select
<1>2. ASSUME NEW f \in Flows, NEW p \in People, Identify(f, p) PROVE CodesInv'
  <2>1. /\ flow'[f].node = "send_otp"
        /\ \A g \in Flows \ {f} : flow'[g] = flow[g]
    BY <1>2, <1>o, <1>d, Edges DEF Identify
  <2> QED
    BY <1>2, <2>1, <1>still DEF Identify
<1>3. ASSUME NEW f \in Flows, NEW c \in Challenges, EnterCode(f, c) PROVE CodesInv'
  <2>1. /\ flow[f].node = "prompt_otp" /\ flow'[f].username = flow[f].username
        /\ \A g \in Flows \ {f} : flow'[g] = flow[g]
    BY <1>3, <1>o, <1>d DEF EnterCode
  <2> QED
    BY <1>3, <2>1, <1>still DEF EnterCode
<1>4. ASSUME NEW f \in Flows, NEW A \in (SUBSET Requested) \cup {None},
             NEW a \in {"allow_action", "deny_action"}, Decide(f, A, a)
      PROVE  CodesInv'
  <2>1. /\ flow'[f].node = "consent_check"
        /\ \A g \in Flows \ {f} : flow'[g] = flow[g]
    BY <1>4, <1>o, <1>d, Edges DEF Decide
  <2>2. \A g \in Flows : /\ log'[g].sent = log[g].sent /\ log'[g].under = log[g].under
                         /\ log'[g].proof = log[g].proof
    BY <1>4, <1>o, <1>d DEF Decide
  <2> QED
    BY <1>4, <2>1, <2>2, <1>still DEF Decide
<1>5. ASSUME NEW f \in Flows, Pass(f) \/ Seed(f) \/ ClearOtp(f) PROVE CodesInv'
  <2>1. /\ flow'[f].node \in {"seed_transaction_id", "select_otp", "authorization_check",
                              "consent_check"}
        /\ \A g \in Flows \ {f} : flow'[g] = flow[g]
    <3>1. CASE Pass(f)
      BY <3>1, <1>o, <1>d, Edges DEF Pass
    <3>2. CASE Seed(f)
      BY <3>2, <1>o, <1>d, Edges DEF Seed
    <3>3. CASE ClearOtp(f)
      BY <3>3, <1>o, <1>d, Edges DEF ClearOtp
    <3> QED
      BY <1>5, <3>1, <3>2, <3>3
  <2> QED
    BY <1>5, <2>1, <1>still DEF Pass, Seed, ClearOtp
<1>6. ASSUME NEW f \in Flows, SendFails(f) \/ Rejected(f) PROVE CodesInv'
  <2>1. /\ flow'[f].node \in {"prompt_otp", "prompt_identifier", "error"}
        /\ flow'[f].node = "prompt_otp" => flow[f].node = "authenticate"
        /\ flow'[f].username = flow[f].username
        /\ \A g \in Flows \ {f} : flow'[g] = flow[g]
    BY <1>6, <1>fails DEF SendFails, Rejected
  <2> QED
    BY <1>6, <2>1, <1>still DEF SendFails, Rejected
<1>7. ASSUME NEW f \in Flows, ConsentCheck(f) PROVE CodesInv'
  <2>1. /\ flow'[f].node = "prompt_consent"
        /\ \A g \in Flows \ {f} : flow'[g] = flow[g]
    BY <1>7, <1>o, <1>d, Edges DEF ConsentCheck, Asks, HostAsks
  <2> QED
    BY <1>7, <2>1, <1>still DEF ConsentCheck
<1>8. ASSUME NEW f \in Flows, RecordConsent(f) PROVE CodesInv'
  <2>1. /\ flow'[f].node \in {"auth_assert", "denied"}
        /\ \A g \in Flows \ {f} : flow'[g] = flow[g]
    BY <1>8, <1>o, <1>d, Edges DEF RecordConsent, RecordError, StoppedBy
  <2> QED
    BY <1>8, <2>1, <1>still DEF RecordConsent
<1>9. ASSUME NEW f \in Flows, ConsentFails(f) \/ AuthAssertFails(f) PROVE CodesInv'
  <2>1. /\ flow'[f].node = "error"
        /\ \A g \in Flows \ {f} : flow'[g] = flow[g]
    BY <1>9, <1>o, <1>d DEF ConsentFails, RecordError, StoppedBy, AuthAssertFails
  <2> QED
    BY <1>9, <2>1, <1>still DEF ConsentFails, AuthAssertFails
<1>10. ASSUME NEW f \in Flows, ConsentTimesOut(f) PROVE CodesInv'
  <2>1. /\ flow'[f].node = "auth_assert"
        /\ \A g \in Flows \ {f} : flow'[g] = flow[g]
    BY <1>10, <1>o, <1>d, Edges DEF ConsentTimesOut
  <2> QED
    BY <1>10, <2>1, <1>still DEF ConsentTimesOut
<1>11. ASSUME NEW f \in Flows, AuthAssert(f) PROVE CodesInv'
  <2>1. /\ flow'[f].node = "end"
        /\ \A g \in Flows \ {f} : flow'[g] = flow[g]
    BY <1>11, <1>o, <1>d, Edges DEF AuthAssert
  <2>2. \A g \in Flows : /\ log'[g].sent = log[g].sent /\ log'[g].under = log[g].under
                         /\ log'[g].proof = log[g].proof
    BY <1>11, <1>o, <1>d DEF AuthAssert
  <2> QED
    BY <1>11, <2>1, <2>2, <1>still DEF AuthAssert
<1>12. ASSUME NEW f \in Flows, NEW c \in Challenges, SendOTP(f, c) PROVE CodesInv'
  <2>1. flow[f].username \in People /\ flow[f].transaction = f
    BY <1>12 DEF SendOTP, ProgressInv, Seeded, Over
  <2>2. f # None /\ OtpKey(f) = <<flow[f].username, f>>
    BY <2>1, SignInAssumption DEF OtpKey, BoundTo
  <2>3. /\ log'[f].sent = log[f].sent \cup {c} /\ log'[f].under = <<flow[f].username, f>>
        /\ log'[f].proof = log[f].proof
        /\ \A g \in Flows \ {f} : log'[g] = log[g]
    BY <1>12, <1>o, <1>d, <2>2 DEF SendOTP
  <2>4. /\ flow'[f].username = flow[f].username
        /\ \A g \in Flows \ {f} : flow'[g] = flow[g]
    BY <1>12, <1>o, <1>d, <1>fails DEF SendOTP
  <2>5. /\ c \in fresh /\ fresh' = fresh \ {c} /\ used' = used
        /\ current' = [current EXCEPT ![<<flow[f].username, f>>] = c]
    BY <1>12, <2>2 DEF SendOTP, Verifier!Offer
  <2>6. ASSUME NEW g \in Flows PROVE log'[g].sent \cap fresh' = {}
    BY <2>3, <2>5 DEF CodesInv
  <2>7. ASSUME NEW g \in Flows, NEW h \in Flows \ {g} PROVE log'[g].sent \cap log'[h].sent = {}
    BY <2>3, <2>5 DEF CodesInv
  <2>8. ASSUME NEW g \in Flows, NEW p \in People, current'[<<p, g>>] # None
        PROVE  current'[<<p, g>>] \in log'[g].sent
    <3>1. current \in [Key -> Challenges \cup {None}] /\ <<p, g>> \in Key
      BY DEF TypeOK, Key
    <3>2. CASE p = flow[f].username /\ g = f
      BY <3>1, <3>2, <2>3, <2>5
    <3>3. CASE ~(p = flow[f].username /\ g = f)
      <4>1. current'[<<p, g>>] = current[<<p, g>>]
        BY <3>1, <3>3, <2>5
      <4> QED
        BY <4>1, <2>8, <2>3 DEF CodesInv
    <3> QED
      BY <3>2, <3>3
  <2>9. ASSUME NEW g \in Flows, log'[g].proof # None PROVE log'[g].proof \in log'[g].sent \cap used'
    BY <2>9, <2>3, <2>5 DEF CodesInv
  <2>10. CodeFitsFlow'
    BY <2>3, <2>4 DEF CodesInv, CodeFitsFlow
  <2> QED
    BY <2>6, <2>7, <2>8, <2>9, <2>10 DEF CodesInv
<1>13. ASSUME NEW f \in Flows, Accepted(f) PROVE CodesInv'
  <2>1. flow[f].username \in People /\ flow[f].transaction = f /\ f # None
    BY <1>13, SignInAssumption DEF Accepted, ProgressInv, Seeded, Over
  <2> DEFINE k == <<flow[f].username, f>>
  <2>2. /\ k \in Key /\ current[k] = flow[f].otp /\ current[k] # None
        /\ fresh' = fresh /\ used' = used \cup {current[k]}
        /\ current' = [current EXCEPT ![k] = None]
    BY <1>13, <2>1 DEF Accepted, Matches, BoundTo, Verifier!Use, Key
  <2>3. /\ \A g \in Flows : log'[g].sent = log[g].sent /\ log'[g].under = log[g].under
        /\ \A g \in Flows \ {f} : log'[g] = log[g] /\ flow'[g] = flow[g]
        /\ log'[f].proof = log[f].proof \/ log'[f].proof = flow[f].otp
    BY <1>13, <1>o, <1>d, <1>fails DEF Accepted
  <2>4. /\ flow[f].node = "authenticate"
        /\ flow'[f].node \in {"clear_otp", "prompt_otp", "error"}
        /\ flow'[f].username = flow[f].username
    BY <1>13, <1>o, <1>d, <1>fails, Edges DEF Accepted
  <2>5. ASSUME NEW g \in Flows, NEW p \in People, current'[<<p, g>>] # None
        PROVE  current'[<<p, g>>] \in log'[g].sent
    <3>1. current \in [Key -> Challenges \cup {None}] /\ <<p, g>> \in Key
      BY DEF TypeOK, Key
    <3>2. current'[<<p, g>>] = current[<<p, g>>]
      BY <3>1, <2>2, <2>5
    <3> QED
      BY <3>2, <2>3, <2>5 DEF CodesInv
  <2>6. current[k] \in log[f].sent
    BY <2>1, <2>2 DEF CodesInv
  <2>7. ASSUME NEW g \in Flows, log'[g].proof # None PROVE log'[g].proof \in log'[g].sent \cap used'
    BY <2>7, <2>2, <2>3, <2>6 DEF CodesInv
  <2>8. CodeFitsFlow'
    BY <2>3, <2>4 DEF CodesInv, CodeFitsFlow
  <2> QED
    BY <2>2, <2>3, <2>5, <2>7, <2>8 DEF CodesInv
<1>14. ASSUME NEW K, Withdraw(K) PROVE CodesInv'
  <2>1. /\ flow' = flow /\ log' = log /\ used' = used /\ fresh' = fresh
        /\ current' = [k \in Key |-> IF k \in K THEN None ELSE current[k]]
    BY <1>14 DEF Withdraw, Verifier!Withdraw
  <2>2. ASSUME NEW f \in Flows, NEW p \in People, current'[<<p, f>>] # None
        PROVE  current'[<<p, f>>] = current[<<p, f>>]
    BY <2>1, <2>2 DEF Key
  <2> QED
    BY <2>1, <2>2 DEF CodesInv, CodeFitsFlow
<1>15. CASE Tick
  BY <1>15, CodesKeep DEF Tick
<1>16. CASE UNCHANGED vars
  BY <1>16, CodesKeep DEF vars
<1>17. ASSUME NEW f \in Flows, Task(f) PROVE CodesInv'
  BY <1>17, <1>5, <1>6, <1>7, <1>8, <1>9, <1>10, <1>11, <1>12, <1>13 DEF Task
<1>18. ASSUME NEW f \in Flows, Person(f) PROVE CodesInv'
  BY <1>18, <1>1, <1>2, <1>3, <1>4 DEF Person, Answer
<1> QED
  BY <1>14, <1>15, <1>16, <1>17, <1>18 DEF Next

-----------------------------------------------------------------------------
\* A request touches only its own flow.
LEMMA Touches ==
  ASSUME TypeOK, NEW f \in Flows, Task(f) \/ Person(f)
  PROVE  \A g \in Flows \ {f} : flow'[g] = flow[g] /\ log'[g] = log[g]
<1> USE DEF TypeOK
<1>1. ASSUME NEW p \in People, Identify(f, p)
      PROVE  \A g \in Flows \ {f} : flow'[g] = flow[g] /\ log'[g] = log[g]
  BY <1>1 DEF Identify
<1>2. ASSUME NEW c \in Challenges, EnterCode(f, c)
      PROVE  \A g \in Flows \ {f} : flow'[g] = flow[g] /\ log'[g] = log[g]
  BY <1>2 DEF EnterCode
<1>3. ASSUME NEW A \in (SUBSET Requested) \cup {None}, NEW a, Decide(f, A, a)
      PROVE  \A g \in Flows \ {f} : flow'[g] = flow[g] /\ log'[g] = log[g]
  BY <1>3 DEF Decide
<1>4. CASE Select(f) \/ Pass(f) \/ Seed(f) \/ ClearOtp(f)
  BY <1>4 DEF Select, Pass, Seed, ClearOtp
<1>5. ASSUME NEW c \in Challenges, SendOTP(f, c)
      PROVE  \A g \in Flows \ {f} : flow'[g] = flow[g] /\ log'[g] = log[g]
  BY <1>5 DEF SendOTP, FailsTo
<1>6. CASE SendFails(f) \/ Rejected(f)
  BY <1>6 DEF SendFails, Rejected, FailsTo
<1>7. CASE Accepted(f)
  BY <1>7 DEF Accepted, FailsTo
<1>8. CASE ConsentCheck(f) \/ RecordConsent(f)
  BY <1>8 DEF ConsentCheck, RecordConsent
<1>9. CASE ConsentFails(f) \/ ConsentTimesOut(f)
  BY <1>9 DEF ConsentFails, ConsentTimesOut
<1>10. CASE AuthAssert(f) \/ AuthAssertFails(f)
  BY <1>10 DEF AuthAssert, AuthAssertFails
<1> HIDE DEF TypeOK
<1>11. CASE Task(f)
  BY <1>11, <1>4, <1>5, <1>6, <1>7, <1>8, <1>9, <1>10 DEF Task
<1>12. CASE Person(f)
  BY <1>12, <1>1, <1>2, <1>3, <1>4 DEF Person, Answer
<1> QED
  BY <1>11, <1>12

-----------------------------------------------------------------------------
\* A step of one sign-in, of which it leaves or adds a record, keeps what is
\* on record of the others.
LEMMA OthersRecorded ==
  ASSUME RecordInv, NEW f \in Flows,
         \A g \in Flows \ {f} : flow'[g] = flow[g] /\ log'[g] = log[g],
         \A g \in Flows \ {f} : \A p : <<p, g>> \in consents' <=> <<p, g>> \in consents,
         Recorded(f)'
  PROVE  RecordInv'
BY DEF RecordInv, Recorded, OnRecord, Refused, At

\* Only consent_check makes a record, and what it makes of the decision is
\* what the record says.
LEMMA RecordStep == TypeOK /\ ProgressInv /\ RecordInv /\ [Next]_vars => RecordInv'
<1> SUFFICES ASSUME TypeOK, ProgressInv, RecordInv, [Next]_vars PROVE RecordInv'
  OBVIOUS
<1> USE DEF At
<1>t. TypeOK'
  BY TypeStep
<1>d. ASSUME NEW f \in Flows
      PROVE  /\ DOMAIN flow[f] = {"node", "transaction", "username", "otp", "context", "answer",
                                  "prompted", "consented", "recorded"}
             /\ DOMAIN log[f] = {"sent", "under", "proof", "decision", "released"}
             /\ flow'[f].username \in People \cup {None}
  BY <1>t DEF TypeOK, FlowData, History
<1>o. /\ flow \in [Flows -> FlowData] /\ log \in [Flows -> History]
      /\ consents \subseteq People \X Flows
  BY DEF TypeOK
<1>p. ASSUME NEW f \in Flows PROVE Progress(f) /\ Recorded(f)
  BY DEF ProgressInv, RecordInv
<1>0. ASSUME UNCHANGED <<flow, log, consents>> PROVE RecordInv'
  BY <1>0 DEF RecordInv, Recorded, OnRecord, Refused
\* Before a record there is none, and nothing was released.
<1>early. ASSUME NEW f \in Flows, Task(f) \/ Person(f), consents' = consents,
                 ~(flow[f].node \in {"auth_assert"} \cup Over),
                 ~(flow'[f].node \in {"auth_assert", "denied"}),
                 log'[f].released = log[f].released
          PROVE  RecordInv'
  <2>1. \A p : <<p, f>> \notin consents'
    BY <1>early, <1>o, <1>p DEF Recorded
  <2>2. log'[f].released = {}
    BY <1>early, <1>p DEF Progress, Over
  <2>3. Recorded(f)'
    BY <1>early, <2>1, <2>2 DEF Recorded, OnRecord
  <2> QED
    BY <1>early, <2>3, Touches, OthersRecorded
<1>fails. ASSUME NEW f \in Flows, NEW back, FailsTo(f, back)
          PROVE  flow'[f].node \in {back, "error"}
  BY <1>fails, <1>o, <1>d DEF FailsTo
<1>1. ASSUME NEW f \in Flows, Person(f) PROVE RecordInv'
  <2> DEFINE Early == /\ flow[f].node \in Prompts
                      /\ flow'[f].node \in {"prompt_identifier", "send_otp", "authenticate",
                                           "consent_check"}
                      /\ log'[f].released = log[f].released /\ consents' = consents
  <2>1. CASE Select(f)
    <3>1. Early
      BY <2>1, <1>o, <1>d, Edges DEF Select, Prompts
    <3> QED
      BY <1>1, <3>1, <1>early DEF Prompts, Over
  <2>2. ASSUME NEW p \in People, Identify(f, p) PROVE RecordInv'
    <3>1. Early
      BY <2>2, <1>o, <1>d, Edges DEF Identify, Prompts
    <3> QED
      BY <1>1, <3>1, <1>early DEF Prompts, Over
  <2>3. ASSUME NEW c \in Challenges, EnterCode(f, c) PROVE RecordInv'
    <3>1. Early
      BY <2>3, <1>o, <1>d, Edges DEF EnterCode, Prompts
    <3> QED
      BY <1>1, <3>1, <1>early DEF Prompts, Over
  <2>4. ASSUME NEW A, NEW a \in {"allow_action", "deny_action"}, Decide(f, A, a) PROVE RecordInv'
    <3>1. Early
      BY <2>4, <1>o, <1>d, Edges DEF Decide, Prompts
    <3> QED
      BY <1>1, <3>1, <1>early DEF Prompts, Over
  <2> QED
    BY <1>1, <2>1, <2>2, <2>3, <2>4 DEF Person, Answer
<1>2. ASSUME NEW f \in Flows, Pass(f) \/ Seed(f) \/ ClearOtp(f) PROVE RecordInv'
  <2>1. /\ flow[f].node \in {"start", "authorization_check", "seed_transaction_id", "clear_otp"}
        /\ flow'[f].node \in {"seed_transaction_id", "consent_check", "select_otp",
                             "authorization_check"}
        /\ log' = log /\ consents' = consents
    <3>1. CASE Pass(f)
      BY <3>1, <1>o, <1>d, Edges DEF Pass
    <3>2. CASE Seed(f)
      BY <3>2, <1>o, <1>d, Edges DEF Seed
    <3>3. CASE ClearOtp(f)
      BY <3>3, <1>o, <1>d, Edges DEF ClearOtp
    <3> QED
      BY <1>2, <3>1, <3>2, <3>3
  <2> QED
    BY <1>2, <2>1, <1>early DEF Task, Over
<1>3. ASSUME NEW f \in Flows, NEW c \in Challenges, SendOTP(f, c) PROVE RecordInv'
  <2>1. flow[f].node = "send_otp" /\ flow'[f].node \in {"prompt_otp", "prompt_identifier", "error"}
    BY <1>3, <1>o, <1>d, <1>fails, Edges DEF SendOTP
  <2>2. log'[f].released = log[f].released /\ consents' = consents
    BY <1>3, <1>o, <1>d DEF SendOTP
  <2> QED
    BY <1>3, <2>1, <2>2, <1>early DEF Task, Over
<1>4. ASSUME NEW f \in Flows, SendFails(f) \/ Rejected(f) PROVE RecordInv'
  <2>1. /\ flow[f].node \in {"send_otp", "authenticate"}
        /\ flow'[f].node \in {"prompt_otp", "prompt_identifier", "error"}
        /\ log' = log /\ consents' = consents
    BY <1>4, <1>fails DEF SendFails, Rejected
  <2> QED
    BY <1>4, <2>1, <1>early DEF Task, Over
<1>5. ASSUME NEW f \in Flows, Accepted(f) PROVE RecordInv'
  <2>1. /\ flow[f].node = "authenticate"
        /\ flow'[f].node \in {"clear_otp", "prompt_otp", "error"}
    BY <1>5, <1>o, <1>d, <1>fails, Edges DEF Accepted
  <2>2. log'[f].released = log[f].released /\ consents' = consents
    BY <1>5, <1>o, <1>d DEF Accepted
  <2> QED
    BY <1>5, <2>1, <2>2, <1>early DEF Task, Over
<1>6. ASSUME NEW f \in Flows, ConsentCheck(f) PROVE RecordInv'
  <2>1. /\ flow[f].node = "consent_check" /\ flow'[f].node = "prompt_consent"
        /\ log' = log /\ consents' = consents
    BY <1>6, <1>o, <1>d, Edges DEF ConsentCheck, Asks, HostAsks
  <2> QED
    BY <1>6, <2>1, <1>early DEF Task, Over
<1>7. ASSUME NEW f \in Flows, ConsentFails(f) PROVE RecordInv'
  <2>1. /\ flow[f].node = "consent_check" /\ flow'[f].node = "error"
        /\ log' = log /\ consents' = consents
    BY <1>7, <1>o, <1>d DEF ConsentFails, RecordError, StoppedBy
  <2> QED
    BY <1>7, <2>1, <1>early DEF Task, Over
<1>8. ASSUME NEW f \in Flows, RecordConsent(f) PROVE RecordInv'
  <2>1. /\ flow[f].node = "consent_check" /\ flow[f].answer = log[f].decision
        /\ log[f].decision # None /\ log[f].released = {}
    BY <1>8, <1>p DEF RecordConsent, Progress
  <2>2. /\ log' = log /\ flow'[f].username = flow[f].username
        /\ consents' = consents \cup {<<flow[f].username, f>>}
        /\ flow'[f].node = IF Essential \subseteq log[f].decision THEN "auth_assert" ELSE "denied"
    BY <1>8, <2>1, <1>o, <1>d, Edges DEF RecordConsent, RecordError, StoppedBy
  <2>3. Recorded(f)'
    BY <2>1, <2>2 DEF Recorded, OnRecord, Refused, Over
  <2>4. \A g \in Flows \ {f} : \A p : <<p, g>> \in consents' <=> <<p, g>> \in consents
    BY <2>2
  <2> QED
    BY <1>8, <2>3, <2>4, Touches, OthersRecorded DEF Task
<1>9. ASSUME NEW f \in Flows, ConsentTimesOut(f) PROVE RecordInv'
  <2>1. flow[f].node = "consent_check" /\ log[f].released = {}
    BY <1>9, <1>p DEF ConsentTimesOut, Progress
  <2>2. \A p : <<p, f>> \notin consents
    BY <2>1, <1>o, <1>p DEF Recorded, Over
  <2>3. /\ flow'[f].node = "auth_assert" /\ flow'[f].consented = {}
        /\ log' = log /\ consents' = consents
    BY <1>9, <2>1, <1>o, <1>d, Edges DEF ConsentTimesOut
  <2>4. Recorded(f)'
    BY <2>1, <2>2, <2>3 DEF Recorded, OnRecord, Over
  <2> QED
    BY <1>9, <2>3, <2>4, Touches, OthersRecorded DEF Task
<1>10. ASSUME NEW f \in Flows, AuthAssert(f) \/ AuthAssertFails(f) PROVE RecordInv'
  <2>1. /\ flow[f].node = "auth_assert" /\ flow'[f].node \in {"end", "error"}
        /\ flow'[f].username = flow[f].username /\ consents' = consents
        /\ log'[f].decision = log[f].decision
    BY <1>10, <1>o, <1>d, Edges DEF AuthAssert, AuthAssertFails
  <2>2. log[f].released = {} /\ flow[f].consented # None
    BY <2>1, <1>p DEF Progress
  <2>3. log'[f].released # {} => flow[f].consented # {}
    BY <1>10, <2>2, <1>o, <1>d DEF AuthAssert, AuthAssertFails, UserAttributes
  <2>4. IF OnRecord(f) THEN Essential \subseteq log[f].decision ELSE flow[f].consented = {}
    BY <2>1, <1>p DEF Recorded
  <2>5. Recorded(f)'
    BY <2>1, <2>3, <2>4 DEF Recorded, OnRecord, Refused, Over
  <2> QED
    BY <1>10, <2>1, <2>5, Touches, OthersRecorded DEF Task
<1>11. ASSUME NEW K, Withdraw(K) PROVE RecordInv'
  BY <1>11, <1>0 DEF Withdraw
<1>12. CASE Tick
  BY <1>12, <1>0 DEF Tick
<1>13. CASE UNCHANGED vars
  BY <1>13, <1>0 DEF vars
<1>14. ASSUME NEW f \in Flows, Task(f) PROVE RecordInv'
  BY <1>14, <1>2, <1>3, <1>4, <1>5, <1>6, <1>7, <1>8, <1>9, <1>10 DEF Task
<1> QED
  BY <1>1, <1>11, <1>12, <1>13, <1>14 DEF Next

-----------------------------------------------------------------------------
LEMMA Initially == Init => IInv
<1> SUFFICES ASSUME Init PROVE IInv
  OBVIOUS
<1> USE DEF Init, At
<1>1. TypeOK
  <2>1. "start" \in Nodes
    BY DEF Nodes, OnSuccess
  <2> QED
    BY <2>1 DEF TypeOK, FlowData, History, Verifier!CInit
<1>2. ProgressInv
  BY DEF ProgressInv, Progress, Seeded, Undecided, BeforeLogin, BeforeConsent, Over
<1>3. CodesInv
  BY DEF CodesInv, CodeFitsFlow, Verifier!CInit, Key
<1>4. RecordInv
  BY SignInAssumption DEF RecordInv, Recorded, OnRecord, Over
<1> QED
  BY <1>1, <1>2, <1>3, <1>4 DEF IInv

LEMMA IInvStep == IInv /\ [Next]_vars => IInv'
BY TypeStep, ProgressStep, CodesStep, RecordStep DEF IInv

(***************************************************************************)
(* The invariant holds of every sign-in (the flow of flow-breg-otp.yaml,   *)
(* package breg and its consent wrapper).                                  *)
(***************************************************************************)
THEOREM Invariance == Spec => []IInv
<1>1. Init => IInv
  BY Initially
<1>2. IInv /\ [Next]_vars => IInv'
  BY IInvStep
<1> QED
  BY <1>1, <1>2, PTL DEF Spec

(***************************************************************************)
(* The flow's data, the history and the verifier keep their types.         *)
(***************************************************************************)
THEOREM TypeCorrect == Spec => []TypeOK
<1>1. IInv => TypeOK
  BY DEF IInv
<1> QED
  BY <1>1, Invariance, PTL

(***************************************************************************)
(* A code that is asked for was sent under the transaction that            *)
(* Authenticate presents, whatever failed and was tried again before.      *)
(***************************************************************************)
THEOREM CodeFitsFlowAlways == Spec => []CodeFitsFlow
<1>1. IInv => CodeFitsFlow
  BY DEF IInv, CodesInv
<1> QED
  BY <1>1, Invariance, PTL

(***************************************************************************)
(* Whoever is signed in used a code of this very sign-in, and no two       *)
(* sign-ins succeed with one code (Authenticate of the adapter).           *)
(***************************************************************************)
THEOREM ProofOfThisSignInAlways == Spec => []ProofOfThisSignIn
<1>1. IInv => ProofOfThisSignIn
  BY DEF IInv, CodesInv, ProofOfThisSignIn
<1> QED
  BY <1>1, Invariance, PTL

(***************************************************************************)
(* What the person agreed to in time is what the client receives: the probe*)
(* of GetAttributes has not used up the context.                           *)
(***************************************************************************)
THEOREM AgreedIsDeliveredAlways == Spec => []AgreedIsDelivered
<1>1. IInv => AgreedIsDelivered
  BY DEF IInv, ProgressInv, Progress, AgreedIsDelivered
<1> QED
  BY <1>1, Invariance, PTL

(***************************************************************************)
(* "Denied" is shown exactly for a refusal that the host has on record     *)
(* (the wrapper's RecordConsent and its error code).                       *)
(***************************************************************************)
THEOREM RefusalIsDenialAlways == Spec => []RefusalIsDenial
<1>1. IInv => RefusalIsDenial
  BY DEF IInv, RecordInv, Recorded, RefusalIsDenial
<1> QED
  BY <1>1, Invariance, PTL

(***************************************************************************)
(* No claim is released without a consent record of this very sign-in,     *)
(* however late the decision came (thunder-consent.patch).                 *)
(***************************************************************************)
THEOREM ReleaseIsOnRecordAlways == Spec => []ReleaseIsOnRecord
<1>1. IInv => ReleaseIsOnRecord
  BY DEF IInv, RecordInv, Recorded, ReleaseIsOnRecord
<1> QED
  BY <1>1, Invariance, PTL

-----------------------------------------------------------------------------
(***************************************************************************)
(* The stage of a sign-in follows from its node and its decision.          *)
(***************************************************************************)
StageOf(f, stage) ==
  /\ flow[f].node \in BeforeLogin => stage = "open"
  /\ flow[f].node \in BeforeConsent => stage = "known"
  /\ At(f, "consent_check") => stage = IF log[f].decision = None THEN "known" ELSE "decided"
  /\ At(f, "auth_assert") => stage = "decided"
  /\ At(f, "end") => stage = "released"
  /\ flow[f].node \in {"denied", "error"} => stage = "stopped"

LEMMA Stages ==
  ASSUME ProgressInv, NEW f \in Flows
  PROVE  StageOf(f, Stage(f))
<1>1. Progress(f)
  BY DEF ProgressInv
<1> USE <1>1 DEF Progress, Undecided, Agreed, Stage, At, BeforeLogin, BeforeConsent
<1>2. (flow[f].node \in BeforeLogin => Stage(f) = "open")
  OBVIOUS
<1>3. (flow[f].node \in BeforeConsent => Stage(f) = "known")
  OBVIOUS
<1>4. (At(f, "consent_check") =>
         Stage(f) = IF log[f].decision = None THEN "known" ELSE "decided")
  OBVIOUS
<1>5. (At(f, "auth_assert") => Stage(f) = "decided")
  OBVIOUS
<1>6. (At(f, "end") => Stage(f) = "released")
  OBVIOUS
<1>7. (flow[f].node \in {"denied", "error"} => Stage(f) = "stopped")
  OBVIOUS
<1> QED
  BY <1>2, <1>3, <1>4, <1>5, <1>6, <1>7 DEF StageOf

LEMMA StagesNext ==
  ASSUME ProgressInv', NEW f \in Flows
  PROVE  StageOf(f, Stage(f))'
<1>1. Progress(f)'
  BY DEF ProgressInv
<1> USE <1>1 DEF Progress, Undecided, Agreed, Stage, At, BeforeLogin, BeforeConsent
<1>2. (flow[f].node \in BeforeLogin => Stage(f) = "open")'
  OBVIOUS
<1>3. (flow[f].node \in BeforeConsent => Stage(f) = "known")'
  OBVIOUS
<1>4. (At(f, "consent_check") =>
         Stage(f) = IF log[f].decision = None THEN "known" ELSE "decided")'
  OBVIOUS
<1>5. (At(f, "auth_assert") => Stage(f) = "decided")'
  OBVIOUS
<1>6. (At(f, "end") => Stage(f) = "released")'
  OBVIOUS
<1>7. (flow[f].node \in {"denied", "error"} => Stage(f) = "stopped")'
  OBVIOUS
<1> QED
  BY <1>2, <1>3, <1>4, <1>5, <1>6, <1>7 DEF StageOf

\* Every step of a sign-in is a step of ConsentedRelease or none.
LEMMA ReleaseStep == IInv /\ IInv' /\ [Next]_vars => [Promise!RNext]_Promise!rvars
<1> SUFFICES ASSUME IInv, IInv', [Next]_vars PROVE [Promise!RNext]_Promise!rvars
  OBVIOUS
<1> DEFINE Goal == [Promise!RNext]_Promise!rvars
           S == [f \in Flows |-> Stage(f)]
           D == [f \in Flows |-> log[f].decision]
           G == [f \in Flows |-> log[f].released]
           Quiet(f) == log'[f].decision = log[f].decision /\ log'[f].released = log[f].released
<1>g. ASSUME UNCHANGED <<S, D, G>> \/ Promise!RNext PROVE Goal
  BY <1>g DEF Promise!rvars
<1>d. ASSUME NEW f \in Flows
      PROVE  /\ DOMAIN flow[f] = {"node", "transaction", "username", "otp", "context", "answer",
                                  "prompted", "consented", "recorded"}
             /\ DOMAIN log[f] = {"sent", "under", "proof", "decision", "released"}
  BY DEF IInv, TypeOK, FlowData, History
<1>o. flow \in [Flows -> FlowData] /\ log \in [Flows -> History]
  BY DEF IInv, TypeOK
<1>b. ASSUME NEW f \in Flows PROVE StageOf(f, Stage(f))
  BY Stages DEF IInv
<1>a. ASSUME NEW f \in Flows PROVE StageOf(f, Stage(f))'
  BY StagesNext DEF IInv
<1>others. ASSUME NEW f \in Flows, Task(f) \/ Person(f)
           PROVE  \A g \in Flows \ {f} : Stage(g)' = Stage(g) /\ Quiet(g)
  BY <1>others, Touches DEF IInv, Stage, At
<1>0. ASSUME UNCHANGED <<flow, log>> PROVE Goal
  BY <1>0, <1>g DEF Stage, At
<1> HIDE DEF Goal
<1>same. ASSUME NEW f \in Flows, Task(f) \/ Person(f), Quiet(f), Stage(f)' = Stage(f) PROVE Goal
  <2>1. UNCHANGED <<S, D, G>>
    BY <1>same, <1>others
  <2> QED
    BY <2>1, <1>g
<1>to. ASSUME NEW f \in Flows, Task(f) \/ Person(f), NEW x, Stage(f)' = x
       PROVE  S' = [S EXCEPT ![f] = x]
  BY <1>to, <1>others
<1>quiet. ASSUME NEW f \in Flows, Task(f) \/ Person(f), Quiet(f) PROVE D' = D /\ G' = G
  BY <1>quiet, <1>others
<1>prove. ASSUME NEW f \in Flows, Task(f) \/ Person(f), Quiet(f), Stage(f) = "open", Stage(f)' = "known"
          PROVE  Goal
  <2>1. Promise!Prove(f)
    BY <1>prove, <1>to, <1>quiet DEF Promise!Prove, Promise!Reach
  <2> QED
    BY <2>1, <1>g DEF Promise!RNext
<1>stop. ASSUME NEW f \in Flows, Task(f) \/ Person(f), Quiet(f),
                Stage(f) \in {"open", "known", "decided"}, Stage(f)' = "stopped"
         PROVE  Goal
  <2>1. Promise!Stop(f)
    BY <1>stop, <1>to, <1>quiet DEF Promise!Stop
  <2> QED
    BY <2>1, <1>g DEF Promise!RNext
<1> USE DEF At, BeforeLogin, BeforeConsent
<1>1. ASSUME NEW f \in Flows, Person(f), ~Answer(f) PROVE Goal
  <2>1. /\ flow[f].node \in BeforeLogin /\ flow'[f].node \in BeforeLogin
        /\ log'[f] = log[f]
    <3>1. CASE Select(f)
      BY <3>1, <1>o, <1>d, Edges DEF Select
    <3>2. ASSUME NEW p \in People, Identify(f, p)
          PROVE  /\ flow[f].node \in BeforeLogin /\ flow'[f].node \in BeforeLogin
                 /\ log'[f] = log[f]
      BY <3>2, <1>o, <1>d, Edges DEF Identify
    <3>3. ASSUME NEW c \in Challenges, EnterCode(f, c)
          PROVE  /\ flow[f].node \in BeforeLogin /\ flow'[f].node \in BeforeLogin
                 /\ log'[f] = log[f]
      BY <3>3, <1>o, <1>d, Edges DEF EnterCode
    <3> QED
      BY <1>1, <3>1, <3>2, <3>3 DEF Person
  <2>2. Stage(f) = "open" /\ Stage(f)' = "open"
    BY <2>1, <1>a, <1>b DEF StageOf
  <2> QED
    BY <1>1, <2>1, <2>2, <1>same
<1>2. ASSUME NEW f \in Flows, Answer(f) PROVE Goal
  <2>1. PICK A \in (SUBSET Requested) \cup {None}, a \in {"allow_action", "deny_action"} : Decide(f, A, a)
    BY <1>2 DEF Answer
  <2>2. /\ flow[f].node = "prompt_consent" /\ flow'[f].node = "consent_check"
        /\ log' = [log EXCEPT ![f].decision = A]
    BY <2>1, <1>o, <1>d, Edges DEF Decide
  <2>3. log'[f].decision = A /\ G' = G
    BY <2>2, <1>o, <1>d
  <2>4. Stage(f) = "known" /\ log[f].decision = None
    BY <2>2, <1>b DEF StageOf, IInv, ProgressInv, Progress, Undecided
  <2>5. CASE A = None
    <3>1. Stage(f)' = "known" /\ Quiet(f)
      BY <2>2, <2>3, <2>4, <2>5, <1>a, <1>o, <1>d DEF StageOf
    <3> QED
      BY <1>2, <2>4, <3>1, <1>same DEF Person
  <2>6. CASE A # None
    <3>1. Stage(f)' = "decided"
      BY <2>2, <2>3, <2>6, <1>a DEF StageOf
    <3>2. D' = [D EXCEPT ![f] = A]
      BY <2>2, <1>o, <1>d
    <3>3. S' = [S EXCEPT ![f] = "decided"]
      BY <1>2, <3>1, <1>to DEF Person
    <3>4. Promise!Decide(f, A) /\ A \in SUBSET Requested
      BY <2>3, <2>4, <2>6, <3>2, <3>3 DEF Promise!Decide, Promise!Reach
    <3> QED
      BY <3>4, <1>g DEF Promise!RNext
  <2> QED
    BY <2>5, <2>6
<1>3. ASSUME NEW f \in Flows, Pass(f) \/ Seed(f) \/ ClearOtp(f) PROVE Goal
  <2>1. /\ \/ flow[f].node \in BeforeLogin /\ flow'[f].node \in BeforeLogin
           \/ /\ flow[f].node \in BeforeConsent
              /\ flow'[f].node = "authorization_check"
           \/ /\ flow[f].node = "authorization_check"
              /\ flow'[f].node = "consent_check"
        /\ log'[f] = log[f]
    <3>1. CASE Pass(f)
      BY <3>1, <1>o, <1>d, Edges DEF Pass
    <3>2. CASE Seed(f)
      BY <3>2, <1>o, <1>d, Edges DEF Seed
    <3>3. CASE ClearOtp(f)
      BY <3>3, <1>o, <1>d, Edges DEF ClearOtp
    <3> QED
      BY <1>3, <3>1, <3>2, <3>3
  <2>2. flow[f].node \in BeforeConsent => log[f].decision = None
    BY DEF IInv, ProgressInv, Progress, Undecided
  <2>3. Stage(f)' = Stage(f)
    BY <2>1, <2>2, <1>a, <1>b DEF StageOf
  <2> QED
    BY <1>3, <2>1, <2>3, <1>same DEF Task
<1>fails. ASSUME NEW f \in Flows, Task(f), Quiet(f), NEW back \in BeforeLogin, FailsTo(f, back),
                 flow[f].node \in BeforeLogin
          PROVE  Goal
  <2>1. flow'[f].node \in {back, "error"}
    BY <1>fails, <1>o, <1>d DEF FailsTo
  <2>2. CASE flow'[f].node = "error"
    BY <1>fails, <2>2, <1>a, <1>b, <1>stop DEF StageOf
  <2>3. CASE flow'[f].node = back
    BY <1>fails, <2>3, <1>a, <1>b, <1>same DEF StageOf
  <2> QED
    BY <2>1, <2>2, <2>3
<1>4. ASSUME NEW f \in Flows, NEW c \in Challenges, SendOTP(f, c) PROVE Goal
  <2>1. Task(f) /\ flow[f].node = "send_otp"
    BY <1>4 DEF Task, SendOTP
  <2>2. Quiet(f)
    BY <1>4, <1>o, <1>d DEF SendOTP
  <2>3. CASE FailsTo(f, "prompt_identifier")
    BY <2>1, <2>2, <2>3, <1>fails
  <2>4. CASE flow' = [flow EXCEPT ![f].node = OnSuccess[@]]
    <3>1. flow'[f].node = "prompt_otp"
      BY <2>1, <2>4, <1>o, <1>d, Edges
    <3> QED
      BY <2>1, <2>2, <3>1, <1>a, <1>b, <1>same DEF StageOf
  <2> QED
    BY <1>4, <2>3, <2>4 DEF SendOTP
<1>5. ASSUME NEW f \in Flows, SendFails(f) \/ Rejected(f) PROVE Goal
  <2>1. Task(f) /\ Quiet(f)
    BY <1>5 DEF Task, SendFails, Rejected
  <2> QED
    BY <1>5, <2>1, <1>fails DEF SendFails, Rejected
<1>6. ASSUME NEW f \in Flows, Accepted(f) PROVE Goal
  <2>1. Task(f) /\ flow[f].node = "authenticate"
    BY <1>6 DEF Task, Accepted
  <2>2. Quiet(f)
    BY <1>6, <1>o, <1>d DEF Accepted
  <2>3. CASE FailsTo(f, "prompt_otp")
    BY <2>1, <2>2, <2>3, <1>fails
  <2>4. CASE flow' = [flow EXCEPT ![f].context = now, ![f].node = OnSuccess[@]]
    <3>1. flow'[f].node = "clear_otp"
      BY <2>1, <2>4, <1>o, <1>d, Edges
    <3> QED
      BY <2>1, <2>2, <3>1, <1>a, <1>b, <1>prove DEF StageOf
  <2> QED
    BY <1>6, <2>3, <2>4 DEF Accepted
<1>c. ASSUME NEW f \in Flows, flow[f].node = "consent_check" PROVE flow[f].answer = log[f].decision
  BY <1>c DEF IInv, ProgressInv, Progress
<1>7. ASSUME NEW f \in Flows, ConsentCheck(f) PROVE Goal
  <2>1. Task(f) /\ flow[f].node = "consent_check" /\ log[f].decision = None /\ Quiet(f)
    BY <1>7, <1>c DEF Task, ConsentCheck
  <2>2. flow'[f].node = "prompt_consent"
    BY <1>7, <1>o, <1>d, Edges DEF ConsentCheck, Asks, HostAsks
  <2> QED
    BY <2>1, <2>2, <1>a, <1>b, <1>same DEF StageOf
<1>8. ASSUME NEW f \in Flows, RecordConsent(f) \/ ConsentFails(f) \/ ConsentTimesOut(f) PROVE Goal
  <2>1. Task(f) /\ flow[f].node = "consent_check" /\ Quiet(f)
    BY <1>8 DEF Task, RecordConsent, ConsentFails, ConsentTimesOut
  <2>2. \/ flow'[f].node \in {"denied", "error"}
        \/ flow'[f].node = "auth_assert" /\ log[f].decision # None
    <3>1. CASE RecordConsent(f)
      BY <2>1, <3>1, <1>c, <1>o, <1>d, Edges DEF RecordConsent, RecordError, StoppedBy
    <3>2. CASE ConsentFails(f)
      BY <3>2, <1>o, <1>d DEF ConsentFails, RecordError, StoppedBy
    <3>3. CASE ConsentTimesOut(f)
      BY <2>1, <3>3, <1>c, <1>o, <1>d, Edges DEF ConsentTimesOut
    <3> QED
      BY <1>8, <3>1, <3>2, <3>3
  <2>3. CASE flow'[f].node = "auth_assert" /\ log[f].decision # None
    BY <2>1, <2>3, <1>a, <1>b, <1>same DEF StageOf
  <2>4. CASE flow'[f].node \in {"denied", "error"}
    BY <2>1, <2>4, <1>a, <1>b, <1>stop DEF StageOf
  <2> QED
    BY <2>2, <2>3, <2>4
<1>9. ASSUME NEW f \in Flows, AuthAssertFails(f) PROVE Goal
  <2>1. Task(f) /\ flow[f].node = "auth_assert" /\ Quiet(f)
    BY <1>9 DEF Task, AuthAssertFails
  <2>2. flow'[f].node = "error"
    BY <1>9, <1>o, <1>d DEF AuthAssertFails
  <2> QED
    BY <2>1, <2>2, <1>a, <1>b, <1>stop DEF StageOf
<1>10. ASSUME NEW f \in Flows, AuthAssert(f) PROVE Goal
  <2>1. Task(f) /\ flow[f].node = "auth_assert" /\ flow'[f].node = "end"
    BY <1>10, <1>o, <1>d, Edges DEF Task, AuthAssert
  <2>2. /\ flow[f].consented # None /\ flow[f].context # None
        /\ flow[f].consented \subseteq log[f].decision
        /\ flow[f].consented # {} => Essential \subseteq log[f].decision
        /\ flow[f].consented \in SUBSET Requested
    BY <2>1 DEF IInv, ProgressInv, Progress, Agreed, TypeOK, FlowData
  <2>r. PICK R \in SUBSET Requested : R = flow[f].consented \cap Sourced
    BY <2>2
  <2>3. log' = [log EXCEPT ![f].released = R]
    BY <1>10, <2>2, <2>r DEF AuthAssert, UserAttributes
  <2>4. D' = D /\ G' = [G EXCEPT ![f] = R]
    BY <2>3, <1>o, <1>d
  <2>5. Stage(f) = "decided" /\ Stage(f)' = "released"
    BY <2>1, <1>a, <1>b DEF StageOf
  <2>6. S' = [S EXCEPT ![f] = "released"]
    BY <2>1, <2>5, <1>to
  <2>7. /\ R \in SUBSET Requested /\ R \subseteq D[f]
        /\ R # {} => Essential \subseteq D[f]
    BY <2>2, <2>r
  <2>8. Promise!Release(f, R)
    BY <2>4, <2>5, <2>6, <2>7 DEF Promise!Release, Promise!Reach
  <2>9. Promise!RNext
    BY <2>7, <2>8 DEF Promise!RNext
  <2> QED
    BY <2>9, <1>g
<1>11. ASSUME NEW K, Withdraw(K) PROVE Goal
  BY <1>11, <1>0 DEF Withdraw
<1>12. ASSUME Tick PROVE Goal
  BY <1>12, <1>0 DEF Tick
<1>13. ASSUME UNCHANGED vars PROVE Goal
  BY <1>13, <1>0 DEF vars
<1>14. ASSUME NEW f \in Flows, Task(f) PROVE Goal
  BY <1>14, <1>3, <1>4, <1>5, <1>6, <1>7, <1>8, <1>9, <1>10 DEF Task
<1>15. Goal
  BY <1>1, <1>2, <1>11, <1>12, <1>13, <1>14 DEF Next
<1> QED
  BY <1>15 DEF Goal

(***************************************************************************)
(* A sign-in is a ConsentedRelease: nothing reaches the client that the    *)
(* person did not agree to in this very sign-in, after a proof of who they *)
(* are (flow-breg-otp.yaml, the adapter and its consent wrapper).          *)
(***************************************************************************)
THEOREM Refinement == Spec => ImplementsConsentedRelease
<1>1. Init => Promise!RInit
  BY DEF Init, Promise!RInit, Stage, At
<1>2. IInv /\ IInv' /\ [Next]_vars => [Promise!RNext]_Promise!rvars
  BY ReleaseStep
<1> QED
  BY <1>1, <1>2, Invariance, PTL DEF Spec, ImplementsConsentedRelease, Promise!RSpec

-----------------------------------------------------------------------------
(***************************************************************************)
(* Progress.  A flow whose person has decided is at consent_check with the *)
(* answer, from where it goes to auth_assert or to its end, or is at       *)
(* auth_assert, from where it goes to its end, or is there.                *)
(***************************************************************************)
LEMMA DecidedIsAnswered ==
  ASSUME IInv, NEW f \in Flows, ~(log[f].decision = None)
  PROVE  Answered(f) \/ At(f, "auth_assert") \/ flow[f].node \in Over
<1>1. flow[f].node \in Nodes /\ Progress(f)
  BY DEF IInv, TypeOK, FlowData, ProgressInv
<1>2. flow[f].node \in BeforeLogin \cup BeforeConsent \cup {"consent_check", "auth_assert"} \cup Over
  BY <1>1 DEF Nodes, OnSuccess, Prompts, BeforeLogin, BeforeConsent
<1> QED
  BY <1>1, <1>2 DEF Progress, Undecided, Answered, At

LEMMA OwnStep ==
  ASSUME IInv, [Next]_vars, NEW f \in Flows
  PROVE  flow'[f] = flow[f] \/ Task(f) \/ Person(f)
<1> SUFFICES ASSUME flow'[f] # flow[f] PROVE Task(f) \/ Person(f)
  OBVIOUS
<1>1. PICK g \in Flows : Task(g) \/ Person(g)
  BY DEF Next, Withdraw, Tick, vars
<1> QED
  BY <1>1, Touches DEF IInv

\* Between prompts nobody answers.
LEMMA NobodyAnswers ==
  ASSUME NEW f \in Flows, At(f, "consent_check") \/ At(f, "auth_assert")
  PROVE  ~Person(f)
BY DEF Person, Answer, Select, Identify, EnterCode, Decide, At

LEMMA TaskLeads ==
  ASSUME TypeOK, NEW f \in Flows, Task(f)
  PROVE  /\ Answered(f) => At(f, "auth_assert")' \/ flow'[f].node \in Over
         /\ At(f, "auth_assert") => flow'[f].node \in Over
<1> USE DEF TypeOK, FlowData, Over
<1>1. ASSUME Answered(f) PROVE At(f, "auth_assert")' \/ flow'[f].node \in Over
  <2>1. RecordConsent(f) \/ ConsentFails(f) \/ ConsentTimesOut(f)
    BY <1>1 DEF Answered, Task, Pass, Seed, ClearOtp, SendOTP, SendFails, Accepted, Rejected, ConsentCheck, AuthAssert,
                AuthAssertFails, At
  <2>2. flow[f].node = "consent_check"
    BY <1>1 DEF Answered, At
  <2>3. CASE RecordConsent(f)
    BY <2>2, <2>3, Edges DEF RecordConsent, StoppedBy, At
  <2>4. CASE ConsentFails(f)
    BY <2>4 DEF ConsentFails, StoppedBy, At
  <2>5. CASE ConsentTimesOut(f)
    BY <2>2, <2>5, Edges DEF ConsentTimesOut, At
  <2> QED
    BY <2>1, <2>3, <2>4, <2>5
<1>2. ASSUME At(f, "auth_assert") PROVE flow'[f].node \in Over
  <2>1. AuthAssert(f) \/ AuthAssertFails(f)
    BY <1>2 DEF Task, Pass, Seed, ClearOtp, SendOTP, SendFails, Accepted, Rejected, ConsentCheck, RecordConsent,
                ConsentFails, ConsentTimesOut, At
  <2> QED
    BY <1>2, <2>1, Edges DEF AuthAssert, AuthAssertFails, At
<1> QED
  BY <1>1, <1>2

LEMMA FlowSettles ==
  ASSUME NEW f \in Flows
  PROVE  Spec /\ Served(f) /\ []NeverStuck => ConsentSettlesFor(f)
<1> DEFINE Decided == ~(log[f].decision = None)
           Asserting == At(f, "auth_assert")
           Done == flow[f].node \in Over
<1>1. IInv /\ Decided => Answered(f) \/ Asserting \/ Done
  BY DecidedIsAnswered
<1>2. IInv /\ Answered(f) /\ [Next]_vars => Answered(f)' \/ Asserting' \/ Done'
  BY OwnStep, NobodyAnswers, TaskLeads DEF IInv, Answered, At
<1>3. IInv /\ Answered(f) /\ <<Task(f)>>_vars => Asserting' \/ Done'
  BY TaskLeads DEF IInv
<1>4. IInv /\ Asserting /\ [Next]_vars => Asserting' \/ Done'
  BY OwnStep, NobodyAnswers, TaskLeads DEF IInv, At
<1>5. IInv /\ Asserting /\ <<Task(f)>>_vars => Done'
  BY TaskLeads DEF IInv
<1>6. NeverStuck => (Answered(f) \/ Asserting => ENABLED <<Task(f)>>_vars)
  BY DEF NeverStuck
<1> HIDE DEF Decided, Asserting, Done
<1> QED
  BY <1>1, <1>2, <1>3, <1>4, <1>5, <1>6, Invariance, PTL
  DEF Spec, Served, ConsentSettlesFor, Decided, Done

(***************************************************************************)
(* Every flow whose person has decided ends, however they decided and      *)
(* whenever, if the engine is fair to its tasks and the flow is never      *)
(* without a step to take.  Nobody is assumed to answer.                   *)
(***************************************************************************)
THEOREM ConsentSettlesUnlessStuck == FairSpec /\ []NeverStuck => ConsentSettles
<1>1. FairSpec => Spec /\ Scheduling
  BY PTL DEF FairSpec
<1>2. ASSUME NEW f \in Flows PROVE FairSpec /\ []NeverStuck => ConsentSettlesFor(f)
  <2>1. Scheduling => Served(f)
    BY Zenon DEF Scheduling
  <2> QED
    BY <1>1, <2>1, FlowSettles, Zenon
<1>3. FairSpec /\ []NeverStuck => \A f \in Flows : ConsentSettlesFor(f)
  BY <1>2, Zenon
<1> QED
  BY <1>3, PTL DEF ConsentSettles

=============================================================================
