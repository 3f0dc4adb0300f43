------------------------------- MODULE Mailpit -------------------------------
(***************************************************************************)
(* The Mailpit challenge verifier, mailpitVerifier of provider/mailpit.go: *)
(* a bounded table of one-time codes, filled by SendOTP and emptied by     *)
(* Verify.                                                                 *)
(*                                                                         *)
(* Each element of Sends is one invocation of SendOTP.  It reserves a slot *)
(* under v.mu, draws a code and mails it outside v.mu, stores the          *)
(* challenge under v.mu and gives the slot back under v.mu.  Verify is one *)
(* critical section and so one step.  A challenge is named after the       *)
(* invocation that made it.                                                *)
(***************************************************************************)
EXTENDS Integers, FiniteSets

CONSTANTS
  Sends,        \* the invocations of SendOTP
  Keys,         \* mailpitKey: identifier, type and binding of a transaction
  Codes,        \* the six-digit codes
  None,         \* no challenge is pending
  MaxPending,   \* mailpitMaxPending
  MaxAttempts,  \* mailpitMaxAttempts
  TTL,          \* mailpitChallengeTTL
  MaxTime       \* bound: the clock stops here

ASSUME MailpitAssumption ==
  /\ IsFiniteSet(Sends)
  /\ IsFiniteSet(Keys)
  /\ None \notin Sends \cup Keys \cup Codes
  /\ MaxPending \in Nat
  /\ MaxAttempts \in Nat \ {0}
  /\ TTL \in Nat
  /\ MaxTime \in Nat

VARIABLES
  now,        \* v.now()
  pending,    \* v.pending: per key, the challenge stored under it
  inFlight,   \* v.inFlight
  pc,         \* where each SendOTP is
  key,        \* the key it was called with
  code,       \* the code it drew
  expires,    \* challenge.expires
  attempts,   \* challenge.attempts, as last stored or when it was deleted
  cancelled,  \* the SendOTPs whose context is done
  inbox,      \* the codes that the mail server accepted for delivery
  accepted    \* how often Verify accepted each challenge

tableVars == <<pending, inFlight>>
sendVars == <<key, code, expires>>
vars == <<now, tableVars, pc, sendVars, attempts, cancelled, inbox, accepted>>

(***************************************************************************)
(* A SendOTP occupies a slot from its reservation to its deferred          *)
(* function; until it has stored its challenge the slot stands for one.    *)
(***************************************************************************)
Unstored == {"reserved", "sending", "sent", "delivered", "failed"}
Occupying == Unstored \cup {"stored"}
Called == {"enter"} \cup Occupying
Over == {"ok", "error", "full", "lost"}
PCs == {"idle"} \cup Called \cup Over

\* Mutant: expiry is left to the sweep.
LiveUntilSwept(k) == pending[k] # None

Live(k) == pending[k] # None /\ now < expires[pending[k]]

\* Mutant: a challenge that expires now is kept.
SweptLate == [k \in Keys |-> IF pending[k] # None /\ now <= expires[pending[k]]
                             THEN pending[k] ELSE None]

\* v.pending after the loop of SendOTP that deletes what has expired.
Swept == [k \in Keys |-> IF Live(k) THEN pending[k] ELSE None]

Stored(p) == {k \in Keys : p[k] # None}

-----------------------------------------------------------------------------
Init ==
  /\ now = 0
  /\ pending = [k \in Keys |-> None]
  /\ inFlight = 0
  /\ pc = [s \in Sends |-> "idle"]
  /\ key = [s \in Sends |-> None]
  /\ code = [s \in Sends |-> None]
  /\ expires = [s \in Sends |-> 0]
  /\ attempts = [s \in Sends |-> 0]
  /\ cancelled = {}
  /\ inbox = {}
  /\ accepted = [s \in Sends |-> 0]

Move(s, from, to) ==
  /\ pc[s] = from
  /\ pc' = [pc EXCEPT ![s] = to]

(***************************************************************************)
(* The environment: a request arrives, its context is cancelled, time      *)
(* passes, the process restarts.  "Mailpit challenges are process-local":  *)
(* a restart loses the table and every call under way.                     *)
(***************************************************************************)
Begin(s, k) ==
  /\ Move(s, "idle", "enter")
  /\ key' = [key EXCEPT ![s] = k]
  /\ UNCHANGED <<now, tableVars, code, expires, attempts, cancelled, inbox, accepted>>

\* No step after the delivery looks at the context.
Cancel(s) ==
  /\ pc[s] \in {"enter", "reserved", "sending", "sent"}
  /\ s \notin cancelled
  /\ cancelled' = cancelled \cup {s}
  /\ UNCHANGED <<now, tableVars, pc, sendVars, attempts, inbox, accepted>>

Tick ==
  /\ now < MaxTime
  /\ now' = now + 1
  /\ UNCHANGED <<tableVars, pc, sendVars, attempts, cancelled, inbox, accepted>>

Restart ==
  /\ Stored(pending) # {} \/ \E s \in Sends : pc[s] \in Occupying
  /\ pending' = [k \in Keys |-> None]
  /\ inFlight' = 0
  /\ pc' = [s \in Sends |-> IF pc[s] \in Called THEN "lost" ELSE pc[s]]
  /\ UNCHANGED <<now, sendVars, attempts, cancelled, inbox, accepted>>

-----------------------------------------------------------------------------
(***************************************************************************)
(* SendOTP up to its unlock: sweep, then refuse or reserve a slot.         *)
(***************************************************************************)
Reject(s) ==
  /\ Move(s, "enter", "error")  \* a cancelled context or an invalid request
  /\ UNCHANGED <<now, tableVars, sendVars, attempts, cancelled, inbox, accepted>>

\* Mutant: the deliveries under way are not counted.
HasRoomForStored == Cardinality(Stored(Swept)) < MaxPending

HasRoom == Cardinality(Stored(Swept)) + inFlight < MaxPending

Reserve(s) ==
  /\ s \notin cancelled
  /\ HasRoom
  /\ Move(s, "enter", "reserved")
  /\ pending' = Swept
  /\ inFlight' = inFlight + 1
  /\ UNCHANGED <<now, sendVars, attempts, cancelled, inbox, accepted>>

Full(s) ==
  /\ s \notin cancelled
  /\ ~HasRoom
  /\ Move(s, "enter", "full")
  /\ pending' = Swept
  /\ UNCHANGED <<now, inFlight, sendVars, attempts, cancelled, inbox, accepted>>

(***************************************************************************)
(* Outside v.mu: draw the code, start its lifetime, mail it.  The server   *)
(* may accept the mail and the delivery still fail: the reply is lost,     *)
(* QUIT fails, the context ends.                                           *)
(***************************************************************************)
Generate(s, x) ==
  /\ Move(s, "reserved", "sending")
  /\ code' = [code EXCEPT ![s] = x]
  /\ expires' = [expires EXCEPT ![s] = now + TTL]
  /\ UNCHANGED <<now, tableVars, key, attempts, cancelled, inbox, accepted>>

Accept(s) ==
  /\ Move(s, "sending", "sent")
  /\ inbox' = inbox \cup {s}
  /\ UNCHANGED <<now, tableVars, sendVars, attempts, cancelled, accepted>>

\* Mutant: the outcome of the delivery is not awaited.
DeliveredUnchecked(s) ==
  /\ Move(s, "sending", "delivered")
  /\ UNCHANGED <<now, tableVars, sendVars, attempts, cancelled, inbox, accepted>>

Delivered(s) ==
  /\ s \notin cancelled
  /\ Move(s, "sent", "delivered")
  /\ UNCHANGED <<now, tableVars, sendVars, attempts, cancelled, inbox, accepted>>

\* Mutant: an SMTP exchange under way does not end with its context.
FailsBeforeExchange(s) ==
  /\ pc[s] \in {"reserved", "sending"}
  /\ pc' = [pc EXCEPT ![s] = "failed"]
  /\ UNCHANGED <<now, tableVars, sendVars, attempts, cancelled, inbox, accepted>>

Fails(s) ==
  /\ pc[s] \in {"reserved", "sending", "sent"}
  /\ pc' = [pc EXCEPT ![s] = "failed"]
  /\ UNCHANGED <<now, tableVars, sendVars, attempts, cancelled, inbox, accepted>>

(***************************************************************************)
(* Back under v.mu, twice: store the challenge, replacing the one that is  *)
(* pending under its key; then the deferred function gives the slot back.  *)
(***************************************************************************)
Store(s) ==
  /\ Move(s, "delivered", "stored")
  /\ pending' = [pending EXCEPT ![key[s]] = s]
  /\ UNCHANGED <<now, inFlight, sendVars, attempts, cancelled, inbox, accepted>>

\* Mutant: an error path returns without giving the slot back.
ReleaseOnSuccess(s) ==
  /\ \/ Move(s, "stored", "ok") /\ inFlight' = inFlight - 1
     \/ Move(s, "failed", "error") /\ inFlight' = inFlight
  /\ UNCHANGED <<now, pending, sendVars, attempts, cancelled, inbox, accepted>>

Release(s) ==
  /\ \/ Move(s, "stored", "ok")
     \/ Move(s, "failed", "error")
  /\ inFlight' = inFlight - 1
  /\ UNCHANGED <<now, pending, sendVars, attempts, cancelled, inbox, accepted>>

(***************************************************************************)
(* Verify, one critical section: an absent or expired challenge is         *)
(* deleted; otherwise the attempt counts, and a match or the last attempt  *)
(* deletes the challenge.                                                  *)
(***************************************************************************)
VerifyAbsent(k) ==
  /\ ~Live(k)
  /\ pending' = [pending EXCEPT ![k] = None]
  /\ UNCHANGED <<now, inFlight, pc, sendVars, attempts, cancelled, inbox, accepted>>

\* Mutant: a matched challenge stays pending.
VerifyMatchKept(k, x) ==
  /\ Live(k)
  /\ LET s == pending[k] IN
       /\ x = code[s]
       /\ attempts' = [attempts EXCEPT ![s] = @ + 1]
       /\ accepted' = [accepted EXCEPT ![s] = @ + 1]
  /\ UNCHANGED <<now, tableVars, pc, sendVars, cancelled, inbox>>

VerifyMatch(k, x) ==
  /\ Live(k)
  /\ LET s == pending[k] IN
       /\ x = code[s]
       /\ attempts' = [attempts EXCEPT ![s] = @ + 1]
       /\ accepted' = [accepted EXCEPT ![s] = @ + 1]
  /\ pending' = [pending EXCEPT ![k] = None]
  /\ UNCHANGED <<now, inFlight, pc, sendVars, cancelled, inbox>>

\* Mutant: one guess too many before the challenge goes.
VerifyMissOnceMore(k, x) ==
  /\ Live(k)
  /\ LET s == pending[k] IN
       /\ x # code[s]
       /\ attempts' = [attempts EXCEPT ![s] = @ + 1]
       /\ pending' = IF attempts'[s] > MaxAttempts
                       THEN [pending EXCEPT ![k] = None] ELSE pending
  /\ UNCHANGED <<now, inFlight, pc, sendVars, cancelled, inbox, accepted>>

VerifyMiss(k, x) ==
  /\ Live(k)
  /\ LET s == pending[k] IN
       /\ x # code[s]
       /\ attempts' = [attempts EXCEPT ![s] = @ + 1]
       /\ pending' = IF attempts'[s] >= MaxAttempts
                       THEN [pending EXCEPT ![k] = None] ELSE pending
  /\ UNCHANGED <<now, inFlight, pc, sendVars, cancelled, inbox, accepted>>

Verify(k, x) == VerifyAbsent(k) \/ VerifyMatch(k, x) \/ VerifyMiss(k, x)

-----------------------------------------------------------------------------
\* The steps that a SendOTP takes once it has been called.
Step(s) ==
  \/ Reject(s) \/ Reserve(s) \/ Full(s)
  \/ \E x \in Codes : Generate(s, x)
  \/ Accept(s) \/ Delivered(s) \/ Fails(s)
  \/ Store(s) \/ Release(s)

Next ==
  \/ \E s \in Sends :
       \/ \E k \in Keys : Begin(s, k)
       \/ Cancel(s) \/ Step(s)
  \/ \E k \in Keys, x \in Codes : Verify(k, x)
  \/ Tick \/ Restart

Spec == Init /\ [][Next]_vars

(***************************************************************************)
(* Fairness.  A SendOTP that runs keeps running: every SMTP exchange is    *)
(* bounded by the dial timeout and by conn.SetDeadline, and v.mu is        *)
(* starvation-free.  Nothing is assumed of requests, of Verify, of the     *)
(* clock or of restarts.                                                   *)
(***************************************************************************)
SendRuns(s) == WF_vars(Step(s))
Scheduling == \A s \in Sends : SendRuns(s)
FairSpec == Spec /\ Scheduling

-----------------------------------------------------------------------------
(***************************************************************************)
(* Types of the verifier's fields, of the calls' locals and of the         *)
(* environment's records (type mailpitVerifier).                           *)
(***************************************************************************)
TypeOK ==
  /\ now \in Nat
  /\ pending \in [Keys -> Sends \cup {None}]
  /\ inFlight \in Nat
  /\ pc \in [Sends -> PCs]
  /\ key \in [Sends -> Keys \cup {None}]
  /\ code \in [Sends -> Codes \cup {None}]
  /\ expires \in [Sends -> Nat]
  /\ attempts \in [Sends -> Nat]
  /\ cancelled \subseteq Sends
  /\ inbox \subseteq Sends
  /\ accepted \in [Sends -> Nat]

(***************************************************************************)
(* The check and the insertion of SendOTP are far apart, with a mail       *)
(* delivery between them, and the slot is given back only after the        *)
(* insertion: still the table never exceeds mailpitMaxPending, counting    *)
(* the challenges that are yet to be stored.                               *)
(***************************************************************************)
CapacityBound ==
  Cardinality(Stored(pending)) + Cardinality({s \in Sends : pc[s] \in Unstored}) <= MaxPending

(***************************************************************************)
(* Slots do not leak and are not given back twice, on any error path, by   *)
(* any cancellation or restart: v.inFlight counts the calls between their  *)
(* reservation and their return.                                           *)
(***************************************************************************)
InFlightExact == inFlight = Cardinality({s \in Sends : pc[s] \in Occupying})

(***************************************************************************)
(* A challenge is pending only under the key it was requested for, only    *)
(* after its code was mailed, and only while it may still be answered - or *)
(* has merely expired, until the next sweep.                               *)
(***************************************************************************)
PendingIsAnswerable ==
  \A k \in Keys : pending[k] # None =>
    LET s == pending[k] IN
      /\ key[s] = k
      /\ s \in inbox
      /\ accepted[s] = 0
      /\ attempts[s] < MaxAttempts

(***************************************************************************)
(* A one-time code: it is accepted once, after at most mailpitMaxAttempts  *)
(* guesses in all, by whatever interleaving of Verify and SendOTP.         *)
(***************************************************************************)
OneTime == \A s \in Sends : accepted[s] <= 1 /\ attempts[s] <= MaxAttempts

(***************************************************************************)
(* Verify accepts a code only for a challenge that was stored by a         *)
(* delivery that succeeded, within mailpitChallengeTTL of its creation,    *)
(* and never one whose SendOTP reported an error to its caller.            *)
(***************************************************************************)
AcceptsOnlyFreshMail ==
  [][\A s \in Sends : accepted'[s] # accepted[s] =>
       /\ s \in inbox
       /\ now < expires[s]
       /\ pc[s] \in {"stored", "ok"}]_vars

(***************************************************************************)
(* A SendOTP is refused for want of room only when the room is really      *)
(* taken: by challenges that can still be answered, or by calls under way. *)
(* Expired challenges and calls that failed do not starve the others.      *)
(***************************************************************************)
RefusedOnlyWhenFull ==
  [][\A s \in Sends : pc[s] # "full" /\ pc'[s] = "full" =>
       MaxPending <= Cardinality({k \in Keys : Live(k)})
                     + Cardinality({r \in Sends : pc[r] \in Occupying})]_vars

(***************************************************************************)
(* Every SendOTP that was called returns and has given its slot back, at   *)
(* whatever point its context ends or its delivery fails, whatever Verify, *)
(* the clock, restarts and other calls do to the table meanwhile.          *)
(***************************************************************************)
SlotComesBack(s) == pc[s] \in Called ~> pc[s] \in Over
SlotsComeBack == \A s \in Sends : SlotComesBack(s)

\* What fairness needs to get a call to its end: it always can take a step.
NeverStuck == \A s \in Sends : pc[s] \in Called => ENABLED <<Step(s)>>_vars

(***************************************************************************)
(* With its mails, its clock and its table the verifier implements         *)
(* OneTimeCode: a challenge that is live can be answered, one that expires *)
(* is withdrawn even while it is still stored, and one whose lifetime was  *)
(* spent in its delivery displaces its predecessor without ever being      *)
(* offered.                                                                *)
(***************************************************************************)
Contract == INSTANCE OneTimeCode WITH
  Challenges <- Sends,
  fresh <- {s \in Sends : pc[s] \notin {"stored", "ok", "lost"}},
  current <- Swept,
  used <- {s \in Sends : accepted[s] # 0}

ImplementsOneTimeCode == Contract!CSpec

=============================================================================
