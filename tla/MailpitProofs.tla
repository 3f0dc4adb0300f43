---------------------------- MODULE MailpitProofs ----------------------------
(***************************************************************************)
(* Proofs about Mailpit for all finite sets of calls and keys, any set of  *)
(* codes and any limits.  CountInv carries the bounds, ChallengeInv what   *)
(* is known of a challenge on its way through SendOTP, the table and       *)
(* Verify.                                                                 *)
(***************************************************************************)
EXTENDS Mailpit, FiniteSetTheorems, TLAPS

CallsIn(states) == {s \in Sends : pc[s] \in states}

-----------------------------------------------------------------------------
CountInv ==
  /\ InFlightExact
  /\ CapacityBound

\* A call has a key; what it stores was mailed; nothing was answered before.
ChallengeInv ==
  /\ \A s \in Sends : pc[s] # "idle" => key[s] \in Keys
  /\ \A s \in Sends : pc[s] \in {"sent", "delivered", "stored", "ok"} => s \in inbox
  /\ \A s \in Sends : pc[s] \notin {"stored", "ok", "lost"} =>
       accepted[s] = 0 /\ attempts[s] = 0
  /\ \A k \in Keys : pending[k] # None => pc[pending[k]] \in {"stored", "ok"}

Inv ==
  /\ TypeOK
  /\ CountInv
  /\ ChallengeInv
  /\ PendingIsAnswerable
  /\ OneTime

-----------------------------------------------------------------------------
\* Counting within a finite set.
LEMMA Counting ==
  ASSUME NEW S, IsFiniteSet(S), NEW A \in SUBSET S, NEW B \in SUBSET A
  PROVE  /\ IsFiniteSet(A) /\ IsFiniteSet(B)
         /\ Cardinality(A) \in Nat /\ Cardinality(B) \in Nat
         /\ Cardinality(B) <= Cardinality(A)
<1>1. IsFiniteSet(A)
  BY FS_Subset
<1>2. IsFiniteSet(B) /\ Cardinality(B) <= Cardinality(A)
  BY <1>1, FS_Subset
<1> QED
  BY <1>1, <1>2, FS_CardinalityType

LEMMA Entering ==
  ASSUME NEW S, IsFiniteSet(S), NEW A \in SUBSET S, NEW x
  PROVE  /\ Cardinality(A \cup {x}) <= Cardinality(A) + 1
         /\ x \notin A => Cardinality(A \cup {x}) = Cardinality(A) + 1
<1> DEFINE n == Cardinality(A)
           m == Cardinality(A \cup {x})
<1>1. IsFiniteSet(A)
  BY FS_Subset
<1>2. n \in Nat
  BY <1>1, FS_CardinalityType
<1>3. m = IF x \in A THEN n ELSE n + 1
  BY <1>1, FS_AddElement, Zenon
<1> HIDE DEF n, m
<1>4. m <= n + 1 /\ (x \notin A => m = n + 1)
  BY <1>2, <1>3
<1> QED
  BY <1>4 DEF n, m

LEMMA Leaving ==
  ASSUME NEW S, IsFiniteSet(S), NEW A \in SUBSET S, NEW x \in A
  PROVE  /\ Cardinality(A \ {x}) = Cardinality(A) - 1
         /\ Cardinality(A) >= 1
<1>1. IsFiniteSet(A)
  BY FS_Subset
<1>2. Cardinality(A \ {x}) = Cardinality(A) - 1
  BY <1>1, FS_RemoveElement
<1>3. Cardinality(A) \in Nat /\ Cardinality(A \ {x}) \in Nat
  BY <1>1, FS_Subset, FS_CardinalityType
<1> QED
  BY <1>2, <1>3

\* The sets that the invariant counts are finite.
LEMMA Counts ==
  ASSUME TypeOK
  PROVE  /\ Cardinality(Stored(pending)) \in Nat
         /\ Cardinality(Stored(Swept)) \in Nat
         /\ Cardinality(Stored(Swept)) <= Cardinality(Stored(pending))
         /\ Cardinality(CallsIn(Unstored)) \in Nat
         /\ Cardinality(CallsIn(Occupying)) \in Nat
         /\ Cardinality(CallsIn(Unstored)) <= Cardinality(CallsIn(Occupying))
<1>1. Stored(pending) \in SUBSET Keys /\ Stored(Swept) \in SUBSET Stored(pending)
  BY DEF Stored, Swept, Live
<1>2. CallsIn(Occupying) \in SUBSET Sends /\ CallsIn(Unstored) \in SUBSET CallsIn(Occupying)
  BY DEF CallsIn, Occupying
<1> HIDE DEF Stored, Swept, CallsIn
<1>3. IsFiniteSet(Keys) /\ IsFiniteSet(Sends)
  BY MailpitAssumption
<1> QED
  BY <1>1, <1>2, <1>3, Counting

-----------------------------------------------------------------------------
\* The verifier's fields and the calls' locals keep their types: a slot is
\* given back only by a call that took it.
LEMMA TypeStep == TypeOK /\ InFlightExact /\ [Next]_vars => TypeOK'
<1> SUFFICES ASSUME TypeOK, InFlightExact, [Next]_vars PROVE TypeOK'
  OBVIOUS
<1> USE MailpitAssumption DEF TypeOK, PCs, Called, Occupying, Unstored, Over, tableVars, sendVars, Move
<1>1. ASSUME NEW s \in Sends, NEW k \in Keys, Begin(s, k) PROVE TypeOK'
  BY <1>1 DEF Begin
<1>2. ASSUME NEW s \in Sends, Cancel(s) PROVE TypeOK'
  BY <1>2 DEF Cancel
<1>3. CASE Tick
  BY <1>3 DEF Tick
<1>4. CASE Restart
  BY <1>4 DEF Restart, Called
<1>5. ASSUME NEW s \in Sends, Reject(s) \/ Accept(s) \/ Delivered(s) \/ Fails(s) PROVE TypeOK'
  BY <1>5 DEF Reject, Accept, Delivered, Fails
<1>6. ASSUME NEW s \in Sends, Reserve(s) \/ Full(s) PROVE TypeOK'
  BY <1>6 DEF Reserve, Full, Swept
<1>7. ASSUME NEW s \in Sends, NEW x \in Codes, Generate(s, x) PROVE TypeOK'
  BY <1>7 DEF Generate
<1>8. ASSUME NEW s \in Sends, Store(s) PROVE TypeOK'
  BY <1>8 DEF Store
<1>9. ASSUME NEW s \in Sends, Release(s) PROVE TypeOK'
  <2>1. s \in CallsIn(Occupying)
    BY <1>9 DEF Release, CallsIn
  <2>2. Cardinality(CallsIn(Occupying)) >= 1
    BY <2>1, Leaving, CallsIn(Occupying) \in SUBSET Sends DEF CallsIn
  <2>3. inFlight >= 1
    BY <2>2 DEF InFlightExact, CallsIn
  <2> QED
    BY <1>9, <2>3 DEF Release
<1>10. ASSUME NEW k \in Keys, NEW x \in Codes, Verify(k, x) PROVE TypeOK'
  BY <1>10 DEF Verify, VerifyAbsent, VerifyMatch, VerifyMiss, Live
<1>11. CASE UNCHANGED vars
  BY <1>11 DEF vars
<1> QED
  BY <1>1, <1>2, <1>3, <1>4, <1>5, <1>6, <1>7, <1>8, <1>9, <1>10, <1>11 DEF Next, Step

-----------------------------------------------------------------------------
(***************************************************************************)
(* The counts of a step.  A call that stays within, or outside, a set of   *)
(* states leaves the count of that set alone.                              *)
(***************************************************************************)
LEMMA CountStep ==
  Inv /\ [Next]_vars => CountInv'
<1> SUFFICES ASSUME Inv, [Next]_vars PROVE CountInv'
  OBVIOUS
<1> DEFINE stored == Cardinality(Stored(pending))
           unstored == Cardinality(CallsIn(Unstored))
           occupying == Cardinality(CallsIn(Occupying))
<1>0. /\ stored + unstored <= MaxPending /\ inFlight = occupying
      /\ stored \in Nat /\ unstored \in Nat /\ occupying \in Nat /\ MaxPending \in Nat
      /\ unstored <= occupying
  BY Counts, MailpitAssumption DEF Inv, CountInv, CapacityBound, InFlightExact, CallsIn
\* What has to be shown, in terms of the sets.
<1>goal. SUFFICES /\ Cardinality(Stored(pending)') + Cardinality(CallsIn(Unstored)') <= MaxPending
                  /\ inFlight' = Cardinality(CallsIn(Occupying)')
  BY DEF CountInv, CapacityBound, InFlightExact, CallsIn, Stored
<1>sets. /\ CallsIn(Unstored) \in SUBSET Sends /\ CallsIn(Occupying) \in SUBSET Sends
         /\ Stored(pending) \in SUBSET Keys /\ IsFiniteSet(Sends) /\ IsFiniteSet(Keys)
  BY MailpitAssumption DEF CallsIn, Stored
<1> DEFINE Same == /\ CallsIn(Unstored)' = CallsIn(Unstored)
                   /\ CallsIn(Occupying)' = CallsIn(Occupying)
                   /\ inFlight' = inFlight
<1>same. ASSUME Same, Stored(pending)' \in SUBSET Stored(pending)
         PROVE  /\ Cardinality(Stored(pending)') + Cardinality(CallsIn(Unstored)') <= MaxPending
                /\ inFlight' = Cardinality(CallsIn(Occupying)')
  <2>1. Cardinality(Stored(pending)') <= stored /\ Cardinality(Stored(pending)') \in Nat
    BY <1>same, <1>sets, Counting
  <2> QED
    BY <2>1, <1>same, <1>0
<1>1. ASSUME NEW s \in Sends, NEW k \in Keys, Begin(s, k) PROVE Same /\ pending' = pending
  BY <1>1 DEF Begin, Move, CallsIn, Occupying, Unstored, tableVars, Inv, TypeOK
<1>2. ASSUME NEW s \in Sends, Cancel(s) PROVE Same /\ pending' = pending
  BY <1>2 DEF Cancel, CallsIn, tableVars
<1>3. CASE Tick \/ UNCHANGED vars
  <2>1. Same /\ pending' = pending
    BY <1>3 DEF Tick, CallsIn, tableVars, vars
  <2> QED
    BY <2>1, <1>same DEF Stored
<1>4. CASE Restart
  <2>1. Stored(pending)' = {} /\ CallsIn(Unstored)' = {} /\ CallsIn(Occupying)' = {} /\ inFlight' = 0
    BY <1>4 DEF Restart, Stored, CallsIn, Called, Occupying, Unstored, Inv, TypeOK
  <2>2. Cardinality({}) = 0
    BY FS_EmptySet
  <2> QED
    BY <2>1, <2>2, <1>0
<1>5. ASSUME NEW s \in Sends, Reject(s) \/ Accept(s) \/ Delivered(s) \/ Fails(s)
      PROVE  Same /\ pending' = pending
  BY <1>5 DEF Reject, Accept, Delivered, Fails, Move, CallsIn, Occupying, Unstored, tableVars, Inv, TypeOK
<1>6. ASSUME NEW s \in Sends, Full(s) PROVE Same /\ Stored(pending)' \in SUBSET Stored(pending)
  BY <1>6 DEF Full, Move, CallsIn, Occupying, Unstored, Swept, Live, Stored, Inv, TypeOK
<1>7. ASSUME NEW s \in Sends, Reserve(s)
      PROVE  /\ Cardinality(Stored(pending)') + Cardinality(CallsIn(Unstored)') <= MaxPending
             /\ inFlight' = Cardinality(CallsIn(Occupying)')
  <2>1. /\ CallsIn(Unstored)' = CallsIn(Unstored) \cup {s} /\ s \notin CallsIn(Unstored)
        /\ CallsIn(Occupying)' = CallsIn(Occupying) \cup {s} /\ s \notin CallsIn(Occupying)
        /\ Stored(pending)' = Stored(Swept) /\ inFlight' = inFlight + 1
    BY <1>7 DEF Reserve, Move, CallsIn, Occupying, Unstored, Stored, Inv, TypeOK
  <2>2. /\ Cardinality(CallsIn(Unstored)') = unstored + 1
        /\ Cardinality(CallsIn(Occupying)') = occupying + 1
    <3> HIDE DEF CallsIn
    <3> QED
      BY <2>1, <1>sets, Entering
  <2>3. Cardinality(Stored(Swept)) + inFlight < MaxPending /\ Cardinality(Stored(Swept)) \in Nat
    BY <1>7, Counts DEF Reserve, HasRoom, Inv
  <2> QED
    BY <2>1, <2>2, <2>3, <1>0
<1>8. ASSUME NEW s \in Sends, NEW x \in Codes, Generate(s, x) PROVE Same /\ pending' = pending
  BY <1>8 DEF Generate, Move, CallsIn, Occupying, Unstored, tableVars, Inv, TypeOK
<1>9. ASSUME NEW s \in Sends, Store(s)
      PROVE  /\ Cardinality(Stored(pending)') + Cardinality(CallsIn(Unstored)') <= MaxPending
             /\ inFlight' = Cardinality(CallsIn(Occupying)')
  <2>1. /\ CallsIn(Unstored)' = CallsIn(Unstored) \ {s} /\ s \in CallsIn(Unstored)
        /\ CallsIn(Occupying)' = CallsIn(Occupying) /\ inFlight' = inFlight
    BY <1>9 DEF Store, Move, CallsIn, Occupying, Unstored, Inv, TypeOK
  <2>2. key[s] \in Keys /\ s # None
    BY <1>9, MailpitAssumption DEF Store, Move, Inv, ChallengeInv
  <2>3. Stored(pending)' = Stored(pending) \cup {key[s]}
    BY <1>9, <2>2 DEF Store, Stored, Inv, TypeOK
  <2>4. Cardinality(Stored(pending)') <= stored + 1
    BY <2>3, <1>sets, Entering
  <2>5. Cardinality(Stored(pending)') \in Nat
    BY <2>2, <2>3, <1>sets, FS_Subset, FS_CardinalityType DEF Stored
  <2>6. Cardinality(CallsIn(Unstored)') = unstored - 1
    BY <2>1, <1>sets, Leaving
  <2> QED
    BY <2>1, <2>4, <2>5, <2>6, <1>0
<1>10. ASSUME NEW s \in Sends, Release(s)
       PROVE  /\ Cardinality(Stored(pending)') + Cardinality(CallsIn(Unstored)') <= MaxPending
              /\ inFlight' = Cardinality(CallsIn(Occupying)')
  <2>1. /\ CallsIn(Occupying)' = CallsIn(Occupying) \ {s} /\ s \in CallsIn(Occupying)
        /\ CallsIn(Unstored)' \in SUBSET CallsIn(Unstored)
        /\ Stored(pending)' = Stored(pending) /\ inFlight' = inFlight - 1
    BY <1>10 DEF Release, Move, CallsIn, Occupying, Unstored, Stored, Inv, TypeOK
  <2>2. Cardinality(CallsIn(Occupying)') = occupying - 1
    BY <2>1, <1>sets, Leaving
  <2>3. Cardinality(CallsIn(Unstored)') <= unstored /\ Cardinality(CallsIn(Unstored)') \in Nat
    BY <2>1, <1>sets, Counting
  <2> QED
    BY <2>1, <2>2, <2>3, <1>0
<1>11. ASSUME NEW k \in Keys, NEW x \in Codes, Verify(k, x)
       PROVE  Same /\ Stored(pending)' \in SUBSET Stored(pending)
  <2>1. pending' = pending \/ pending' = [pending EXCEPT ![k] = None]
    BY <1>11 DEF Verify, VerifyAbsent, VerifyMatch, VerifyMiss
  <2>2. Stored(pending)' \in SUBSET Stored(pending)
    BY <2>1 DEF Stored, Inv, TypeOK
  <2> QED
    BY <2>2, <1>11 DEF Verify, VerifyAbsent, VerifyMatch, VerifyMiss, CallsIn
<1>12. ASSUME pending' = pending PROVE Stored(pending)' \in SUBSET Stored(pending)
  BY <1>12 DEF Stored
<1> QED
  BY <1>same, <1>1, <1>2, <1>3, <1>4, <1>5, <1>6, <1>7, <1>8, <1>9, <1>10, <1>11, <1>12 DEF Next, Step

-----------------------------------------------------------------------------
\* A challenge on its way: only Store puts one in the table, only Verify
\* answers it, and what leaves the table does not come back.
LEMMA ChallengeStep ==
  Inv /\ [Next]_vars => ChallengeInv' /\ PendingIsAnswerable' /\ OneTime'
<1> SUFFICES ASSUME Inv, [Next]_vars
             PROVE  ChallengeInv' /\ PendingIsAnswerable' /\ OneTime'
  OBVIOUS
<1> DEFINE Goal == ChallengeInv' /\ PendingIsAnswerable' /\ OneTime'
<1> USE MailpitAssumption
    DEF Inv, TypeOK, ChallengeInv, PendingIsAnswerable, OneTime, tableVars, sendVars, Move, PCs,
        Occupying, Unstored, Over
<1>1. ASSUME NEW s \in Sends, NEW k \in Keys, Begin(s, k) PROVE Goal
  BY <1>1 DEF Begin
<1>2. ASSUME NEW s \in Sends, Cancel(s) PROVE Goal
  BY <1>2 DEF Cancel
<1>3. CASE Tick \/ UNCHANGED vars
  BY <1>3 DEF Tick, vars
<1>4. CASE Restart
  BY <1>4 DEF Restart, Called
<1>5. ASSUME NEW s \in Sends, Reject(s) \/ Accept(s) \/ Delivered(s) \/ Fails(s) PROVE Goal
  BY <1>5 DEF Reject, Accept, Delivered, Fails
<1>6. ASSUME NEW s \in Sends, Reserve(s) \/ Full(s) PROVE Goal
  BY <1>6 DEF Reserve, Full, Swept
<1>7. ASSUME NEW s \in Sends, NEW x \in Codes, Generate(s, x) PROVE Goal
  BY <1>7 DEF Generate
<1>8. ASSUME NEW s \in Sends, Store(s) PROVE Goal
  BY <1>8 DEF Store
<1>9. ASSUME NEW s \in Sends, Release(s) PROVE Goal
  BY <1>9 DEF Release
<1>10. ASSUME NEW k \in Keys, VerifyAbsent(k) PROVE Goal
  BY <1>10 DEF VerifyAbsent
<1>11. ASSUME NEW k \in Keys, NEW x \in Codes, VerifyMatch(k, x) PROVE Goal
  BY <1>11 DEF VerifyMatch, Live
<1>12. ASSUME NEW k \in Keys, NEW x \in Codes, VerifyMiss(k, x) PROVE Goal
  BY <1>12 DEF VerifyMiss, Live
<1> QED
  BY <1>1, <1>2, <1>3, <1>4, <1>5, <1>6, <1>7, <1>8, <1>9, <1>10, <1>11, <1>12
  DEF Next, Step, Verify

-----------------------------------------------------------------------------
LEMMA InvInit == Init => Inv
<1> SUFFICES ASSUME Init PROVE Inv
  OBVIOUS
<1>1. Stored(pending) = {} /\ CallsIn(Unstored) = {} /\ CallsIn(Occupying) = {}
  BY DEF Init, Stored, CallsIn, Unstored, Occupying
<1>2. CountInv
  BY <1>1, FS_EmptySet, MailpitAssumption DEF Init, CountInv, InFlightExact, CapacityBound, CallsIn
<1>3. TypeOK
  BY DEF Init, TypeOK, PCs
<1> QED
  BY <1>2, <1>3, MailpitAssumption
  DEF Init, Inv, ChallengeInv, PendingIsAnswerable, OneTime

LEMMA InvStep == Inv /\ [Next]_vars => Inv'
  BY TypeStep, CountStep, ChallengeStep DEF Inv, CountInv

\* Inv holds in every state of every behaviour of the verifier.
THEOREM Invariance == Spec => []Inv
  BY InvInit, InvStep, PTL DEF Spec

\* The fields of mailpitVerifier and the locals of its calls keep their types.
THEOREM TypeCorrect == Spec => []TypeOK
  BY Invariance, PTL DEF Inv

\* v.inFlight is the number of calls that hold a slot, on every path of
\* SendOTP: none leaks, none is given back twice.
THEOREM InFlightExactAlways == Spec => []InFlightExact
  BY Invariance, PTL DEF Inv, CountInv

\* The table and the deliveries under way never exceed mailpitMaxPending,
\* although SendOTP checks the limit before it mails and inserts after.
THEOREM CapacityBoundAlways == Spec => []CapacityBound
  BY Invariance, PTL DEF Inv, CountInv

\* What is pending was mailed, stands under the key it was requested for and
\* may still be answered.
THEOREM PendingIsAnswerableAlways == Spec => []PendingIsAnswerable
  BY Invariance, PTL DEF Inv

\* A code is accepted once and guessed at mailpitMaxAttempts times at most.
THEOREM OneTimeAlways == Spec => []OneTime
  BY Invariance, PTL DEF Inv

-----------------------------------------------------------------------------
\* Verify accepts only what was mailed and stored, and in time.
THEOREM AcceptsOnlyFreshMailAlways == Spec => AcceptsOnlyFreshMail
<1>1. ASSUME Inv, [Next]_vars, NEW s \in Sends, accepted'[s] # accepted[s]
      PROVE  s \in inbox /\ now < expires[s] /\ pc[s] \in {"stored", "ok"}
  <2> USE DEF Inv, TypeOK
  <2>1. PICK k \in Keys, x \in Codes : VerifyMatch(k, x)
    BY <1>1 DEF Next, Step, Begin, Cancel, Tick, Restart, Reject, Reserve, Full, Generate, Accept,
      Delivered, Fails, Store, Release, Verify, VerifyAbsent, VerifyMiss, vars
  <2>2. s = pending[k] /\ Live(k)
    BY <1>1, <2>1 DEF VerifyMatch, Live
  <2> QED
    BY <1>1, <2>2 DEF Live, ChallengeInv, PendingIsAnswerable
<1>2. Inv /\ [Next]_vars
      => [\A s \in Sends : accepted'[s] # accepted[s] =>
            /\ s \in inbox
            /\ now < expires[s]
            /\ pc[s] \in {"stored", "ok"}]_vars
  BY <1>1
<1> QED
  BY <1>2, Invariance, PTL DEF Spec, AcceptsOnlyFreshMail

\* SendOTP refuses only when live challenges and calls under way fill the
\* table: the sweep has left nothing else that could count.
THEOREM RefusedOnlyWhenFullAlways == Spec => RefusedOnlyWhenFull
<1>1. ASSUME Inv, [Next]_vars, NEW s \in Sends, pc[s] # "full", pc'[s] = "full"
      PROVE  MaxPending <= Cardinality({k \in Keys : Live(k)}) + Cardinality(CallsIn(Occupying))
  <2>1. Full(s)
    BY <1>1 DEF Next, Step, Begin, Cancel, Tick, Restart, Reject, Reserve, Full, Generate, Accept,
      Delivered, Fails, Store, Release, Verify, VerifyAbsent, VerifyMatch, VerifyMiss, vars, Move,
      Inv, TypeOK, sendVars, tableVars
  <2>2. Stored(Swept) = {k \in Keys : Live(k)}
    BY DEF Stored, Swept, Live
  <2>3. MaxPending <= Cardinality(Stored(Swept)) + inFlight
    BY <1>1, <2>1, Counts, MailpitAssumption DEF Full, HasRoom, Inv, TypeOK
  <2> QED
    BY <1>1, <2>2, <2>3 DEF Inv, CountInv, InFlightExact, CallsIn
<1>2. Inv /\ [Next]_vars
      => [\A s \in Sends : pc[s] # "full" /\ pc'[s] = "full" =>
            MaxPending <= Cardinality({k \in Keys : Live(k)})
                          + Cardinality({r \in Sends : pc[r] \in Occupying})]_vars
  BY <1>1 DEF CallsIn
<1> QED
  BY <1>2, Invariance, PTL DEF Spec, RefusedOnlyWhenFull

-----------------------------------------------------------------------------
(***************************************************************************)
(* Refinement.  What OneTimeCode sees of the verifier is the table without *)
(* its expired challenges and which challenges were not stored or answered *)
(* yet; a step that leaves these alone is a stutter.                       *)
(***************************************************************************)
Fresh == {s \in Sends : pc[s] \notin {"stored", "ok", "lost"}}
Used == {s \in Sends : accepted[s] # 0}

LEMMA ContractInit == Init => Contract!CInit
BY DEF Init, Contract!CInit, Swept, Live

LEMMA ContractStep == Inv /\ [Next]_vars => [Contract!CNext]_(Contract!cvars)
<1> SUFFICES ASSUME Inv, [Next]_vars PROVE [Contract!CNext]_(Contract!cvars)
  OBVIOUS
<1> DEFINE Stutter == Fresh' = Fresh /\ Swept' = Swept /\ Used' = Used
           Withdrawn == /\ Used' = Used
                        /\ \E K \in SUBSET Keys, C \in SUBSET Fresh :
                             /\ Fresh' = Fresh \ C
                             /\ Swept' = [k \in Keys |-> IF k \in K THEN None ELSE Swept[k]]
<1>a. Stutter => UNCHANGED Contract!cvars
  BY DEF Contract!cvars, Fresh, Used
<1>b. Withdrawn => Contract!CNext
  BY DEF Contract!CNext, Contract!Withdraw, Fresh, Used
<1> USE MailpitAssumption
    DEF Inv, TypeOK, ChallengeInv, tableVars, sendVars, Move, PCs, Occupying, Unstored, Over
<1>1. ASSUME NEW s \in Sends, NEW k \in Keys, Begin(s, k) PROVE Stutter
  BY <1>1 DEF Begin, Fresh, Used, Swept, Live
<1>2. ASSUME NEW s \in Sends, Cancel(s) PROVE Stutter
  BY <1>2 DEF Cancel, Fresh, Used, Swept, Live
<1>3. CASE Tick
  <2>1. Fresh' = Fresh \ {} /\ Used' = Used
    BY <1>3 DEF Tick, Fresh, Used
  <2> DEFINE K == {k \in Keys : ~Live(k)'}
  <2>2. Swept' = [k \in Keys |-> IF k \in K THEN None ELSE Swept[k]]
    <3>1. ASSUME NEW k \in Keys, Live(k)' PROVE Live(k) /\ pending'[k] = pending[k]
      BY <1>3, <3>1 DEF Tick, Live
    <3> QED
      BY <3>1 DEF Swept
  <2>3. K \in SUBSET Keys /\ {} \in SUBSET Fresh
    OBVIOUS
  <2> HIDE DEF K
  <2>4. Withdrawn
    BY <2>1, <2>2, <2>3
  <2> QED
    BY <2>4, <1>b
<1>4. CASE Restart
  <2> DEFINE C == {s \in Fresh : pc'[s] = "lost"}
  <2>1. Fresh' = Fresh \ C /\ Used' = Used
    BY <1>4 DEF Restart, Fresh, Used
  <2>2. Swept' = [k \in Keys |-> IF k \in Keys THEN None ELSE Swept[k]]
    BY <1>4 DEF Restart, Swept, Live
  <2>3. Keys \in SUBSET Keys /\ C \in SUBSET Fresh
    OBVIOUS
  <2> HIDE DEF C
  <2>4. Withdrawn
    BY <2>1, <2>2, <2>3
  <2> QED
    BY <2>4, <1>b
<1>5. ASSUME NEW s \in Sends, Reject(s) \/ Accept(s) \/ Delivered(s) \/ Fails(s) PROVE Stutter
  BY <1>5 DEF Reject, Accept, Delivered, Fails, Fresh, Used, Swept, Live
<1>6. ASSUME NEW s \in Sends, Reserve(s) \/ Full(s) PROVE Stutter
  BY <1>6 DEF Reserve, Full, Fresh, Used, Swept, Live
<1>7. ASSUME NEW s \in Sends, NEW x \in Codes, Generate(s, x) PROVE Stutter
  BY <1>7 DEF Generate, Fresh, Used, Swept, Live
<1>8. ASSUME NEW s \in Sends, Store(s) PROVE Contract!CNext
  <2>1. key[s] \in Keys /\ s \in Fresh /\ Fresh' = Fresh \ {s} /\ Used' = Used
    BY <1>8 DEF Store, Fresh, Used
  <2>2. CASE now < expires[s]
    <3>1. Swept' = [Swept EXCEPT ![key[s]] = s]
      BY <1>8, <2>1, <2>2 DEF Store, Swept, Live
    <3> QED
      BY <2>1, <3>1 DEF Contract!CNext, Contract!Offer, Fresh, Used
  <2>3. CASE ~(now < expires[s])
    <3>1. Swept' = [k \in Keys |-> IF k \in {key[s]} THEN None ELSE Swept[k]]
      BY <1>8, <2>1, <2>3 DEF Store, Swept, Live
    <3>2. {key[s]} \in SUBSET Keys /\ {s} \in SUBSET Fresh
      BY <2>1
    <3> QED
      BY <2>1, <3>1, <3>2, <1>b
  <2> QED
    BY <2>2, <2>3
<1>9. ASSUME NEW s \in Sends, Release(s) PROVE Stutter
  BY <1>9 DEF Release, Fresh, Used, Swept, Live
<1>10. ASSUME NEW k \in Keys, VerifyAbsent(k) PROVE Stutter
  BY <1>10 DEF VerifyAbsent, Fresh, Used, Swept, Live
<1>11. ASSUME NEW k \in Keys, NEW x \in Codes, VerifyMatch(k, x) PROVE Contract!Use(k)
  <2>1. Swept[k] = pending[k] /\ pending[k] \in Sends
    BY <1>11 DEF VerifyMatch, Live, Swept
  <2>2. Used' = Used \cup {pending[k]}
    BY <1>11, <2>1 DEF VerifyMatch, Used
  <2>3. Swept' = [Swept EXCEPT ![k] = None] /\ Fresh' = Fresh
    BY <1>11 DEF VerifyMatch, Live, Swept, Fresh
  <2> QED
    BY <2>1, <2>2, <2>3 DEF Contract!Use, Fresh, Used
<1>12. ASSUME NEW k \in Keys, NEW x \in Codes, VerifyMiss(k, x) PROVE Stutter \/ Withdrawn
  <2>1. Fresh' = Fresh /\ Used' = Used
    BY <1>12 DEF VerifyMiss, Fresh, Used
  <2>2. CASE pending' = pending
    BY <1>12, <2>1, <2>2 DEF VerifyMiss, Swept, Live
  <2>3. CASE pending' = [pending EXCEPT ![k] = None]
    <3>1. Swept' = [j \in Keys |-> IF j \in {k} THEN None ELSE Swept[j]]
      BY <1>12, <2>3 DEF VerifyMiss, Swept, Live
    <3>2. Fresh' = Fresh \ {} /\ {k} \in SUBSET Keys /\ {} \in SUBSET Fresh
      BY <2>1
    <3> QED
      BY <2>1, <3>1, <3>2
  <2> QED
    BY <1>12, <2>2, <2>3 DEF VerifyMiss
<1>13. CASE UNCHANGED vars
  <2>1. Stutter
    BY <1>13 DEF vars, Fresh, Used, Swept, Live
  <2> QED
    BY <2>1, <1>a
<1> HIDE DEF Stutter, Withdrawn
<1> QED
  BY <1>a, <1>b, <1>1, <1>2, <1>3, <1>4, <1>5, <1>6, <1>7, <1>8, <1>9, <1>10, <1>11, <1>12, <1>13
  DEF Next, Step, Verify, Contract!CNext

(***************************************************************************)
(* The verifier keeps the promises of OneTimeCode in every run: sweeps,    *)
(* deliveries, expiry, guesses and restarts only offer, use or withdraw.   *)
(***************************************************************************)
THEOREM Refinement == Spec => ImplementsOneTimeCode
<1>1. Init => Contract!CInit
  BY ContractInit
<1>2. Inv /\ [Next]_vars => [Contract!CNext]_(Contract!cvars)
  BY ContractStep
<1> QED
  BY <1>1, <1>2, Invariance, PTL DEF Spec, ImplementsOneTimeCode, Contract!CSpec

-----------------------------------------------------------------------------
(***************************************************************************)
(* Progress.  A call moves on from each of its places, and after at most   *)
(* six of them it is over.                                                 *)
(***************************************************************************)
Onward == [
  enter     |-> Over \cup {"reserved"},
  reserved  |-> Over \cup {"sending", "failed"},
  sending   |-> Over \cup {"sent", "failed"},
  sent      |-> Over \cup {"delivered", "failed"},
  delivered |-> Over \cup {"stored"},
  stored    |-> Over,
  failed    |-> Over]

MovesOn(s, x) == pc[s] = x ~> pc[s] \in Onward[x]

LEMMA CallMovesOn ==
  ASSUME NEW s \in Sends, NEW x \in Called
  PROVE  Spec /\ SendRuns(s) /\ []NeverStuck => MovesOn(s, x)
<1> USE DEF Called, Occupying, Unstored, Over
<1>1. TypeOK /\ pc[s] = x /\ [Next]_vars => (pc[s] = x)' \/ (pc[s] \in Onward[x])'
  <2> SUFFICES ASSUME TypeOK, pc[s] = x, Next PROVE pc'[s] = x \/ pc'[s] \in Onward[x]
    BY DEF vars
  <2>1. ASSUME NEW r \in Sends, Step(r) PROVE pc'[s] = x \/ pc'[s] \in Onward[x]
    BY <2>1 DEF TypeOK, Step, Reject, Reserve, Full, Generate, Accept, Delivered, Fails, Store, Release, Move, Onward
  <2> QED
    BY <2>1 DEF TypeOK, Next, Begin, Cancel, Tick, Restart, Verify, VerifyAbsent, VerifyMatch, VerifyMiss, Move, Onward
<1>2. TypeOK /\ pc[s] = x /\ <<Step(s)>>_vars => (pc[s] \in Onward[x])'
  BY DEF TypeOK, Step, Reject, Reserve, Full, Generate, Accept, Delivered, Fails, Store, Release, Move, Onward
<1>3. NeverStuck /\ pc[s] = x => ENABLED <<Step(s)>>_vars
  BY DEF NeverStuck
<1> QED
  BY <1>1, <1>2, <1>3, TypeCorrect, PTL DEF Spec, SendRuns, MovesOn

LEMMA CallEnds ==
  ASSUME NEW s \in Sends
  PROVE  Spec /\ SendRuns(s) /\ []NeverStuck => SlotComesBack(s)
<1> DEFINE At(x) == pc[s] = x
<1>1. /\ pc[s] \in Called => At("enter") \/ At("reserved") \/ At("sending") \/ At("sent") \/ At("delivered")
                           \/ At("stored") \/ At("failed")
      /\ pc[s] \in Onward["enter"] => pc[s] \in Over \/ At("reserved")
      /\ pc[s] \in Onward["reserved"] => pc[s] \in Over \/ At("sending") \/ At("failed")
      /\ pc[s] \in Onward["sending"] => pc[s] \in Over \/ At("sent") \/ At("failed")
      /\ pc[s] \in Onward["sent"] => pc[s] \in Over \/ At("delivered") \/ At("failed")
      /\ pc[s] \in Onward["delivered"] => pc[s] \in Over \/ At("stored")
      /\ pc[s] \in Onward["stored"] => pc[s] \in Over
      /\ pc[s] \in Onward["failed"] => pc[s] \in Over
  BY DEF Called, Occupying, Unstored, Onward
<1>2. /\ "enter" \in Called /\ "reserved" \in Called /\ "sending" \in Called /\ "sent" \in Called
      /\ "delivered" \in Called /\ "stored" \in Called /\ "failed" \in Called
  BY DEF Called, Occupying, Unstored
<1>3. Spec /\ SendRuns(s) /\ []NeverStuck =>
        /\ MovesOn(s, "enter") /\ MovesOn(s, "reserved") /\ MovesOn(s, "sending") /\ MovesOn(s, "sent")
        /\ MovesOn(s, "delivered") /\ MovesOn(s, "stored") /\ MovesOn(s, "failed")
  BY <1>2, CallMovesOn, Zenon
<1> QED
  BY <1>1, <1>3, PTL DEF SlotComesBack, MovesOn

(***************************************************************************)
(* Every SendOTP that was called returns, and has then given its slot      *)
(* back, if the scheduler is fair to each and none is ever without a step  *)
(* to take.                                                                *)
(***************************************************************************)
THEOREM SlotsComeBackUnlessStuck == FairSpec /\ []NeverStuck => SlotsComeBack
<1>1. FairSpec => Spec /\ Scheduling
  BY PTL DEF FairSpec
<1>2. ASSUME NEW s \in Sends PROVE FairSpec /\ []NeverStuck => SlotComesBack(s)
  <2>1. Scheduling => SendRuns(s)
    BY Zenon DEF Scheduling
  <2> QED
    BY <1>1, <2>1, CallEnds, Zenon
<1>3. FairSpec /\ []NeverStuck => \A s \in Sends : SlotComesBack(s)
  BY <1>2, Zenon
<1> QED
  BY <1>3, PTL DEF SlotsComeBack

=============================================================================
