-------------------------- MODULE TokenCacheProofs --------------------------
(***************************************************************************)
(* Proofs about TokenCache for every set of calls, every set of lifetimes, *)
(* every configured maximum and every length of a run.                     *)
(*                                                                         *)
(* None of the safety properties is inductive alone.  The strengthening    *)
(* Inv says which call leads, what a finished flight left behind and what  *)
(* a call may hold; each action then preserves it part by part.            *)
(***************************************************************************)
EXTENDS TokenCache, TLAPS

-----------------------------------------------------------------------------
\* Who is in a flight, and which flights are finished.
FlightInv ==
  /\ SingleFlight
  /\ \A c \in Calls : flight[c] = "open" <=> acquiring = c
  /\ \A c \in Calls : flight[c] # "none" => pc[c] \notin {"idle", "enter", "wait"}
  /\ \A c \in Calls : pc[c] = "wait" => joined[c] \in Calls

\* What the leader knows of its grant, and what is left of it in the cache.
GrantInv ==
  /\ \A c \in Calls : pc[c] = "acquire" => start[c] <= now
  /\ \A c \in Calls : pc[c] = "granted" \/ flight[c] = "ok" =>
       /\ start[c] <= issued[c]
       /\ lifetime[c] \in Lifetimes
  /\ token # None => flight[token] = "ok" /\ deadline = Deadline(token)

\* What a call holds after it was handed a token, and after it was refused.
HolderInv ==
  /\ \A c \in Calls : held[c] # None => flight[held[c]] = "ok"
  /\ \A c \in Calls : pc[c] \in {"lookup", "refused"} => held[c] # None
  /\ \A c \in Calls : pc[c] = "refused" => answer[c] = "refused"
  /\ \A c \in Calls : answer[c] = "refused" =>
       /\ pc[c] \in {"refused", "unavailable"}
       /\ held[c] # None

Inv ==
  /\ TypeOK
  /\ FlightInv
  /\ GrantInv
  /\ HolderInv
  /\ RefusedTokenStaysOut
  /\ NoRedundantToken

-----------------------------------------------------------------------------
\* The cap shortens a grant and never lengthens it.
LEMMA DeadlineBound ==
  ASSUME TypeOK, NEW c \in Calls
  PROVE  /\ Deadline(c) \in Nat
         /\ Deadline(c) <= start[c] + lifetime[c]
         /\ Deadline(c) <= start[c] + CacheMax
<1>1. start[c] \in Nat /\ lifetime[c] \in Nat /\ CacheMax \in Nat
  BY TokenCacheAssumption DEF TypeOK
<1> QED
  BY <1>1 DEF Deadline, MinOf

\* The provider's fields and the calls' locals keep their types.
LEMMA TypeStep == TypeOK /\ [Next]_vars => TypeOK'
<1> SUFFICES ASSUME TypeOK, [Next]_vars PROVE TypeOK'
  OBVIOUS
<1> USE TokenCacheAssumption DEF TypeOK, PCs, Leading, Over, Answers, flightVars, callVars, Move
<1>1. ASSUME NEW c \in Calls, Begin(c) PROVE TypeOK'
  BY <1>1 DEF Begin
<1>2. ASSUME NEW c \in Calls, Cancel(c) PROVE TypeOK'
  BY <1>2 DEF Cancel
<1>3. CASE Tick
  BY <1>3 DEF Tick
<1>4. ASSUME NEW c \in Calls, GiveUp(c) \/ WaitDone(c) \/ WaitCancelled(c) \/ AcquireFails(c)
      PROVE  TypeOK'
  BY <1>4 DEF GiveUp, WaitDone, WaitCancelled, AcquireFails
<1>5. ASSUME NEW c \in Calls, Hit(c) PROVE TypeOK'
  BY <1>5 DEF Hit, Usable
<1>6. ASSUME NEW c \in Calls, Join(c) PROVE TypeOK'
  BY <1>6 DEF Join
<1>7. ASSUME NEW c \in Calls, Lead(c) PROVE TypeOK'
  BY <1>7 DEF Lead
<1>8. ASSUME NEW c \in Calls, Stamp(c) PROVE TypeOK'
  BY <1>8 DEF Stamp
<1>9. ASSUME NEW c \in Calls, NEW l \in Lifetimes, Grant(c, l) PROVE TypeOK'
  BY <1>9 DEF Grant
<1>10. ASSUME NEW c \in Calls, SettleOk(c) PROVE TypeOK'
  <2>1. Deadline(c) \in Nat
    BY DeadlineBound
  <2> QED BY <1>10, <2>1 DEF SettleOk
<1>11. ASSUME NEW c \in Calls, SettleErr(c) PROVE TypeOK'
  BY <1>11 DEF SettleErr
<1>12. ASSUME NEW c \in Calls, NEW a \in Answers \ {"none"}, Answer(c, a) PROVE TypeOK'
  BY <1>12 DEF Answer, AfterAnswer
<1>13. ASSUME NEW c \in Calls, Invalidate(c) PROVE TypeOK'
  BY <1>13 DEF Invalidate
<1>14. CASE UNCHANGED vars
  BY <1>14 DEF vars
<1> QED
  BY <1>1, <1>2, <1>3, <1>4, <1>5, <1>6, <1>7, <1>8, <1>9, <1>10, <1>11, <1>12, <1>13, <1>14
  DEF Next, Step

(***************************************************************************)
(* Only Lead registers a flight, and only when none is registered; only    *)
(* the leader settles it, and it is the leader until then.                 *)
(***************************************************************************)
LEMMA FlightStep == TypeOK /\ FlightInv /\ [Next]_vars => FlightInv'
<1> SUFFICES ASSUME TypeOK, FlightInv, [Next]_vars PROVE FlightInv'
  OBVIOUS
<1> USE TokenCacheAssumption
    DEF TypeOK, FlightInv, SingleFlight, Leading, Over, flightVars, callVars, Move
<1>1. ASSUME NEW c \in Calls, Begin(c) PROVE FlightInv'
  BY <1>1 DEF Begin
<1>2. ASSUME NEW c \in Calls, Cancel(c) PROVE FlightInv'
  BY <1>2 DEF Cancel
<1>3. CASE Tick
  BY <1>3 DEF Tick
<1>4. ASSUME NEW c \in Calls, GiveUp(c) \/ WaitDone(c) \/ WaitCancelled(c) \/ AcquireFails(c)
      PROVE  FlightInv'
  <2>1. CASE GiveUp(c)
    BY <2>1 DEF GiveUp
  <2>2. CASE WaitDone(c)
    BY <2>2 DEF WaitDone
  <2>3. CASE WaitCancelled(c)
    BY <2>3 DEF WaitCancelled
  <2>4. CASE AcquireFails(c)
    BY <2>4 DEF AcquireFails
  <2> QED BY <1>4, <2>1, <2>2, <2>3, <2>4
<1>5. ASSUME NEW c \in Calls, Hit(c) PROVE FlightInv'
  BY <1>5 DEF Hit, Usable
<1>6. ASSUME NEW c \in Calls, Join(c) PROVE FlightInv'
  BY <1>6 DEF Join
<1>7. ASSUME NEW c \in Calls, Lead(c) PROVE FlightInv'
  BY <1>7 DEF Lead
<1>8. ASSUME NEW c \in Calls, Stamp(c) PROVE FlightInv'
  BY <1>8 DEF Stamp
<1>9. ASSUME NEW c \in Calls, NEW l \in Lifetimes, Grant(c, l) PROVE FlightInv'
  BY <1>9 DEF Grant
<1>10. ASSUME NEW c \in Calls, SettleOk(c) PROVE FlightInv'
  BY <1>10 DEF SettleOk
<1>11. ASSUME NEW c \in Calls, SettleErr(c) PROVE FlightInv'
  BY <1>11 DEF SettleErr
<1>12. ASSUME NEW c \in Calls, NEW a \in Answers \ {"none"}, Answer(c, a) PROVE FlightInv'
  BY <1>12 DEF Answer, AfterAnswer, Answers
<1>13. ASSUME NEW c \in Calls, Invalidate(c) PROVE FlightInv'
  BY <1>13 DEF Invalidate
<1>14. CASE UNCHANGED vars
  BY <1>14 DEF vars
<1> QED
  BY <1>1, <1>2, <1>3, <1>4, <1>5, <1>6, <1>7, <1>8, <1>9, <1>10, <1>11, <1>12, <1>13, <1>14
  DEF Next, Step

(***************************************************************************)
(* A grant is stamped before it is requested and issued after; the cache   *)
(* holds only the outcome of a flight that succeeded, with its deadline.   *)
(***************************************************************************)
LEMMA GrantStep ==
  TypeOK /\ FlightInv /\ GrantInv /\ [Next]_vars => GrantInv'
<1> SUFFICES ASSUME TypeOK, FlightInv, GrantInv, [Next]_vars PROVE GrantInv'
  OBVIOUS
<1> USE TokenCacheAssumption
    DEF TypeOK, FlightInv, GrantInv, SingleFlight, Leading, Over, flightVars, callVars,
        Move, Deadline
<1>1. ASSUME NEW c \in Calls, Begin(c) PROVE GrantInv'
  BY <1>1 DEF Begin
<1>2. ASSUME NEW c \in Calls, Cancel(c) PROVE GrantInv'
  BY <1>2 DEF Cancel
<1>3. CASE Tick
  BY <1>3 DEF Tick
<1>4. ASSUME NEW c \in Calls, GiveUp(c) \/ WaitDone(c) \/ WaitCancelled(c) \/ AcquireFails(c)
      PROVE  GrantInv'
  BY <1>4 DEF GiveUp, WaitDone, WaitCancelled, AcquireFails
<1>5. ASSUME NEW c \in Calls, Hit(c) PROVE GrantInv'
  BY <1>5 DEF Hit, Usable
<1>6. ASSUME NEW c \in Calls, Join(c) PROVE GrantInv'
  BY <1>6 DEF Join
<1>7. ASSUME NEW c \in Calls, Lead(c) PROVE GrantInv'
  BY <1>7 DEF Lead
<1>8. ASSUME NEW c \in Calls, Stamp(c) PROVE GrantInv'
  <2>1. acquiring = c /\ flight[c] = "open" /\ token = None
    BY <1>8 DEF Stamp
  <2> QED BY <1>8, <2>1 DEF Stamp
<1>9. ASSUME NEW c \in Calls, NEW l \in Lifetimes, Grant(c, l) PROVE GrantInv'
  <2>1. acquiring = c /\ flight[c] = "open" /\ token = None
    BY <1>9 DEF Grant
  <2> QED BY <1>9, <2>1 DEF Grant
<1>10. ASSUME NEW c \in Calls, SettleOk(c) PROVE GrantInv'
  BY <1>10 DEF SettleOk
<1>11. ASSUME NEW c \in Calls, SettleErr(c) PROVE GrantInv'
  <2>1. acquiring = c /\ token = None
    BY <1>11 DEF SettleErr
  <2> QED BY <1>11, <2>1 DEF SettleErr
<1>12. ASSUME NEW c \in Calls, NEW a \in Answers \ {"none"}, Answer(c, a) PROVE GrantInv'
  BY <1>12 DEF Answer, AfterAnswer, Answers
<1>13. ASSUME NEW c \in Calls, Invalidate(c) PROVE GrantInv'
  BY <1>13 DEF Invalidate
<1>14. CASE UNCHANGED vars
  BY <1>14 DEF vars
<1> QED
  BY <1>1, <1>2, <1>3, <1>4, <1>5, <1>6, <1>7, <1>8, <1>9, <1>10, <1>11, <1>12, <1>13, <1>14
  DEF Next, Step

(***************************************************************************)
(* A call holds only tokens of finished flights, and keeps the one that the *)
(* registry refused.                                                       *)
(***************************************************************************)
LEMMA HolderStep ==
  TypeOK /\ FlightInv /\ GrantInv /\ HolderInv /\ [Next]_vars
    => HolderInv'
<1> SUFFICES ASSUME TypeOK, FlightInv, GrantInv, HolderInv, [Next]_vars PROVE HolderInv'
  OBVIOUS
<1> USE TokenCacheAssumption
    DEF TypeOK, FlightInv, GrantInv, HolderInv, SingleFlight, Leading, Over, flightVars,
        callVars, Move
<1>1. ASSUME NEW c \in Calls, Begin(c) PROVE HolderInv'
  BY <1>1 DEF Begin
<1>2. ASSUME NEW c \in Calls, Cancel(c) PROVE HolderInv'
  BY <1>2 DEF Cancel
<1>3. CASE Tick
  BY <1>3 DEF Tick
<1>4. ASSUME NEW c \in Calls, GiveUp(c) \/ WaitDone(c) \/ WaitCancelled(c) \/ AcquireFails(c)
      PROVE  HolderInv'
  BY <1>4 DEF GiveUp, WaitDone, WaitCancelled, AcquireFails
<1>5. ASSUME NEW c \in Calls, Hit(c) PROVE HolderInv'
  BY <1>5 DEF Hit, Usable
<1>6. ASSUME NEW c \in Calls, Join(c) PROVE HolderInv'
  BY <1>6 DEF Join
<1>7. ASSUME NEW c \in Calls, Lead(c) PROVE HolderInv'
  BY <1>7 DEF Lead
<1>8. ASSUME NEW c \in Calls, Stamp(c) PROVE HolderInv'
  BY <1>8 DEF Stamp
<1>9. ASSUME NEW c \in Calls, NEW l \in Lifetimes, Grant(c, l) PROVE HolderInv'
  BY <1>9 DEF Grant
<1>10. ASSUME NEW c \in Calls, SettleOk(c) PROVE HolderInv'
  BY <1>10 DEF SettleOk
<1>11. ASSUME NEW c \in Calls, SettleErr(c) PROVE HolderInv'
  BY <1>11 DEF SettleErr
<1>12. ASSUME NEW c \in Calls, NEW a \in Answers \ {"none"}, Answer(c, a)
       PROVE  HolderInv'
  BY <1>12 DEF Answer, AfterAnswer, Answers
<1>13. ASSUME NEW c \in Calls, Invalidate(c) PROVE HolderInv'
  BY <1>13 DEF Invalidate
<1>14. CASE UNCHANGED vars
  BY <1>14 DEF vars
<1> QED
  BY <1>1, <1>2, <1>3, <1>4, <1>5, <1>6, <1>7, <1>8, <1>9, <1>10, <1>11, <1>12, <1>13, <1>14
  DEF Next, Step

(***************************************************************************)
(* A refused token does not come back: settling a flight caches a token that *)
(* no call holds yet, and Invalidate compares before it clears.            *)
(***************************************************************************)
LEMMA RefusedStep ==
  TypeOK /\ FlightInv /\ HolderInv /\ RefusedTokenStaysOut /\ [Next]_vars
    => RefusedTokenStaysOut'
<1> SUFFICES ASSUME TypeOK, FlightInv, HolderInv, RefusedTokenStaysOut, [Next]_vars
             PROVE  RefusedTokenStaysOut'
  OBVIOUS
<1> USE TokenCacheAssumption
    DEF TypeOK, FlightInv, HolderInv, RefusedTokenStaysOut, SingleFlight, Leading, Over,
        flightVars, callVars, Move
<1>1. ASSUME NEW c \in Calls, Begin(c) PROVE RefusedTokenStaysOut'
  BY <1>1 DEF Begin
<1>2. ASSUME NEW c \in Calls, Cancel(c) PROVE RefusedTokenStaysOut'
  BY <1>2 DEF Cancel
<1>3. CASE Tick
  BY <1>3 DEF Tick
<1>4. ASSUME NEW c \in Calls, GiveUp(c) \/ WaitDone(c) \/ WaitCancelled(c) \/ AcquireFails(c)
      PROVE  RefusedTokenStaysOut'
  BY <1>4 DEF GiveUp, WaitDone, WaitCancelled, AcquireFails
<1>5. ASSUME NEW c \in Calls, Hit(c) PROVE RefusedTokenStaysOut'
  BY <1>5 DEF Hit, Usable
<1>6. ASSUME NEW c \in Calls, Join(c) PROVE RefusedTokenStaysOut'
  BY <1>6 DEF Join
<1>7. ASSUME NEW c \in Calls, Lead(c) PROVE RefusedTokenStaysOut'
  BY <1>7 DEF Lead
<1>8. ASSUME NEW c \in Calls, Stamp(c) PROVE RefusedTokenStaysOut'
  BY <1>8 DEF Stamp
<1>9. ASSUME NEW c \in Calls, NEW l \in Lifetimes, Grant(c, l) PROVE RefusedTokenStaysOut'
  BY <1>9 DEF Grant
<1>10. ASSUME NEW c \in Calls, SettleOk(c) PROVE RefusedTokenStaysOut'
  BY <1>10 DEF SettleOk
<1>11. ASSUME NEW c \in Calls, SettleErr(c) PROVE RefusedTokenStaysOut'
  BY <1>11 DEF SettleErr
<1>12. ASSUME NEW c \in Calls, NEW a \in Answers \ {"none"}, Answer(c, a)
       PROVE  RefusedTokenStaysOut'
  BY <1>12 DEF Answer, AfterAnswer, Answers
<1>13. ASSUME NEW c \in Calls, Invalidate(c) PROVE RefusedTokenStaysOut'
  BY <1>13 DEF Invalidate
<1>14. CASE UNCHANGED vars
  BY <1>14 DEF vars
<1> QED
  BY <1>1, <1>2, <1>3, <1>4, <1>5, <1>6, <1>7, <1>8, <1>9, <1>10, <1>11, <1>12, <1>13, <1>14
  DEF Next, Step

(***************************************************************************)
(* A token leaves the cache by expiry or by the refusal of a call that use *)
(***************************************************************************)
LEMMA RedundantStep ==
  TypeOK /\ FlightInv /\ GrantInv /\ HolderInv /\ NoRedundantToken /\ [Next]_vars
    => NoRedundantToken'
<1> SUFFICES ASSUME TypeOK, FlightInv, GrantInv, HolderInv, NoRedundantToken,
                    [Next]_vars
             PROVE  NoRedundantToken'
  OBVIOUS
<1> USE TokenCacheAssumption
    DEF TypeOK, FlightInv, GrantInv, HolderInv, NoRedundantToken, SingleFlight, Leading,
        Over, flightVars, callVars, Move, Deadline, Usable
<1>1. ASSUME NEW c \in Calls, Begin(c) PROVE NoRedundantToken'
  BY <1>1 DEF Begin
<1>2. ASSUME NEW c \in Calls, Cancel(c) PROVE NoRedundantToken'
  BY <1>2 DEF Cancel
<1>3. CASE Tick
  <2>1. \A t \in Calls : Deadline(t) \in Nat
    BY DeadlineBound
  <2>2. \A t \in Calls : Deadline(t)' = Deadline(t)
    BY <1>3 DEF Tick
  <2> HIDE DEF Deadline
  <2> QED BY <1>3, <2>1, <2>2 DEF Tick
<1>4. ASSUME NEW c \in Calls, GiveUp(c) \/ WaitDone(c) \/ WaitCancelled(c) \/ AcquireFails(c)
      PROVE  NoRedundantToken'
  BY <1>4 DEF GiveUp, WaitDone, WaitCancelled, AcquireFails
<1>5. ASSUME NEW c \in Calls, Hit(c) PROVE NoRedundantToken'
  BY <1>5 DEF Hit, Usable
<1>6. ASSUME NEW c \in Calls, Join(c) PROVE NoRedundantToken'
  BY <1>6 DEF Join
<1>7. ASSUME NEW c \in Calls, Lead(c) PROVE NoRedundantToken'
  BY <1>7 DEF Lead
<1>8. ASSUME NEW c \in Calls, Stamp(c) PROVE NoRedundantToken'
  BY <1>8 DEF Stamp
<1>9. ASSUME NEW c \in Calls, NEW l \in Lifetimes, Grant(c, l) PROVE NoRedundantToken'
  BY <1>9 DEF Grant
<1>10. ASSUME NEW c \in Calls, SettleOk(c) PROVE NoRedundantToken'
  BY <1>10 DEF SettleOk
<1>11. ASSUME NEW c \in Calls, SettleErr(c) PROVE NoRedundantToken'
  BY <1>11 DEF SettleErr
<1>12. ASSUME NEW c \in Calls, NEW a \in Answers \ {"none"}, Answer(c, a)
       PROVE  NoRedundantToken'
  BY <1>12 DEF Answer, AfterAnswer, Answers
<1>13. ASSUME NEW c \in Calls, Invalidate(c) PROVE NoRedundantToken'
  BY <1>13 DEF Invalidate
<1>14. CASE UNCHANGED vars
  BY <1>14 DEF vars
<1> QED
  BY <1>1, <1>2, <1>3, <1>4, <1>5, <1>6, <1>7, <1>8, <1>9, <1>10, <1>11, <1>12, <1>13, <1>14
  DEF Next, Step

-----------------------------------------------------------------------------
LEMMA InvInit == Init => Inv
BY TokenCacheAssumption
   DEF Init, Inv, TypeOK, FlightInv, GrantInv, HolderInv, SingleFlight, RefusedTokenStaysOut,
       NoRedundantToken, PCs, Leading, Over, Answers

LEMMA InvStep == Inv /\ [Next]_vars => Inv'
BY TypeStep, FlightStep, GrantStep, HolderStep, RefusedStep, RedundantStep DEF Inv

(***************************************************************************)
(* The inductive invariant holds in every run of any number of concurrent  *)
(* lookups (accessToken, acquire, lookup and invalidate of http.go).       *)
(***************************************************************************)
THEOREM Invariance == Spec => []Inv
<1>1. Init => Inv
  BY InvInit
<1>2. Inv /\ [Next]_vars => Inv'
  BY InvStep
<1> QED
  BY <1>1, <1>2, PTL DEF Spec

(***************************************************************************)
(* The fields of Provider and the locals of a lookup are always of their   *)
(* types.                                                                  *)
(***************************************************************************)
THEOREM TypeCorrect == Spec => []TypeOK
<1>1. Inv => TypeOK
  BY DEF Inv
<1> QED
  BY <1>1, Invariance, PTL

(***************************************************************************)
(* accessToken never has two calls at the token endpoint, and never keeps  *)
(* a token beside an acquisition.                                          *)
(***************************************************************************)
THEOREM SingleFlightAlways == Spec => []SingleFlight
<1>1. Inv => SingleFlight
  BY DEF Inv, FlightInv
<1> QED
  BY <1>1, Invariance, PTL

\* What is cached lapses no later than the grant and the configured maximum.
LEMMA CachedInTime == Inv => CacheWithinGrant
<1> SUFFICES ASSUME Inv, token # None PROVE CacheWithinGrant
  BY DEF CacheWithinGrant
<1>1. token \in Calls /\ deadline = Deadline(token) /\ start[token] <= issued[token]
  BY DEF Inv, TypeOK, GrantInv
<1>2. /\ start[token] \in Nat /\ issued[token] \in Nat /\ lifetime[token] \in Nat
      /\ Deadline(token) \in Nat /\ CacheMax \in Nat
      /\ Deadline(token) <= start[token] + lifetime[token]
      /\ Deadline(token) <= start[token] + CacheMax
  BY <1>1, DeadlineBound, TokenCacheAssumption DEF Inv, TypeOK
<1> QED
  BY <1>1, <1>2 DEF CacheWithinGrant, Expiry

(***************************************************************************)
(* The cached token is dropped no later than its issuer lets it expire,    *)
(* however long the acquisition took.                                      *)
(***************************************************************************)
THEOREM CacheWithinGrantAlways == Spec => []CacheWithinGrant
BY CachedInTime, Invariance, PTL

(***************************************************************************)
(* A token that a returned lookup saw refused is never in the cache again. *)
(***************************************************************************)
THEOREM RefusedTokenStaysOutAlways == Spec => []RefusedTokenStaysOut
<1>1. Inv => RefusedTokenStaysOut
  BY DEF Inv
<1> QED
  BY <1>1, Invariance, PTL

(***************************************************************************)
(* A good token is never replaced: every token that left the cache before  *)
(* its deadline was refused by the registry.                               *)
(***************************************************************************)
THEOREM NoRedundantTokenAlways == Spec => []NoRedundantToken
<1>1. Inv => NoRedundantToken
  BY DEF Inv
<1> QED
  BY <1>1, Invariance, PTL

(***************************************************************************)
(* A lookup waits only for a flight that is open when it joins: only such  *)
(* a flight is registered.  The other steps end a call for its own cause.  *)
(***************************************************************************)
LEMMA CauseOfFailure ==
  ASSUME Inv, Next, NEW c \in Calls
  PROVE  /\ pc[c] # "wait" /\ pc'[c] = "wait" => flight[joined'[c]] = "open"
         /\ pc[c] # "unavailable" /\ pc'[c] = "unavailable" =>
              \/ c \in cancelled
              \/ answer'[c] \in {"refused", "error"}
              \/ flight'[c] = "failed"
              \/ pc[c] = "wait" /\ flight[joined[c]] = "failed"
<1>1. TypeOK /\ FlightInv /\ HolderInv
  BY DEF Inv
<1> USE <1>1 DEF TypeOK, flightVars, callVars, Move
<1>2. ASSUME NEW d \in Calls, Step(d), pc[c] # "wait", pc'[c] = "wait"
      PROVE  flight[joined'[c]] = "open"
  <2>1. Join(c)
    BY <1>2 DEF Step, GiveUp, Hit, Join, Lead, WaitDone, WaitCancelled, Stamp, AcquireFails, SettleOk,
                SettleErr, Grant, Answer, AfterAnswer, Answers, Invalidate
  <2> QED
    BY <2>1 DEF Join, FlightInv
<1>3. ASSUME NEW d \in Calls, Step(d), pc[c] # "unavailable", pc'[c] = "unavailable"
      PROVE  \/ c \in cancelled
             \/ answer'[c] \in {"refused", "error"}
             \/ flight'[c] = "failed"
             \/ pc[c] = "wait" /\ flight[joined[c]] = "failed"
  <2>1. \/ GiveUp(c) \/ WaitDone(c) \/ WaitCancelled(c) \/ SettleErr(c) \/ Invalidate(c)
        \/ \E a \in Answers \ {"none"} : Answer(c, a)
    BY <1>3 DEF Step, GiveUp, Hit, Join, Lead, WaitDone, WaitCancelled, Stamp, AcquireFails, SettleOk,
                SettleErr, Grant, Answer, Invalidate
  <2> QED
    BY <1>3, <2>1 DEF GiveUp, WaitDone, WaitCancelled, SettleErr, Invalidate, Answer, AfterAnswer,
                      Answers, HolderInv
<1> QED
  BY <1>2, <1>3 DEF Next, Begin, Cancel, Tick

(***************************************************************************)
(* A lookup never fails for the sake of a flight it did not take part in,  *)
(* or of one that was over when it asked.                                  *)
(***************************************************************************)
THEOREM FailureHasCauseAlways == Spec => FailureHasCause
<1>1. Inv /\ [Next]_vars =>
        [\A c \in Calls :
           /\ pc[c] # "wait" /\ pc'[c] = "wait" => flight[joined'[c]] = "open"
           /\ pc[c] # "unavailable" /\ pc'[c] = "unavailable" =>
                \/ c \in cancelled
                \/ answer'[c] \in {"refused", "error"}
                \/ flight'[c] = "failed"
                \/ pc[c] = "wait" /\ flight[joined[c]] = "failed"]_vars
  BY CauseOfFailure
<1> QED
  BY <1>1, Invariance, PTL DEF Spec, FailureHasCause

(***************************************************************************)
(* Only Hit and SettleOk hand out a token.  Hit hands out the cached one   *)
(* before its deadline, SettleOk the new one after checking that it was    *)
(* not spent in transit.                                                   *)
(***************************************************************************)
LEMMA HandOut == Inv /\ [Next]_vars =>
  \A c \in Calls : held'[c] # held[c] => now < Expiry(held'[c])
<1> SUFFICES ASSUME Inv, [Next]_vars, NEW c \in Calls, held'[c] # held[c]
             PROVE  now < Expiry(held'[c])
  OBVIOUS
<1>1. TypeOK /\ held \in [Calls -> Calls \cup {None}]
  BY DEF Inv, TypeOK
<1>2. Hit(c) \/ SettleOk(c)
  BY <1>1 DEF Next, Step, vars, callVars, Begin, Cancel, Tick, GiveUp, Hit, Join, Lead, WaitDone,
       WaitCancelled, Stamp, Grant, AcquireFails, SettleOk, SettleErr, Answer, Invalidate
<1>3. CASE Hit(c)
  <2>1. token \in Calls /\ now < deadline /\ held'[c] = token
    BY <1>1, <1>3 DEF Hit, Usable, TypeOK
  <2>2. deadline <= Expiry(token)
    BY <2>1, <1>3, CachedInTime DEF CacheWithinGrant, Hit, Usable
  <2> QED
    BY <1>1, <2>1, <2>2 DEF TypeOK, Expiry
<1>4. CASE SettleOk(c)
  <2>1. held'[c] = c /\ now < Deadline(c) /\ start[c] <= issued[c]
    BY <1>1, <1>4 DEF SettleOk, Move, Inv, GrantInv
  <2>2. Deadline(c) \in Nat /\ Deadline(c) <= start[c] + lifetime[c]
    BY <1>1, DeadlineBound
  <2> QED
    BY <1>1, <2>1, <2>2 DEF TypeOK, Expiry
<1> QED
  BY <1>2, <1>3, <1>4

(***************************************************************************)
(* No call is ever handed a token that its issuer no longer honours.       *)
(***************************************************************************)
THEOREM HandedTokenUnexpiredAlways == Spec => HandedTokenUnexpired
<1>1. Inv /\ [Next]_vars =>
        [\A c \in Calls : held'[c] # held[c] => now < Expiry(held'[c])]_vars
  BY HandOut
<1> QED
  BY <1>1, Invariance, PTL DEF Spec, HandedTokenUnexpired

-----------------------------------------------------------------------------
(***************************************************************************)
(* Refinement.  The phases of the calls are the values of a function, so   *)
(* moving one call moves one phase; the steps of a call that is acquiring  *)
(* or waiting do not show.                                                 *)
(***************************************************************************)
Phase == [c \in Calls |-> PhaseOf(pc[c])]

LEMMA PhaseMove ==
  ASSUME TypeOK, NEW c \in Calls, NEW q \in PCs, pc' = [pc EXCEPT ![c] = q]
  PROVE  Phase' = [Phase EXCEPT ![c] = PhaseOf(q)]
BY DEF TypeOK, Phase

LEMMA PhaseStays ==
  ASSUME TypeOK, NEW c \in Calls, NEW q \in PCs, pc' = [pc EXCEPT ![c] = q],
         PhaseOf(q) = PhaseOf(pc[c])
  PROVE  Phase' = Phase
BY DEF TypeOK, Phase

LEMMA ServiceInit == Init => Service!SInit
BY DEF Init, Service!SInit, PhaseOf, Over

LEMMA ServiceStep == Inv /\ [Next]_vars => [Service!SNext]_(Service!svars)
<1> SUFFICES ASSUME Inv, [Next]_vars PROVE [Service!SNext]_(Service!svars)
  OBVIOUS
<1>0. TypeOK /\ FlightInv /\ HolderInv
  BY DEF Inv
<1> DEFINE Stutter == token' = token /\ Phase' = Phase /\ held' = held
<1>a. Stutter => UNCHANGED Service!svars
  BY DEF Service!svars, Phase
<1> USE DEF Move, PCs, Leading, Over, flightVars, callVars
<1>1. ASSUME NEW c \in Calls, Begin(c) PROVE Service!Ask(c)
  <2>1. Phase' = [Phase EXCEPT ![c] = "wanting"] /\ Phase[c] = "idle"
    BY <1>0, <1>1, PhaseMove DEF Begin, Phase, PhaseOf
  <2> QED BY <1>1, <2>1 DEF Begin, Phase, Service!Ask, Service!Advance
<1>2. ASSUME NEW c \in Calls, Cancel(c) PROVE Stutter
  BY <1>2 DEF Cancel, Phase
<1>3. CASE Tick
  <2>1. Stutter
    BY <1>3 DEF Tick, Phase
  <2> QED BY <2>1, <1>a
<1>4. ASSUME NEW c \in Calls, GiveUp(c) \/ WaitCancelled(c) PROVE Service!Fail(c)
  <2>1. Phase' = [Phase EXCEPT ![c] = "unavailable"] /\ Phase[c] = "wanting"
    BY <1>0, <1>4, PhaseMove DEF GiveUp, WaitCancelled, Phase, PhaseOf
  <2> QED BY <1>4, <2>1 DEF GiveUp, WaitCancelled, Phase, Service!Fail, Service!Advance
<1>5. ASSUME NEW c \in Calls, WaitDone(c) PROVE Service!Fail(c) \/ Stutter
  <2>1. CASE pc' = [pc EXCEPT ![c] = "enter"]
    <3>1. Phase' = Phase
      BY <1>0, <1>5, <2>1, PhaseStays DEF WaitDone, PhaseOf
    <3> QED BY <1>5, <3>1 DEF WaitDone
  <2>2. CASE pc' = [pc EXCEPT ![c] = "unavailable"]
    <3>1. Phase' = [Phase EXCEPT ![c] = "unavailable"] /\ Phase[c] = "wanting"
      BY <1>0, <1>5, <2>2, PhaseMove DEF WaitDone, Phase, PhaseOf
    <3> QED BY <1>5, <3>1 DEF WaitDone, Phase, Service!Fail, Service!Advance
  <2> QED BY <1>5, <2>1, <2>2 DEF WaitDone
<1>6. ASSUME NEW c \in Calls, Hit(c) PROVE Service!Share(c)
  <2>1. Phase' = [Phase EXCEPT ![c] = "using"] /\ Phase[c] = "wanting"
    BY <1>0, <1>6, PhaseMove DEF Hit, Phase, PhaseOf
  <2> QED BY <1>6, <2>1 DEF Hit, Usable, Phase, Service!Share, Service!Give, Service!Advance
<1>7. ASSUME NEW c \in Calls, Join(c) \/ Lead(c) PROVE Service!Withdraw \/ Stutter
  <2>1. Phase' = Phase /\ token' = None /\ held' = held
    BY <1>0, <1>7, PhaseStays DEF Join, Lead, PhaseOf
  <2> QED BY <2>1 DEF Phase, Service!Withdraw
<1>8. ASSUME NEW c \in Calls, Stamp(c) \/ AcquireFails(c) PROVE Stutter
  <2>1. Phase' = Phase
    BY <1>0, <1>8, PhaseStays DEF Stamp, AcquireFails, PhaseOf
  <2> QED BY <1>8, <2>1 DEF Stamp, AcquireFails
<1>9. ASSUME NEW c \in Calls, NEW l \in Lifetimes, Grant(c, l) PROVE Stutter
  <2>1. Phase' = Phase
    BY <1>0, <1>9, PhaseStays DEF Grant, PhaseOf
  <2> QED BY <1>9, <2>1 DEF Grant
<1>10. ASSUME NEW c \in Calls, SettleOk(c) PROVE Service!Issue(c)
  <2>1. Phase' = [Phase EXCEPT ![c] = "using"] /\ Phase[c] = "wanting"
    BY <1>0, <1>10, PhaseMove DEF SettleOk, Phase, PhaseOf
  <2>2. token = None
    BY <1>0, <1>10, TokenCacheAssumption DEF SettleOk, FlightInv, SingleFlight
  <2> QED BY <1>10, <2>1, <2>2 DEF SettleOk, Phase, Service!Issue, Service!Give, Service!Advance
<1>11. ASSUME NEW c \in Calls, SettleErr(c) PROVE Service!Fail(c)
  <2>1. Phase' = [Phase EXCEPT ![c] = "unavailable"] /\ Phase[c] = "wanting"
    BY <1>0, <1>11, PhaseMove DEF SettleErr, Phase, PhaseOf
  <2> QED BY <1>11, <2>1 DEF SettleErr, Phase, Service!Fail, Service!Advance
<1>12. ASSUME NEW c \in Calls, NEW a \in Answers \ {"none"}, Answer(c, a)
       PROVE  \E to \in {"refused"} \cup Service!Finished : Service!Reply(c, to)
  <2>1. AfterAnswer(a) \in {"refused", "ok", "denied", "unavailable"}
    BY DEF AfterAnswer, Answers
  <2>2. /\ Phase' = [Phase EXCEPT ![c] = AfterAnswer(a)]
        /\ Phase[c] = "using"
    BY <1>0, <1>12, <2>1, PhaseMove DEF Answer, Phase, PhaseOf
  <2> QED BY <1>12, <2>1, <2>2 DEF Answer, Phase, Service!Finished, Service!Reply, Service!Advance
<1>13. ASSUME NEW c \in Calls, Invalidate(c) PROVE Service!Drop(c)
  <2>1. Phase' = [Phase EXCEPT ![c] = "unavailable"] /\ Phase[c] = "refused"
    BY <1>0, <1>13, PhaseMove DEF Invalidate, Phase, PhaseOf
  <2> QED BY <1>13, <2>1 DEF Invalidate, Phase, Service!Drop, Service!Advance
<1>14. CASE UNCHANGED vars
  <2>1. Stutter
    BY <1>14 DEF vars, Phase
  <2> QED BY <2>1, <1>a
<1> HIDE DEF Stutter
<1> QED
  BY <1>a, <1>1, <1>2, <1>3, <1>4, <1>5, <1>6, <1>7, <1>8, <1>9, <1>10, <1>11, <1>12, <1>13, <1>14
  DEF Next, Step, Service!SNext

(***************************************************************************)
(* The cache with its flights, its clock and its mutex is an implementation*)
(* of the atomic token service: concurrent lookups can rely on one current *)
(* token, shared by all and dropped only by those it failed.               *)
(***************************************************************************)
THEOREM Refinement == Spec => ImplementsService
<1>1. Init => Service!SInit
  BY ServiceInit
<1>2. Inv /\ [Next]_vars => [Service!SNext]_(Service!svars)
  BY ServiceStep
<1> QED
  BY <1>1, <1>2, Invariance, PTL DEF Spec, ImplementsService, Service!SSpec

-----------------------------------------------------------------------------
(***************************************************************************)
(* Progress.  Only its leader settles a flight and nothing reopens it; a   *)
(* call joins a flight that was registered, and starts over only after     *)
(* that flight has succeeded.                                              *)
(***************************************************************************)
JoinedInv ==
  \A c \in Calls :
    /\ joined[c] # None => joined[c] \in Calls /\ flight[joined[c]] # "none"
    /\ pc[c] = "idle" => joined[c] = None
    /\ pc[c] = "enter" /\ joined[c] # None => flight[joined[c]] = "ok"

\* An open flight stays open until it is settled, and then stays as it is.
LEMMA FlightFate ==
  TypeOK /\ FlightInv /\ [Next]_vars =>
    \A c \in Calls :
      /\ flight[c] = "open" => flight'[c] \in {"open"} \cup Settled
      /\ flight[c] \in Settled => flight'[c] = flight[c]
<1> SUFFICES ASSUME TypeOK, FlightInv, Next, NEW c \in Calls
             PROVE  /\ flight[c] = "open" => flight'[c] \in {"open"} \cup Settled
                    /\ flight[c] \in Settled => flight'[c] = flight[c]
  BY DEF vars, flightVars
<1> USE DEF TypeOK, FlightInv, SingleFlight, Leading, Over, Settled, flightVars, callVars, Move
<1>1. CASE Tick
  BY <1>1 DEF Tick
<1>2. ASSUME NEW d \in Calls, Begin(d) \/ Cancel(d)
      PROVE  flight' = flight
  BY <1>2 DEF Begin, Cancel
<1>3. ASSUME NEW d \in Calls, Step(d)
      PROVE  /\ flight[c] = "open" => flight'[c] \in {"open"} \cup Settled
             /\ flight[c] \in Settled => flight'[c] = flight[c]
  <2>1. CASE Lead(d)
    BY <2>1 DEF Lead
  <2>2. CASE SettleOk(d)
    BY <2>2 DEF SettleOk
  <2>3. CASE SettleErr(d)
    BY <2>3 DEF SettleErr
  <2>4. CASE ~(Lead(d) \/ SettleOk(d) \/ SettleErr(d))
    BY <1>3, <2>4
    DEF Step, GiveUp, Hit, Join, WaitDone, WaitCancelled, Stamp, AcquireFails, Grant, Answer, Invalidate
  <2> QED
    BY <2>1, <2>2, <2>3, <2>4
<1> QED
  BY <1>1, <1>2, <1>3 DEF Next

LEMMA JoinedStep == TypeOK /\ FlightInv /\ JoinedInv /\ [Next]_vars => JoinedInv'
<1> SUFFICES ASSUME TypeOK, FlightInv, JoinedInv, Next PROVE JoinedInv'
  BY DEF vars, flightVars, callVars, JoinedInv
<1>1. \A c \in Calls : /\ flight[c] # "none" => flight'[c] # "none"
                       /\ flight[c] = "ok" => flight'[c] = "ok"
  BY FlightFate DEF TypeOK, Settled
<1> USE DEF TypeOK, flightVars, callVars, Move
<1>2. ASSUME NEW d \in Calls, Join(d) PROVE JoinedInv'
  <2>1. \A c \in Calls \ {d} : joined'[c] = joined[c] /\ pc'[c] = pc[c]
    BY <1>2 DEF Join
  <2>2. joined'[d] = acquiring /\ acquiring # None /\ pc'[d] = "wait"
    BY <1>2 DEF Join
  <2> QED
    BY <1>1, <2>1, <2>2 DEF JoinedInv, FlightInv
<1>3. ASSUME NEW d \in Calls, Step(d), ~Join(d) PROVE JoinedInv'
  <2>1. joined' = joined /\ \A c \in Calls \ {d} : pc'[c] = pc[c]
    BY <1>3 DEF Step, GiveUp, Hit, Lead, WaitDone, WaitCancelled, Stamp, AcquireFails, SettleOk,
                SettleErr, Grant, Answer, Invalidate
  <2>2. pc'[d] # "idle" /\ (pc'[d] = "enter" => flight[joined[d]] = "ok")
    BY <1>3 DEF Step, GiveUp, Hit, Lead, WaitDone, WaitCancelled, Stamp, AcquireFails, SettleOk,
                SettleErr, Grant, Answer, Invalidate, AfterAnswer, Answers
  <2> QED
    BY <1>1, <2>1, <2>2 DEF JoinedInv, PCs, Leading, Over
<1>4. ASSUME NEW d \in Calls, Begin(d) \/ Cancel(d) PROVE JoinedInv'
  BY <1>1, <1>4 DEF Begin, Cancel, JoinedInv
<1>5. CASE Tick
  BY <1>5 DEF Tick, JoinedInv
<1> QED
  BY <1>2, <1>3, <1>4, <1>5 DEF Next

THEOREM JoinedInvariance == Spec => []JoinedInv
<1>1. Init => JoinedInv
  BY DEF Init, JoinedInv
<1>2. Inv /\ JoinedInv /\ [Next]_vars => JoinedInv'
  BY JoinedStep DEF Inv
<1> QED
  BY <1>1, <1>2, Invariance, PTL DEF Spec

(***************************************************************************)
(* No call joins the same flight twice: it joins one that is open, having  *)
(* come back only from one that had succeeded, and that one is final.      *)
(***************************************************************************)
JoinsNewFlights ==
  [][\A c \in Calls :
       /\ pc[c] = "enter" /\ pc'[c] = "wait" =>
            /\ flight[joined'[c]] = "open"
            /\ joined[c] # None => flight[joined[c]] = "ok"
       /\ flight[c] \in Settled => flight'[c] = flight[c]]_vars

THEOREM NoFlightTwice == Spec => JoinsNewFlights
<1>1. ASSUME TypeOK, FlightInv, JoinedInv, Next, NEW c \in Calls, pc[c] = "enter", pc'[c] = "wait"
      PROVE  flight[joined'[c]] = "open" /\ (joined[c] # None => flight[joined[c]] = "ok")
  <2> USE DEF TypeOK, flightVars, callVars, Move
  <2>1. Join(c)
    <3>1. ASSUME NEW d \in Calls, Step(d) PROVE Join(c)
      BY <1>1, <3>1 DEF Step, GiveUp, Hit, Join, Lead, WaitDone, WaitCancelled, Stamp, AcquireFails,
                        SettleOk, SettleErr, Grant, Answer, Invalidate, AfterAnswer, Answers
    <3> QED
      BY <1>1, <3>1 DEF Next, Begin, Cancel, Tick
  <2> QED
    BY <1>1, <2>1 DEF Join, JoinedInv, FlightInv
<1>2. Inv /\ JoinedInv /\ [Next]_vars =>
        [\A c \in Calls :
           /\ pc[c] = "enter" /\ pc'[c] = "wait" =>
                /\ flight[joined'[c]] = "open"
                /\ joined[c] # None => flight[joined[c]] = "ok"
           /\ flight[c] \in Settled => flight'[c] = flight[c]]_vars
  BY <1>1, FlightFate DEF Inv
<1> QED
  BY <1>2, Invariance, JoinedInvariance, PTL DEF Spec, JoinsNewFlights

(***************************************************************************)
(* A call moves on from every place but a wait by itself, and a leader has *)
(* settled its flight after at most four of them.                          *)
(***************************************************************************)
Onward == [
  enter   |-> Over \cup {"wait", "start", "lookup"},
  start   |-> {"acquire", "failed"},
  acquire |-> {"granted", "failed"},
  granted |-> Over \cup {"failed", "lookup"},
  failed  |-> Over,
  lookup  |-> Over \cup {"refused"},
  refused |-> Over]

MovesOn(c, x) == pc[c] = x ~> pc[c] \in Onward[x]

LEMMA CallMovesOn ==
  ASSUME NEW c \in Calls, NEW x \in {"enter", "lookup", "refused"} \cup Leading
  PROVE  Spec /\ CallRuns(c) /\ []NeverStuck => MovesOn(c, x)
<1> USE DEF Leading, Over
<1>1. TypeOK /\ pc[c] = x /\ Step(c) => pc'[c] \in Onward[x]
  BY DEF TypeOK, Step, GiveUp, Hit, Join, Lead, WaitDone, WaitCancelled, Stamp, AcquireFails, SettleOk,
         SettleErr, Grant, Answer, AfterAnswer, Answers, Invalidate, Move, Onward
<1>2. TypeOK /\ pc[c] = x /\ [Next]_vars => (pc[c] = x)' \/ (pc[c] \in Onward[x])'
  <2> SUFFICES ASSUME TypeOK, pc[c] = x, Next PROVE pc'[c] = x \/ pc'[c] \in Onward[x]
    BY DEF vars
  <2>1. ASSUME NEW d \in Calls, Step(d), d # c PROVE pc'[c] = x
    BY <2>1 DEF TypeOK, Step, GiveUp, Hit, Join, Lead, WaitDone, WaitCancelled, Stamp, AcquireFails,
                SettleOk, SettleErr, Grant, Answer, Invalidate, Move
  <2> QED
    BY <1>1, <2>1 DEF TypeOK, Next, Begin, Cancel, Tick, Move
<1>3. TypeOK /\ pc[c] = x /\ <<Step(c)>>_vars => (pc[c] \in Onward[x])'
  BY <1>1
<1>4. NeverStuck /\ pc[c] = x => ENABLED <<Step(c)>>_vars
  BY DEF NeverStuck, Runnable
<1> QED
  BY <1>2, <1>3, <1>4, TypeCorrect, PTL DEF Spec, CallRuns, MovesOn

\* Where a call can go, place by place.
Route(c) ==
  /\ pc[c] \in Leading => pc[c] = "start" \/ pc[c] = "acquire" \/ pc[c] = "granted" \/ pc[c] = "failed"
  /\ pc[c] \in Over \/ pc[c] = "lookup" => ~(pc[c] \in Leading)
  /\ pc[c] \in Onward["enter"] =>
       pc[c] \in Over \/ pc[c] = "wait" \/ pc[c] = "start" \/ pc[c] = "lookup"
  /\ pc[c] \in Onward["start"] => pc[c] = "acquire" \/ pc[c] = "failed"
  /\ pc[c] \in Onward["acquire"] => pc[c] = "granted" \/ pc[c] = "failed"
  /\ pc[c] \in Onward["granted"] => pc[c] \in Over \/ pc[c] = "failed" \/ pc[c] = "lookup"
  /\ pc[c] \in Onward["failed"] => pc[c] \in Over
  /\ pc[c] \in Onward["lookup"] => pc[c] \in Over \/ pc[c] = "refused"
  /\ pc[c] \in Onward["refused"] => pc[c] \in Over

LEMMA Places == ASSUME NEW c \in Calls PROVE Route(c)
  BY DEF Route, Onward, Over, Leading

AllMoveOn(c) ==
  /\ MovesOn(c, "enter") /\ MovesOn(c, "start") /\ MovesOn(c, "acquire")
  /\ MovesOn(c, "granted") /\ MovesOn(c, "failed") /\ MovesOn(c, "lookup")
  /\ MovesOn(c, "refused")

LEMMA CallMoves ==
  ASSUME NEW c \in Calls
  PROVE  Spec /\ CallRuns(c) /\ []NeverStuck => AllMoveOn(c)
<1>1. /\ "enter" \in {"enter", "lookup", "refused"} \cup Leading
      /\ "start" \in {"enter", "lookup", "refused"} \cup Leading
      /\ "acquire" \in {"enter", "lookup", "refused"} \cup Leading
      /\ "granted" \in {"enter", "lookup", "refused"} \cup Leading
      /\ "failed" \in {"enter", "lookup", "refused"} \cup Leading
      /\ "lookup" \in {"enter", "lookup", "refused"} \cup Leading
      /\ "refused" \in {"enter", "lookup", "refused"} \cup Leading
  BY DEF Leading
<1> QED
  BY <1>1, CallMovesOn, Zenon DEF AllMoveOn

\* Every flight that was registered is settled.
FlightSettles(c) == flight[c] = "open" ~> flight[c] \in Settled

LEMMA LeaderSettles ==
  ASSUME NEW c \in Calls
  PROVE  Spec /\ CallRuns(c) /\ []NeverStuck => FlightSettles(c)
<1>1. Inv => (flight[c] = "open" <=> pc[c] \in Leading)
  BY DEF Inv, FlightInv, SingleFlight
<1>2. Inv /\ flight[c] = "open" /\ [Next]_vars => (flight[c] = "open")' \/ (flight[c] \in Settled)'
  BY FlightFate DEF Inv
<1>3. Route(c)
  BY Places
<1>4. Spec /\ CallRuns(c) /\ []NeverStuck => AllMoveOn(c)
  BY CallMoves
<1> QED
  BY <1>1, <1>2, <1>3, <1>4, Invariance, PTL DEF Spec, Route, AllMoveOn, MovesOn, FlightSettles

(***************************************************************************)
(* Every wait ends: the flight a call waits for is settled, stays settled, *)
(* and the call is then woken, whatever else it is doing to the cache.     *)
(***************************************************************************)
WaitsFor(c, j) == pc[c] = "wait" /\ joined[c] = j
Woken(c) == pc[c] \in {"enter", "unavailable"}
WokenFrom(c, j) == [](WaitsFor(c, j) => <>Woken(c))
WaitEnds(c) == pc[c] = "wait" ~> Woken(c)

LEMMA WaitForEnds ==
  ASSUME NEW c \in Calls, NEW j \in Calls
  PROVE  Spec /\ CallRuns(c) /\ CallRuns(j) /\ []NeverStuck => WokenFrom(c, j)
<1>1. TypeOK /\ WaitsFor(c, j) /\ [Next]_vars => WaitsFor(c, j)' \/ Woken(c)'
  <2> SUFFICES ASSUME TypeOK, WaitsFor(c, j), Next PROVE WaitsFor(c, j)' \/ Woken(c)'
    BY DEF vars, callVars, WaitsFor
  <2> USE DEF TypeOK, WaitsFor, Woken, Over, flightVars, callVars, Move
  <2>1. ASSUME NEW d \in Calls, Step(d) PROVE WaitsFor(c, j)' \/ Woken(c)'
    BY <2>1 DEF Step, GiveUp, Hit, Join, Lead, WaitDone, WaitCancelled, Stamp, AcquireFails, SettleOk,
                SettleErr, Grant, Answer, Invalidate
  <2> QED
    BY <2>1 DEF Next, Begin, Cancel, Tick
<1>2. TypeOK /\ WaitsFor(c, j) /\ <<Step(c)>>_vars => Woken(c)'
  BY DEF TypeOK, WaitsFor, Woken, Over, Step, GiveUp, Hit, Join, Lead, WaitDone, WaitCancelled, Stamp,
         AcquireFails, SettleOk, SettleErr, Grant, Answer, Invalidate, Move
<1>3. NeverStuck /\ WaitsFor(c, j) /\ flight[j] \in Settled => ENABLED <<Step(c)>>_vars
  BY DEF NeverStuck, Runnable, WaitsFor
<1>4. Inv /\ JoinedInv /\ WaitsFor(c, j) => flight[j] = "open" \/ flight[j] \in Settled
  BY TokenCacheAssumption DEF Inv, TypeOK, JoinedInv, WaitsFor, Settled
<1>5. Inv /\ flight[j] \in Settled /\ [Next]_vars => (flight[j] \in Settled)'
  BY FlightFate DEF Inv
<1>6. Spec /\ CallRuns(j) /\ []NeverStuck => FlightSettles(j)
  BY LeaderSettles
<1> QED
  BY <1>1, <1>2, <1>3, <1>4, <1>5, <1>6, TypeCorrect, Invariance, JoinedInvariance, PTL
  DEF Spec, CallRuns, FlightSettles, WokenFrom

LEMMA WaitsEnd ==
  ASSUME NEW c \in Calls
  PROVE  FairSpec /\ []NeverStuck => WaitEnds(c)
<1> DEFINE Returns == <>Woken(c)
<1>1. FairSpec /\ []NeverStuck => \A j \in Calls : WokenFrom(c, j)
  <2>1. FairSpec => Spec /\ Scheduling
    BY PTL DEF FairSpec
  <2>2. Scheduling => \A j \in Calls : CallRuns(j)
    BY Zenon DEF Scheduling
  <2> QED
    BY <2>1, <2>2, WaitForEnds, Zenon
<1>2. (\A j \in Calls : WokenFrom(c, j)) => [](\A j \in Calls : WaitsFor(c, j) => <>Woken(c))
  BY DEF WokenFrom
<1>3. (\A j \in Calls : WaitsFor(c, j) => Returns) => ((\E j \in Calls : WaitsFor(c, j)) => Returns)
  <2> HIDE DEF Returns
  <2> QED BY Zenon
<1>4. Inv /\ JoinedInv /\ pc[c] = "wait" => \E j \in Calls : WaitsFor(c, j)
  BY DEF Inv, FlightInv, WaitsFor
<1> QED
  BY <1>1, <1>2, <1>3, <1>4, Invariance, JoinedInvariance, PTL DEF FairSpec, Spec, WaitEnds

(***************************************************************************)
(* A call that has entered returns if the scheduler is fair to each, none  *)
(* is stuck, and it joins only finitely many flights.                      *)
(***************************************************************************)
LEMMA CallReturnsInTheEnd ==
  ASSUME NEW c \in Calls
  PROVE  FairSpec /\ []NeverStuck /\ JoinsEndFor(c) => CallReturns(c)
<1>1. FairSpec => Spec /\ CallRuns(c)
  <2>1. FairSpec => Spec /\ Scheduling
    BY PTL DEF FairSpec
  <2>2. Scheduling => CallRuns(c)
    BY Zenon DEF Scheduling
  <2> QED
    BY <2>1, <2>2
<1>2. FairSpec /\ []NeverStuck => AllMoveOn(c)
  BY <1>1, CallMoves
<1>3. FairSpec /\ []NeverStuck => WaitEnds(c)
  BY WaitsEnd
<1>4. Route(c) /\ (Woken(c) => pc[c] = "enter" \/ pc[c] \in Over) /\ (Woken(c) => ~(pc[c] = "wait"))
      /\ (pc[c] \in Over \/ pc[c] = "lookup" \/ pc[c] = "start" => ~(pc[c] = "wait"))
  BY Places DEF Woken, Over
<1>5. TypeOK /\ ~(pc[c] = "wait") /\ [Next]_vars /\ [~Join(c)]_vars => ~(pc[c] = "wait")'
  <2> SUFFICES ASSUME TypeOK, pc[c] # "wait", Next, ~Join(c) \/ UNCHANGED vars PROVE pc'[c] # "wait"
    BY DEF vars
  <2> USE DEF TypeOK, Over, flightVars, callVars, Move
  <2>1. ASSUME NEW d \in Calls, Step(d) PROVE pc'[c] # "wait"
    BY <2>1 DEF vars, Step, GiveUp, Hit, Join, Lead, WaitDone, WaitCancelled, Stamp, AcquireFails, SettleOk,
                SettleErr, Grant, Answer, AfterAnswer, Answers, Invalidate
  <2> QED
    BY <2>1 DEF Next, Begin, Cancel, Tick
<1> QED
  BY <1>1, <1>2, <1>3, <1>4, <1>5, TypeCorrect, PTL
  DEF FairSpec, Spec, Route, AllMoveOn, MovesOn, WaitEnds, JoinsEndFor, CallReturns

(***************************************************************************)
(* Every lookup returns, if the scheduler is fair to each call, none is    *)
(* stuck, and none joins flights for ever, of which it joins none twice    *)
(* (NoFlightTwice): that no waiter is left behind is proved, and only that *)
(* a finite number of calls leads a finite number of flights is not.       *)
(***************************************************************************)
THEOREM EveryCallReturnsUnlessStuck == FairSpec /\ []NeverStuck /\ JoinsEnd => EveryCallReturns
<1>1. ASSUME NEW c \in Calls PROVE FairSpec /\ []NeverStuck /\ JoinsEnd => CallReturns(c)
  <2>1. JoinsEnd => JoinsEndFor(c)
    BY Zenon DEF JoinsEnd
  <2> QED
    BY <2>1, CallReturnsInTheEnd, Zenon
<1>2. FairSpec /\ []NeverStuck /\ JoinsEnd => \A c \in Calls : CallReturns(c)
  BY <1>1, Zenon
<1> QED
  BY <1>2, PTL DEF EveryCallReturns

(***************************************************************************)
(* Every wait ends, however many follow: no waiter is left behind by a     *)
(* flight that failed, was cancelled or was settled just as it joined.     *)
(***************************************************************************)
EveryWaitEnds == \A c \in Calls : WaitEnds(c)

THEOREM EveryWaitEndsUnlessStuck == FairSpec /\ []NeverStuck => EveryWaitEnds
<1>1. FairSpec /\ []NeverStuck => \A c \in Calls : WaitEnds(c)
  BY WaitsEnd, Zenon
<1> QED
  BY <1>1, PTL DEF EveryWaitEnds

=============================================================================
