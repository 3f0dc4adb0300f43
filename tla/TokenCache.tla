----------------------------- MODULE TokenCache -----------------------------
(***************************************************************************)
(* The access-token cache of the BREG identity provider and the lookups    *)
(* that use it: Provider.accessToken, Provider.acquire, Provider.lookup    *)
(* and Provider.invalidate of provider/http.go.                            *)
(*                                                                         *)
(* Each element of Calls is one invocation of lookup.  A call takes a      *)
(* token from the cache, or leads a flight that acquires one, or waits for *)
(* the flight of another call; it then sends one registry request, and     *)
(* invalidates the token it used when the registry refused it.  A critical *)
(* section under p.mu is one step.  A flight is named after the call that  *)
(* leads it, and so is the token that flight obtained: the token endpoint  *)
(* grants a distinct token each time.                                      *)
(***************************************************************************)
EXTENDS Integers

CONSTANTS
  Calls,      \* the invocations of lookup
  None,       \* the nil token, the nil *tokenFlight
  Lifetimes,  \* the values of expires_in the token endpoint may answer
  CacheMax,   \* token_client.token_cache_max_seconds
  MaxTime     \* bound: the clock stops here

ASSUME TokenCacheAssumption ==
  /\ None \notin Calls
  /\ Lifetimes \subseteq Nat \ {0}
  /\ CacheMax \in Nat \ {0}
  /\ MaxTime \in Nat

VARIABLES
  now,        \* p.now(), which never runs backwards (monotonic reading)
  token,      \* p.token
  deadline,   \* p.tokenDeadline
  acquiring,  \* p.acquiring
  flight,     \* per flight: not registered, open, done without or with err
  pc,         \* where each call is
  joined,     \* the flight a waiting call captured before it released p.mu
  start,      \* p.now() when the leader began to acquire
  issued,     \* when the token endpoint granted the flight's token
  lifetime,   \* the expires_in of that grant
  held,       \* the token the call carries in its registry request
  answer,     \* what the registry answered the call
  cancelled   \* the calls whose context is done

flightVars == <<token, deadline, acquiring, flight>>
callVars == <<joined, start, issued, lifetime, held, answer>>
vars == <<now, flightVars, pc, callVars, cancelled>>

(***************************************************************************)
(* A call is over once lookup has returned; it leads from the moment it    *)
(* registers its flight until it settles it.                               *)
(***************************************************************************)
Over == {"ok", "denied", "unavailable"}
Leading == {"start", "acquire", "granted", "failed"}
PCs == {"idle", "enter", "wait", "lookup", "refused"} \cup Leading \cup Over
Answers == {"none", "ok", "denied", "refused", "error"}

MinOf(a, b) == IF a < b THEN a ELSE b

\* Mutant: the validity of a token counted from its arrival.
DeadlineFromArrival(c) == now + MinOf(lifetime[c], CacheMax)

\* The deadline that start.Add(lifetime) gives a token, capped by the configuration.
Deadline(c) == start[c] + MinOf(lifetime[c], CacheMax)

\* When the token endpoint itself considers the token of c to have expired.
Expiry(c) == issued[c] + lifetime[c]

\* The fast path of accessToken.
Usable == token # None /\ now < deadline

-----------------------------------------------------------------------------
Init ==
  /\ now = 0
  /\ token = None
  /\ deadline = 0
  /\ acquiring = None
  /\ flight = [c \in Calls |-> "none"]
  /\ pc = [c \in Calls |-> "idle"]
  /\ joined = [c \in Calls |-> None]
  /\ start = [c \in Calls |-> 0]
  /\ issued = [c \in Calls |-> 0]
  /\ lifetime = [c \in Calls |-> 0]
  /\ held = [c \in Calls |-> None]
  /\ answer = [c \in Calls |-> "none"]
  /\ cancelled = {}

Move(c, from, to) ==
  /\ pc[c] = from
  /\ pc' = [pc EXCEPT ![c] = to]

(***************************************************************************)
(* The environment: a request arrives, its context is cancelled, time      *)
(* passes.                                                                 *)
(***************************************************************************)
Begin(c) ==
  /\ Move(c, "idle", "enter")
  /\ UNCHANGED <<now, flightVars, callVars, cancelled>>

Cancel(c) ==
  /\ pc[c] \notin Over \cup {"idle"}
  /\ c \notin cancelled
  /\ cancelled' = cancelled \cup {c}
  /\ UNCHANGED <<now, flightVars, pc, callVars>>

Tick ==
  /\ now < MaxTime
  /\ now' = now + 1
  /\ UNCHANGED <<flightVars, pc, callVars, cancelled>>

(***************************************************************************)
(* accessToken, one turn of its loop: give up when the context is done,    *)
(* otherwise decide under p.mu.  A miss always clears the stale token.     *)
(***************************************************************************)
GiveUp(c) ==
  /\ c \in cancelled
  /\ Move(c, "enter", "unavailable")
  /\ UNCHANGED <<now, flightVars, callVars, cancelled>>

Hit(c) ==
  /\ c \notin cancelled
  /\ Usable
  /\ Move(c, "enter", "lookup")
  /\ held' = [held EXCEPT ![c] = token]
  /\ UNCHANGED <<now, flightVars, joined, start, issued, lifetime, answer, cancelled>>

Join(c) ==
  /\ c \notin cancelled
  /\ ~Usable
  /\ acquiring # None
  /\ Move(c, "enter", "wait")
  /\ token' = None
  /\ joined' = [joined EXCEPT ![c] = acquiring]
  /\ UNCHANGED <<now, deadline, acquiring, flight, start, issued, lifetime, held, answer, cancelled>>

\* Mutant: a call leads although a flight is registered.
LeadRegardless(c) ==
  /\ c \notin cancelled
  /\ ~Usable
  /\ Move(c, "enter", "start")
  /\ token' = None
  /\ acquiring' = c
  /\ flight' = [flight EXCEPT ![c] = "open"]
  /\ UNCHANGED <<now, deadline, callVars, cancelled>>

\* Mutant: the stale token stays in place while a new one is acquired.
LeadKeepsToken(c) ==
  /\ c \notin cancelled
  /\ ~Usable
  /\ acquiring = None
  /\ Move(c, "enter", "start")
  /\ acquiring' = c
  /\ flight' = [flight EXCEPT ![c] = "open"]
  /\ UNCHANGED <<now, token, deadline, callVars, cancelled>>

Lead(c) ==
  /\ c \notin cancelled
  /\ ~Usable
  /\ acquiring = None
  /\ Move(c, "enter", "start")
  /\ token' = None
  /\ acquiring' = c
  /\ flight' = [flight EXCEPT ![c] = "open"]
  /\ UNCHANGED <<now, deadline, callVars, cancelled>>

\* Mutant: a waiter whose flight succeeded does not start over.
WaitDoneOnce(c) ==
  /\ pc[c] = "wait"
  /\ flight[joined[c]] \in {"ok", "failed"}
  /\ Move(c, "wait", IF flight[joined[c]] = "ok" /\ Usable THEN "enter" ELSE "unavailable")
  /\ UNCHANGED <<now, flightVars, callVars, cancelled>>

(***************************************************************************)
(* The select of a waiter: the flight it captured is done, or its own      *)
(* context is.  A waiter whose flight succeeded starts over.               *)
(***************************************************************************)
WaitDone(c) ==
  /\ pc[c] = "wait"
  /\ \/ /\ flight[joined[c]] = "ok"
        /\ Move(c, "wait", "enter")
     \/ /\ flight[joined[c]] = "failed"
        /\ Move(c, "wait", "unavailable")
  /\ UNCHANGED <<now, flightVars, callVars, cancelled>>

WaitCancelled(c) ==
  /\ c \in cancelled
  /\ Move(c, "wait", "unavailable")
  /\ UNCHANGED <<now, flightVars, callVars, cancelled>>

(***************************************************************************)
(* acquire, outside p.mu: the leader reads the clock and sends the         *)
(* request; the endpoint grants a token; the answer is lost, late, refused *)
(* or malformed, or it arrives.                                            *)
(***************************************************************************)
Stamp(c) ==
  /\ Move(c, "start", IF c \in cancelled THEN "failed" ELSE "acquire")
  /\ start' = [start EXCEPT ![c] = now]
  /\ UNCHANGED <<now, flightVars, joined, issued, lifetime, held, answer, cancelled>>

Grant(c, l) ==
  /\ c \notin cancelled
  /\ Move(c, "acquire", "granted")
  /\ issued' = [issued EXCEPT ![c] = now]
  /\ lifetime' = [lifetime EXCEPT ![c] = l]
  /\ UNCHANGED <<now, flightVars, joined, start, held, answer, cancelled>>

AcquireFails(c) ==
  /\ pc[c] \in {"acquire", "granted"}
  /\ pc' = [pc EXCEPT ![c] = "failed"]
  /\ UNCHANGED <<now, flightVars, callVars, cancelled>>

\* Mutant: a token spent in transit is cached and returned.
SettleSpent(c) ==
  /\ Move(c, "granted", "lookup")
  /\ token' = c
  /\ deadline' = Deadline(c)
  /\ flight' = [flight EXCEPT ![c] = "ok"]
  /\ acquiring' = None
  /\ held' = [held EXCEPT ![c] = c]
  /\ UNCHANGED <<now, joined, start, issued, lifetime, answer, cancelled>>

\* Mutant: a failed flight is unregistered but its channel is never closed.
SettleErrSilently(c) ==
  /\ pc[c] = "failed" \/ (pc[c] = "granted" /\ now >= Deadline(c))
  /\ pc' = [pc EXCEPT ![c] = "unavailable"]
  /\ acquiring' = None
  /\ UNCHANGED <<now, token, deadline, flight, callVars, cancelled>>

\* Mutant: a failed flight stays registered, and the calls to come join it.
SettleErrRegistered(c) ==
  /\ pc[c] = "failed" \/ (pc[c] = "granted" /\ now >= Deadline(c))
  /\ pc' = [pc EXCEPT ![c] = "unavailable"]
  /\ flight' = [flight EXCEPT ![c] = "failed"]
  /\ UNCHANGED <<now, token, deadline, acquiring, callVars, cancelled>>

(***************************************************************************)
(* Back under p.mu: cache the token unless it was spent in transit, record *)
(* the outcome in the flight, unregister it and wake the waiters.          *)
(***************************************************************************)
SettleOk(c) ==
  /\ now < Deadline(c)
  /\ Move(c, "granted", "lookup")
  /\ token' = c
  /\ deadline' = Deadline(c)
  /\ flight' = [flight EXCEPT ![c] = "ok"]
  /\ acquiring' = None
  /\ held' = [held EXCEPT ![c] = c]
  /\ UNCHANGED <<now, joined, start, issued, lifetime, answer, cancelled>>

SettleErr(c) ==
  /\ pc[c] = "failed" \/ (pc[c] = "granted" /\ now >= Deadline(c))
  /\ pc' = [pc EXCEPT ![c] = "unavailable"]
  /\ flight' = [flight EXCEPT ![c] = "failed"]
  /\ acquiring' = None
  /\ UNCHANGED <<now, token, deadline, callVars, cancelled>>

(***************************************************************************)
(* The registry request, and the classification of its answer.  A call     *)
(* whose context is done sees an error.                                    *)
(***************************************************************************)
AfterAnswer(a) ==
  CASE a = "error" -> "unavailable" [] OTHER -> a

Answer(c, a) ==
  /\ c \in cancelled => a = "error"
  /\ Move(c, "lookup", AfterAnswer(a))
  /\ answer' = [answer EXCEPT ![c] = a]
  /\ UNCHANGED <<now, flightVars, joined, start, issued, lifetime, held, cancelled>>

\* Mutant: whatever token is cached is thrown away.
InvalidateAny(c) ==
  /\ Move(c, "refused", "unavailable")
  /\ token' = None
  /\ deadline' = 0
  /\ UNCHANGED <<now, acquiring, flight, callVars, cancelled>>

\* Mutant: the refused token stays cached.
InvalidateNothing(c) ==
  /\ Move(c, "refused", "unavailable")
  /\ UNCHANGED <<now, flightVars, callVars, cancelled>>

Invalidate(c) ==
  /\ Move(c, "refused", "unavailable")
  /\ IF token = held[c]
       THEN token' = None /\ deadline' = 0
       ELSE UNCHANGED <<token, deadline>>
  /\ UNCHANGED <<now, acquiring, flight, callVars, cancelled>>

-----------------------------------------------------------------------------
\* The steps that a call takes once it has been scheduled.
Step(c) ==
  \/ GiveUp(c) \/ Hit(c) \/ Join(c) \/ Lead(c)
  \/ WaitDone(c) \/ WaitCancelled(c)
  \/ Stamp(c) \/ AcquireFails(c) \/ SettleOk(c) \/ SettleErr(c)
  \/ \E l \in Lifetimes : Grant(c, l)
  \/ \E a \in Answers \ {"none"} : Answer(c, a)
  \/ Invalidate(c)

Next ==
  \/ \E c \in Calls : Begin(c) \/ Cancel(c) \/ Step(c)
  \/ Tick

Spec == Init /\ [][Next]_vars

(***************************************************************************)
(* Fairness.  A started goroutine keeps running, p.mu is starvation-free,  *)
(* and http.Client.Timeout ends every exchange, by an answer or an error.  *)
(* Nothing is assumed of the arrival or the cancellation of requests, nor  *)
(* of the clock.                                                           *)
(***************************************************************************)
CallRuns(c) == WF_vars(Step(c))
Scheduling == \A c \in Calls : CallRuns(c)
FairSpec == Spec /\ Scheduling

-----------------------------------------------------------------------------
(***************************************************************************)
(* Types of the provider's fields, of the calls' locals and of the         *)
(* environment's records (provider/provider.go, type Provider).            *)
(***************************************************************************)
TypeOK ==
  /\ now \in Nat
  /\ token \in Calls \cup {None}
  /\ deadline \in Nat
  /\ acquiring \in Calls \cup {None}
  /\ flight \in [Calls -> {"none", "open", "ok", "failed"}]
  /\ pc \in [Calls -> PCs]
  /\ joined \in [Calls -> Calls \cup {None}]
  /\ start \in [Calls -> Nat]
  /\ issued \in [Calls -> Nat]
  /\ lifetime \in [Calls -> Nat]
  /\ held \in [Calls -> Calls \cup {None}]
  /\ answer \in [Calls -> Answers]
  /\ cancelled \subseteq Calls

(***************************************************************************)
(* "Cache misses are synchronized": at most one call is ever talking to    *)
(* the token endpoint, it is the one registered in p.acquiring, and no     *)
(* token is cached meanwhile.                                              *)
(***************************************************************************)
SingleFlight ==
  /\ \A c \in Calls : pc[c] \in Leading <=> acquiring = c
  /\ acquiring # None => token = None

(***************************************************************************)
(* "Validity includes acquisition time": the cache never keeps a token     *)
(* past the moment at which the issuer lets it expire, however long the    *)
(* request took, and never longer than the configured maximum after the    *)
(* acquisition began.                                                      *)
(***************************************************************************)
CacheWithinGrant ==
  token # None => deadline <= Expiry(token) /\ deadline <= start[token] + CacheMax

(***************************************************************************)
(* "Authentication rejection invalidates the cache for the next            *)
(* operation": once a lookup has reported a refused token, that token is   *)
(* never cached again, whatever the other calls were doing meanwhile.      *)
(***************************************************************************)
RefusedTokenStaysOut ==
  \A c \in Calls : answer[c] = "refused" /\ pc[c] \in Over => token # held[c]

(***************************************************************************)
(* The coalescing is not lossy: of all the tokens ever cached, those that  *)
(* are neither cached now nor past their deadline were refused by the      *)
(* registry.  So the provider never asks for a second token while it has   *)
(* a good one, and an invalidation never throws away the token of another  *)
(* flight.                                                                 *)
(***************************************************************************)
NoRedundantToken ==
  \A t \in Calls :
    flight[t] = "ok" /\ t # token /\ now < Deadline(t)
      => \E c \in Calls : held[c] = t /\ answer[c] = "refused"

(***************************************************************************)
(* "A failed acquisition is never cached": a call waits only for a flight  *)
(* that was still open when it joined, and it fails only because its       *)
(* context is done, because the registry answered it that way, because the *)
(* flight it led failed, or because the one it waits for did.  So no call  *)
(* is failed by a flight that was over before the call asked for a token.  *)
(***************************************************************************)
FailureHasCause ==
  [][\A c \in Calls :
       /\ pc[c] # "wait" /\ pc'[c] = "wait" => flight[joined'[c]] = "open"
       /\ pc[c] # "unavailable" /\ pc'[c] = "unavailable" =>
            \/ c \in cancelled
            \/ answer'[c] \in {"refused", "error"}
            \/ flight'[c] = "failed"
            \/ pc[c] = "wait" /\ flight[joined[c]] = "failed"]_vars

(***************************************************************************)
(* A call is handed a token only while the issuer still honours it, by the *)
(* fast path as well as at the end of a slow acquisition.                  *)
(***************************************************************************)
HandedTokenUnexpired ==
  [][\A c \in Calls : held'[c] # held[c] => now < Expiry(held'[c])]_vars

(***************************************************************************)
(* Every lookup returns: no waiter is left behind by a flight that failed, *)
(* was cancelled or was settled just as it joined (close(flight.done)).    *)
(***************************************************************************)
CallReturns(c) == pc[c] = "enter" ~> pc[c] \in Over
EveryCallReturns == \A c \in Calls : CallReturns(c)

(***************************************************************************)
(* What fairness needs to get a call to its end: it can take a step unless *)
(* it waits for a flight that is open.  And what it does not give: a call  *)
(* whose flight succeeded starts over and may have to join another one,    *)
(* which it does only so often as there are flights.                       *)
(***************************************************************************)
Settled == {"ok", "failed"}
Runnable(c) ==
  IF pc[c] = "wait" THEN flight[joined[c]] \in Settled ELSE pc[c] \notin Over \cup {"idle"}
NeverStuck == \A c \in Calls : Runnable(c) => ENABLED <<Step(c)>>_vars
JoinsEndFor(c) == <>[][~Join(c)]_vars
JoinsEnd == \A c \in Calls : JoinsEndFor(c)

(***************************************************************************)
(* The cache implements TokenService: a call that enters, waits or leads   *)
(* wants a token; settling a flight with success issues one, which is      *)
(* sound only because nothing was cached while the flight was open; a miss *)
(* withdraws a token whose deadline has passed.                            *)
(***************************************************************************)
PhaseOf(p) ==
  CASE p = "lookup" -> "using"
    [] p \in {"idle", "refused"} \cup Over -> p
    [] OTHER -> "wanting"

Service == INSTANCE TokenService WITH
  current <- token,
  phase <- [c \in Calls |-> PhaseOf(pc[c])]

ImplementsService == Service!SSpec

=============================================================================
