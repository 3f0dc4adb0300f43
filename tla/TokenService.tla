---------------------------- MODULE TokenService ----------------------------
(***************************************************************************)
(* What Provider.lookup promises about access tokens, with neither clock   *)
(* nor flights nor mutex: there is at most one current token, a call       *)
(* either shares it or, when there is none, brings a new one that becomes  *)
(* current at once; a current token may be withdrawn (it has expired), and *)
(* otherwise only a call that the registry refused may drop it, and only   *)
(* the very token it used.  TokenCache implements this specification.      *)
(***************************************************************************)

CONSTANTS
  Calls,  \* the invocations of lookup; a token is named after its issuer
  None    \* no token

VARIABLES
  current,  \* the token offered to the calls
  phase,    \* where each call is
  held      \* the token each call was given

svars == <<current, phase, held>>

Finished == {"ok", "denied", "unavailable"}
Phases == {"idle", "wanting", "using", "refused"} \cup Finished

SInit ==
  /\ current = None
  /\ phase = [c \in Calls |-> "idle"]
  /\ held = [c \in Calls |-> None]

Advance(c, from, to) ==
  /\ phase[c] = from
  /\ phase' = [phase EXCEPT ![c] = to]

Ask(c) ==
  /\ Advance(c, "idle", "wanting")
  /\ UNCHANGED <<current, held>>

Give(c, t) ==
  /\ Advance(c, "wanting", "using")
  /\ held' = [held EXCEPT ![c] = t]
  /\ current' = t

Share(c) ==
  /\ current # None
  /\ Give(c, current)

Issue(c) ==
  /\ current = None
  /\ Give(c, c)

Fail(c) ==
  /\ Advance(c, "wanting", "unavailable")
  /\ UNCHANGED <<current, held>>

Withdraw ==
  /\ current # None
  /\ current' = None
  /\ UNCHANGED <<phase, held>>

Reply(c, to) ==
  /\ Advance(c, "using", to)
  /\ UNCHANGED <<current, held>>

Drop(c) ==
  /\ Advance(c, "refused", "unavailable")
  /\ current' = IF current = held[c] THEN None ELSE current
  /\ UNCHANGED held

SNext ==
  \/ \E c \in Calls :
       \/ Ask(c) \/ Share(c) \/ Issue(c) \/ Fail(c) \/ Drop(c)
       \/ \E to \in {"refused"} \cup Finished : Reply(c, to)
  \/ Withdraw

SSpec == SInit /\ [][SNext]_svars

=============================================================================
