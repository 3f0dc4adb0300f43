---------------------------- MODULE OneTimeCode ----------------------------
(***************************************************************************)
(* What a verifier of one-time codes promises to the identity provider,    *)
(* with neither clock nor mail nor table.  Under a key at most one         *)
(* challenge may be answered, the one offered last.  An answer that is     *)
(* accepted uses the challenge up.  A challenge may be withdrawn at any    *)
(* moment - expired, guessed at too often, lost in a restart, overtaken -  *)
(* and what was used or withdrawn is never offered again.  Mailpit         *)
(* implements this specification; IdentityProvider is composed with it and *)
(* knows its verifier by nothing else.                                     *)
(***************************************************************************)

CONSTANTS Challenges, Keys, None

VARIABLES
  fresh,    \* the challenges that were not offered yet
  current,  \* per key, the challenge that may be answered
  used      \* the challenges that were accepted

cvars == <<fresh, current, used>>

CInit ==
  /\ fresh = Challenges
  /\ current = [k \in Keys |-> None]
  /\ used = {}

Offer(c, k) ==
  /\ c \in fresh
  /\ fresh' = fresh \ {c}
  /\ current' = [current EXCEPT ![k] = c]
  /\ UNCHANGED used

Use(k) ==
  /\ current[k] # None
  /\ used' = used \cup {current[k]}
  /\ current' = [current EXCEPT ![k] = None]
  /\ UNCHANGED fresh

Withdraw(K, C) ==
  /\ fresh' = fresh \ C
  /\ current' = [k \in Keys |-> IF k \in K THEN None ELSE current[k]]
  /\ UNCHANGED used

CNext ==
  \/ \E c \in Challenges, k \in Keys : Offer(c, k)
  \/ \E k \in Keys : Use(k)
  \/ \E K \in SUBSET Keys, C \in SUBSET fresh : Withdraw(K, C)

CSpec == CInit /\ [][CNext]_cvars

=============================================================================
