-------------------------- MODULE ConsentedRelease --------------------------
(***************************************************************************)
(* What a sign-in promises to the person: claims reach the client only     *)
(* after the person has proved who they are and has then, in this very     *)
(* sign-in, decided which claims to share; no other claim is released;     *)
(* after a refusal, and at any other moment, the sign-in may only stop.    *)
(* SignIn implements this specification.                                   *)
(***************************************************************************)

CONSTANTS
  Flows,      \* sign-ins
  Essential,  \* the claims without which the client does not want the person
  Requested,  \* all the claims that the client asks for
  None

VARIABLES
  stage,     \* per sign-in: open, known, decided, released or stopped
  decision,  \* the claims that the person agreed to share
  given      \* the claims that the client received

rvars == <<stage, decision, given>>

RInit ==
  /\ stage = [f \in Flows |-> "open"]
  /\ decision = [f \in Flows |-> None]
  /\ given = [f \in Flows |-> {}]

Reach(f, from, to) ==
  /\ stage[f] = from
  /\ stage' = [stage EXCEPT ![f] = to]

Prove(f) ==
  /\ Reach(f, "open", "known")
  /\ UNCHANGED <<decision, given>>

Decide(f, A) ==
  /\ Reach(f, "known", "decided")
  /\ decision' = [decision EXCEPT ![f] = A]
  /\ UNCHANGED given

Release(f, A) ==
  /\ Reach(f, "decided", "released")
  /\ A \subseteq decision[f]
  /\ A # {} => Essential \subseteq decision[f]
  /\ given' = [given EXCEPT ![f] = A]
  /\ UNCHANGED decision

Stop(f) ==
  /\ stage[f] \notin {"released", "stopped"}
  /\ stage' = [stage EXCEPT ![f] = "stopped"]
  /\ UNCHANGED <<decision, given>>

RNext ==
  \E f \in Flows :
    \/ Prove(f) \/ Stop(f)
    \/ \E A \in SUBSET Requested : Decide(f, A) \/ Release(f, A)

RSpec == RInit /\ [][RNext]_rvars

=============================================================================
