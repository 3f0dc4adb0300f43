---------------------------- MODULE MCSignInLive ----------------------------
(***************************************************************************)
(* A sign-in and the Mailpit verifier that mails its codes, for TLC under  *)
(* fairness.  SignIn knows the verifier by its contract, OneTimeCode, so   *)
(* that the two modules share no state, and it is enough to look at each   *)
(* while the other is at rest: whichever moves first.                      *)
(***************************************************************************)
EXTENDS SignIn

CONSTANTS Sends, Keys, Codes, MaxPending, MaxAttempts, TTL, MailTime

VARIABLES mailNow, pending, inFlight, pc, key, code, expires, attempts, cancelled, inbox, accepted

Mail == INSTANCE Mailpit WITH now <- mailNow, MaxTime <- MailTime

mailVars == <<mailNow, pending, inFlight, pc, key, code, expires, attempts, cancelled, inbox, accepted>>

MailRests == Mail!Init /\ UNCHANGED mailVars
SignInRests == Init /\ UNCHANGED vars

LiveNext == (Next /\ MailRests) \/ (Mail!Next /\ SignInRests)

\* The fairness of the two modules, of the one that is not at rest.
LiveScheduling ==
  /\ \A f \in Flows : WF_vars(Task(f) /\ MailRests)
  /\ \A s \in Sends : WF_mailVars(Mail!Step(s) /\ SignInRests)

LiveSpec == Init /\ Mail!Init /\ [][LiveNext]_<<vars, mailVars>> /\ LiveScheduling

\* Every SendOTP returns and has given its slot back (module Mailpit).
SlotsComeBack == Mail!SlotsComeBack
=============================================================================
