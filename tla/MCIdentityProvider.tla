------------------------- MODULE MCIdentityProvider -------------------------
(* IdentityProvider for TLC: a subject claim, a provisioned field that two  *)
(* claims share, a field that is not provisioned and an unmapped claim.      *)
EXTENDS IdentityProvider, TLC

MCClaimMap ==
  "sub" :> "$psut" @@ "name" :> "full_name" @@ "alias" :> "full_name" @@ "phone" :> "number"
    @@ "birth" :> "born"
MCProvisioned == {"full_name", "born"}
MCApprovals == {{}, {"sub", "ghost"}, {"phone"}, {"sub", "name", "phone"}, {"name", "alias"}}

Symmetry == Permutations(Logins) \cup Permutations(Otps) \cup Permutations(Bindings)
              \cup Permutations(Reads)
=============================================================================
