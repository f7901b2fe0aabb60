--------------------------- MODULE MCVaultServices ---------------------------
(***************************************************************************)
(* The services of MCServices with onboarding, the usernames and the       *)
(* liquidity vault as more scenes, to check the safety of all in one run.  *)
(***************************************************************************)
EXTENDS MCVault, MCServices, Onboarding, Usernames

VSInit ==
    /\ MCInit /\ OnboardInit /\ UsernameInit /\ MCVaultInit
    /\ scene # "vault" => vault_scene = "shares"

VSNext ==
    \/ MCNext /\ UNCHANGED <<onboard_vars, username_vars, mc_vault_vars>>
    \/ Scene("onboarding", OnboardNext, <<services_vars, username_vars, mc_vault_vars>>)
    \/ Scene("usernames", UsernameNext, <<services_vars, onboard_vars, mc_vault_vars>>)
    \/ Scene("vault", MCVaultNext, <<services_vars, onboard_vars, username_vars>>)

VSSpec == VSInit /\ [][VSNext]_<<mc_vars, onboard_vars, username_vars, mc_vault_vars>>

=============================================================================
