------------------------------ MODULE MCVault ------------------------------
(***************************************************************************)
(* Three small instances of Vault for TLC, in one run: a behaviour is      *)
(* about the providers' shares, the firm's capital or the advertised rate, *)
(* from its start.                                                         *)
(* Caps are never revoked: a revocation only disables steps.               *)
(***************************************************************************)
EXTENDS Vault, TLC

CONSTANTS p1, p2    \* model values: two provider caps

Providers == Permutations({p1, p2})

VARIABLE vault_scene

mc_vault_vars == <<vars, vault_scene>>

MCVaultInit == Init /\ vault_scene \in {"shares", "capital", "rates"}

\* Providers come and go while trades gain and lose and revenue comes in.
SharesStep == VaultStep /\ UNCHANGED <<lending_vars, config_vars, apy_vars>>

\* One provider deposits once and may redeem one unit, and the firm trades, lends
\* and retunes the vault.
CapitalStep ==
    /\ VaultStep
    /\ UNCHANGED apy_vars
    /\ provider_count' <= 1
    /\ total["deposited"] # 0 => total'["deposited"] = total["deposited"]
    /\ total'["withdrawn"] <= 1 /\ total'["yield"] <= 1

\* The advertised rate, which nothing else depends on.
RatesStep == VaultStep /\ UNCHANGED <<funds, deployed, lending_vars, config_vars>>

MCVaultNext ==
    /\ \/ vault_scene = "shares" /\ SharesStep
       \/ vault_scene = "capital" /\ CapitalStep
       \/ vault_scene = "rates" /\ RatesStep
    /\ UNCHANGED vault_scene

MCVaultSpec == MCVaultInit /\ [][MCVaultNext]_mc_vault_vars

=============================================================================
