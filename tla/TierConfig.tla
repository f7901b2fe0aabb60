---------------------------- MODULE TierConfig ----------------------------
(***************************************************************************)
(* The published tier economics (constraints.move, module tier_config):    *)
(* one row of parameters per tier, seeded at publish and replaced by       *)
(* set_tier_row, which an admin may call at any time.  Rows are never      *)
(* removed, so row(t) is defined for every tier.                           *)
(*                                                                         *)
(* trading_fee_bps is left out: it is validated and copied exactly like    *)
(* user_split_bps, and nothing on chain reads either.                      *)
(***************************************************************************)
EXTENDS Naturals, AccessControl

CONSTANTS
    Tiers,       \* the Tier enum
    SeedRows,    \* the rows init publishes
    RowInputs,   \* rows an admin may submit, valid or not
    U64_MAX      \* the largest u64: an addition beyond it aborts the call

BPS_DENOM == 10000

U64 == 0 .. U64_MAX

TierRow == [eval_fee : U64, funded_size : U64, profit_target_bps : Nat,
            max_dd_bps : Nat, daily_loss_bps : Nat, user_split_bps : Nat,
            scales : BOOLEAN, next_tier : Tiers]

\* What set_tier_row requires of a row.
ValidRow(r) ==
    /\ r.profit_target_bps \in 1 .. BPS_DENOM
    /\ r.max_dd_bps \in 1 .. BPS_DENOM
    /\ r.daily_loss_bps \in 1 .. r.max_dd_bps
    /\ r.user_split_bps \in 0 .. BPS_DENOM
    /\ r.funded_size > 0

ASSUME TierAssumption ==
    /\ U64_MAX \in Nat
    /\ SeedRows \in [Tiers -> TierRow]
    /\ \A t \in Tiers : ValidRow(SeedRows[t])
    /\ RowInputs \subseteq TierRow

VARIABLE rows    \* TierConfig.rows

RowsOK ==
    /\ rows \in [Tiers -> TierRow]
    /\ \A t \in Tiers : ValidRow(rows[t])

TierInit == rows = SeedRows

row(t) == rows[t]

set_tier_row(cap, t, r) ==
    /\ assert_admin(cap)
    /\ ValidRow(r)
    /\ rows' = [rows EXCEPT ![t] = r]

\* floor(a * b / d): the product is taken in u128, so only the quotient can
\* exceed u64, and it does not while b <= d.
mul_div_down(a, b, d) == (a * b) \div d

=============================================================================
