------------------------------- MODULE Vault -------------------------------
(***************************************************************************)
(* The liquidity vault (vault.move, module vault_reserve): providers buy   *)
(* and redeem shares of a USDC pool whose capital the firm's executor      *)
(* deploys to trading and lends to venues.                                 *)
(*                                                                         *)
(* A Move call that aborts changes nothing: every assert! and every        *)
(* checked operation, those of the getters that fill an event included, is *)
(* a guard.  The state before create_vault is left out.  So are inputs     *)
(* that can only make a call abort (the slippage bounds, a maturity in the *)
(* past, an APY over its ceiling) and what is only recorded (times, the    *)
(* protocol and expected APY of a position).                               *)
(***************************************************************************)
EXTENDS Integers, FiniteSets, FiniteSetsExt, AccessControl

CONSTANTS
    ProviderCapIds,    \* ids a ProviderCap may have while it exists
    Venues,
    Amounts,           \* amounts of a payment, a withdrawal, a draw or a return
    ApyInputs,         \* rates set_apy may be given
    BufferInputs,      \* buffers set_buffer_bps may be given
    CeilingInputs,     \* ceilings set_max_withdrawal may be given
    InitialBuffer,     \* what create_vault was given
    InitialCeiling,
    U64_MAX,
    MINIMUM_LIQUIDITY,
    YIELD_PRECISION,   \* scale of the yield accumulator
    PRICE_SCALE,       \* scale of the share price an event carries
    MaxLendings,       \* bound: lending positions ever drawn
    MaxApySeq          \* bound: APY snapshots ever recorded

BPS == 10000

U64 == 0 .. U64_MAX

ASSUME VaultAssumption ==
    /\ IsFiniteSet(ProviderCapIds)
    /\ U64_MAX \in Nat
    /\ Amounts \subseteq U64
    /\ BufferInputs \cup {InitialBuffer} \subseteq 0 .. BPS
    /\ CeilingInputs \cup {InitialCeiling} \subseteq U64
    /\ {MINIMUM_LIQUIDITY, YIELD_PRECISION, PRICE_SCALE} \subseteq Nat \ {0}
    /\ {MaxLendings, MaxApySeq} \subseteq Nat

VARIABLES
    funds,                       \* USDC on hand
    deployed,                    \* USDC out in trades
    lent,                        \* USDC out at venues
    total_shares,
    caps,                        \* the ProviderCaps that exist
    provider_count,
    total,                       \* lifetime deposits, withdrawals and yield
    lending_positions,           \* the positions not pruned, by id
    next_lending_id,
    active_lending_count,
    cumulative_yield_per_share,  \* the yield accumulator
    current_apy_bps,
    apy_history,                 \* the snapshots not pruned, by number
    next_apy_seq,
    paused,
    buffer_bps,
    max_withdrawal,              \* the ceiling of one withdrawal, 0 for none
    allowed_venues

provider_vars == <<total_shares, caps, provider_count>>
lending_vars == <<lent, lending_positions, next_lending_id, active_lending_count>>
apy_vars == <<current_apy_bps, apy_history, next_apy_seq>>
config_vars == <<paused, buffer_bps, max_withdrawal, allowed_venues>>
vault_vars == <<funds, deployed, provider_vars, total, lending_vars,
                cumulative_yield_per_share, apy_vars, config_vars>>
vars == <<vault_vars, access_vars>>

ProviderCap == [shares : U64, deposited_value : U64, earned_yield : U64, snapshot : U64]

LendingPosition == [venue : Venues, principal : U64,
                    status : {"Active", "Returned", "Defaulted"}]

TypeOK ==
    /\ AccessTypeOK
    /\ {funds, deployed, lent, total_shares, cumulative_yield_per_share} \subseteq U64
    /\ provider_count \in 0 .. Cardinality(ProviderCapIds)
    /\ DOMAIN caps \subseteq ProviderCapIds
    /\ \A id \in DOMAIN caps : caps[id] \in ProviderCap
    /\ total \in [{"deposited", "withdrawn", "yield"} -> U64]
    /\ next_lending_id \in 0 .. MaxLendings
    /\ DOMAIN lending_positions \subseteq 0 .. next_lending_id - 1
    /\ \A i \in DOMAIN lending_positions : lending_positions[i] \in LendingPosition
    /\ active_lending_count \in 0 .. next_lending_id
    /\ next_apy_seq \in 0 .. MaxApySeq
    /\ DOMAIN apy_history \subseteq 0 .. next_apy_seq - 1
    /\ {current_apy_bps} \cup {apy_history[s] : s \in DOMAIN apy_history}
         \subseteq ApyInputs \cup {0}
    /\ paused \in BOOLEAN
    /\ buffer_bps \in 0 .. BPS
    /\ max_withdrawal \in U64
    /\ allowed_venues \subseteq Venues

Init ==
    /\ AccessInit
    /\ funds = 0 /\ deployed = 0 /\ lent = 0
    /\ total_shares = 0 /\ caps = <<>> /\ provider_count = 0
    /\ total = [c \in {"deposited", "withdrawn", "yield"} |-> 0]
    /\ lending_positions = <<>> /\ next_lending_id = 0 /\ active_lending_count = 0
    /\ cumulative_yield_per_share = 0
    /\ current_apy_bps = 0 /\ apy_history = <<>> /\ next_apy_seq = 0
    /\ paused = FALSE
    /\ buffer_bps = InitialBuffer
    /\ max_withdrawal = InitialCeiling
    /\ allowed_venues = {}

-----------------------------------------------------------------------------
(* Values, shares and yield. *)

Fits(x) == x <= U64_MAX

total_value == funds + deployed + lent

mul_div_down(a, b, denominator) == (a * b) \div denominator

\* A mutant of committed: the capital that is lent is overlooked.
committed_without_lent == deployed

committed == deployed + lent

deployable == mul_div_down(total_value, BPS - buffer_bps, BPS)

\* What an event with the share price and the total value computes.
share_price_fits ==
    /\ Fits(total_value)
    /\ total_shares # 0 => Fits(mul_div_down(total_value, PRICE_SCALE, total_shares))

sat_add(a, b) == Min({a + b, U64_MAX})

\* A u64, or 0 when the result is not one: yield is reported and never aborts.
OrZero(x) == IF Fits(x) THEN x ELSE 0

yield_per_share_inc(yield) == OrZero(mul_div_down(yield, YIELD_PRECISION, total_shares))

yield_for_delta(delta, shares) == OrZero(mul_div_down(delta, shares, YIELD_PRECISION))

accrue_yield(yield) ==
    /\ Fits(total["yield"] + yield)
    /\ total' = [total EXCEPT !["yield"] = @ + yield]
    /\ cumulative_yield_per_share' =
         IF total_shares > 0
         THEN sat_add(cumulative_yield_per_share, yield_per_share_inc(yield))
         ELSE cumulative_yield_per_share

provider_earned_yield(cap) ==
    sat_add(cap.earned_yield,
            yield_for_delta(cumulative_yield_per_share - cap.snapshot, cap.shares))

sync_provider_yield(cap) ==
    [cap EXCEPT !.earned_yield = provider_earned_yield(cap),
                !.snapshot = cumulative_yield_per_share]

Receive(amount) == Fits(funds + amount) /\ funds' = funds + amount

WithCap(id, cap) == [c \in DOMAIN caps \cup {id} |-> IF c = id THEN cap ELSE caps[c]]

Without(f, x) == [y \in DOMAIN f \ {x} |-> f[y]]

-----------------------------------------------------------------------------
(* Providers. *)

\* A mutant of LockedFirst: the locked shares are not counted in the total.
LockedFirst_forgotten == total_shares

\* The shares there are before the ones a deposit mints.
LockedFirst == IF total_shares = 0 THEN MINIMUM_LIQUIDITY ELSE total_shares

\* A mutant of SharesAt: the quotient is rounded up.
SharesAt_rounded_up(amount) ==
    (amount * total_shares + total_value - 1) \div total_value

\* Shares at the current value; none is to be had of a pool that is worth nothing.
SharesAt(amount) == mul_div_down(amount, total_shares, total_value)

Mint(amount, minted) ==
    /\ minted > 0
    /\ Receive(amount)
    /\ Fits(LockedFirst + minted) /\ Fits(total["deposited"] + amount)
    /\ total_shares' = LockedFirst + minted
    /\ total' = [total EXCEPT !["deposited"] = @ + amount]
    /\ UNCHANGED <<deployed, lending_vars, cumulative_yield_per_share, apy_vars,
                   config_vars, access_vars>>
    /\ share_price_fits'

provide(id, amount) ==
    LET minted == IF total_shares = 0 THEN amount - MINIMUM_LIQUIDITY ELSE SharesAt(amount)
    IN  /\ id \notin DOMAIN caps
        /\ ~ paused /\ amount > 0
        /\ total_shares # 0 => total_value > 0 /\ Fits(total_value)
        /\ Mint(amount, minted)
        /\ caps' = WithCap(id, [shares |-> minted, deposited_value |-> amount,
                                earned_yield |-> 0,
                                snapshot |-> cumulative_yield_per_share])
        /\ provider_count' = provider_count + 1

\* A mutant of add_to_position: the yield is not synced before the shares change.
add_to_position_unsynced(id, amount) ==
    /\ ~ paused /\ amount > 0
    /\ total_value > 0 /\ Fits(total_value)
    /\ Mint(amount, SharesAt(amount))
    /\ caps' = [caps EXCEPT ![id].shares = @ + SharesAt(amount),
                            ![id].deposited_value = @ + amount]
    /\ UNCHANGED provider_count

add_to_position(id, amount) ==
    /\ ~ paused /\ amount > 0
    /\ total_value > 0 /\ Fits(total_value)
    /\ Mint(amount, SharesAt(amount))
    /\ caps' = WithCap(id, [sync_provider_yield(caps[id]) EXCEPT
                              !.shares = @ + SharesAt(amount),
                              !.deposited_value = @ + amount])
    /\ UNCHANGED provider_count

\* Not blocked by a pause, but bounded by what is on hand.
redeem(id, shares) ==
    LET cap == caps[id]
        amount == mul_div_down(shares, total_value, total_shares)
        reduction == mul_div_down(cap.deposited_value, shares, cap.shares)
    IN  /\ shares \in 1 .. cap.shares
        /\ shares <= total_shares /\ Fits(total_value)
        /\ amount > 0 /\ amount <= funds
        /\ Fits(total["withdrawn"] + amount)
        /\ total_shares' = total_shares - shares
        /\ total' = [total EXCEPT !["withdrawn"] = @ + amount]
        /\ funds' = funds - amount
        /\ caps' = WithCap(id, [sync_provider_yield(cap) EXCEPT
                                  !.shares = @ - shares,
                                  !.deposited_value = @ - reduction])
        /\ UNCHANGED <<provider_count, deployed, lending_vars,
                       cumulative_yield_per_share, apy_vars, config_vars, access_vars>>
        /\ share_price_fits'

close_position(id) ==
    /\ caps[id].shares = 0
    /\ caps' = Without(caps, id)
    /\ provider_count' = provider_count - 1
    /\ UNCHANGED <<funds, deployed, total_shares, total, lending_vars,
                   cumulative_yield_per_share, apy_vars, config_vars, access_vars>>

ProviderStep ==
    \/ \E id \in ProviderCapIds, amount \in Amounts : provide(id, amount)
    \/ \E id \in DOMAIN caps :
        \/ \E amount \in Amounts : add_to_position(id, amount)
        \/ \E shares \in 1 .. caps[id].shares : redeem(id, shares)
        \/ close_position(id)

-----------------------------------------------------------------------------
(* The executor: revenue, trading, lending and the advertised rate. *)

deposit(amount) ==
    /\ amount > 0
    /\ Receive(amount)
    /\ accrue_yield(amount)
    /\ UNCHANGED <<deployed, provider_vars, lending_vars, apy_vars, config_vars>>
    /\ Fits(total_value')

\* Capital leaves within the ceiling, the funds on hand and the buffer.
Draw(amount) ==
    /\ ~ paused /\ amount > 0
    /\ max_withdrawal = 0 \/ amount <= max_withdrawal
    /\ amount <= funds
    /\ Fits(total_value) /\ committed + amount <= deployable
    /\ funds' = funds - amount

withdraw_for_trading(amount) ==
    /\ Draw(amount)
    /\ deployed' = deployed + amount
    /\ UNCHANGED <<provider_vars, total, lending_vars, cumulative_yield_per_share,
                   apy_vars, config_vars>>

\* The proceeds of a principal: what exceeds it is yield.
Proceeds(principal, returned) ==
    /\ Receive(returned)
    /\ IF returned >= principal
       THEN accrue_yield(returned - principal)
       ELSE UNCHANGED <<total, cumulative_yield_per_share>>

return_from_trading(notional, returned) ==
    /\ notional <= deployed
    /\ deployed' = deployed - notional
    /\ Proceeds(notional, returned)
    /\ UNCHANGED <<provider_vars, lending_vars, apy_vars, config_vars>>

draw_for_lending(amount, venue) ==
    /\ next_lending_id < MaxLendings
    /\ venue \in allowed_venues
    /\ Draw(amount)
    /\ lending_positions' = [i \in DOMAIN lending_positions \cup {next_lending_id} |->
                               IF i = next_lending_id
                               THEN [venue |-> venue, principal |-> amount,
                                     status |-> "Active"]
                               ELSE lending_positions[i]]
    /\ next_lending_id' = next_lending_id + 1
    /\ active_lending_count' = active_lending_count + 1
    /\ lent' = lent + amount
    /\ UNCHANGED <<deployed, provider_vars, total, cumulative_yield_per_share,
                   apy_vars, config_vars>>

\* A mutant of CloseLoan: a position that is closed already is closed again.
CloseLoan_again(i, status) ==
    /\ lending_positions[i].principal <= lent
    /\ lending_positions' = [lending_positions EXCEPT ![i].status = status]
    /\ lent' = lent - lending_positions[i].principal
    /\ active_lending_count' = active_lending_count - 1
    /\ UNCHANGED next_lending_id

CloseLoan(i, status) ==
    /\ lending_positions[i].status = "Active"
    /\ lending_positions[i].principal <= lent
    /\ lending_positions' = [lending_positions EXCEPT ![i].status = status]
    /\ lent' = lent - lending_positions[i].principal
    /\ active_lending_count' = active_lending_count - 1
    /\ UNCHANGED next_lending_id

return_from_lending(i, returned) ==
    /\ CloseLoan(i, "Returned")
    /\ Proceeds(lending_positions[i].principal, returned)
    /\ UNCHANGED <<deployed, provider_vars, apy_vars, config_vars>>

\* A mutant of mark_lending_defaulted: only what is recovered leaves lent.
mark_lending_defaulted_keeps_loss(i, recovered) ==
    /\ lending_positions[i].status = "Active"
    /\ recovered <= lent
    /\ lending_positions' = [lending_positions EXCEPT ![i].status = "Defaulted"]
    /\ lent' = lent - recovered
    /\ active_lending_count' = active_lending_count - 1
    /\ Receive(recovered)
    /\ UNCHANGED <<next_lending_id, deployed, provider_vars, total,
                   cumulative_yield_per_share, apy_vars, config_vars>>
    /\ Fits(total_value')

\* The whole principal leaves lent; no recovery, however large, counts as yield.
mark_lending_defaulted(i, recovered) ==
    /\ CloseLoan(i, "Defaulted")
    /\ Receive(recovered)
    /\ UNCHANGED <<deployed, provider_vars, total, cumulative_yield_per_share,
                   apy_vars, config_vars>>
    /\ Fits(total_value')

set_apy(apy) ==
    /\ next_apy_seq < MaxApySeq
    /\ current_apy_bps' = apy
    /\ apy_history' = [s \in DOMAIN apy_history \cup {next_apy_seq} |->
                         IF s = next_apy_seq THEN apy ELSE apy_history[s]]
    /\ next_apy_seq' = next_apy_seq + 1
    /\ UNCHANGED <<funds, deployed, provider_vars, total, lending_vars,
                   cumulative_yield_per_share, config_vars>>

ExecutorStep(cap) ==
    /\ assert_executor(cap)
    /\ \/ \E amount \in Amounts :
            \/ deposit(amount)
            \/ withdraw_for_trading(amount)
            \/ \E notional \in Amounts : return_from_trading(notional, amount)
            \/ \E venue \in Venues : draw_for_lending(amount, venue)
            \/ \E i \in DOMAIN lending_positions :
                  return_from_lending(i, amount) \/ mark_lending_defaulted(i, amount)
       \/ \E apy \in ApyInputs : set_apy(apy)
    /\ UNCHANGED access_vars

-----------------------------------------------------------------------------
(* The admin. *)

set_paused(on) ==
    paused' = on /\ UNCHANGED <<buffer_bps, max_withdrawal, allowed_venues>>

set_buffer_bps(bps) ==
    buffer_bps' = bps /\ UNCHANGED <<paused, max_withdrawal, allowed_venues>>

set_max_withdrawal(ceiling) ==
    max_withdrawal' = ceiling /\ UNCHANGED <<paused, buffer_bps, allowed_venues>>

set_venue_allowed(venue, allowed) ==
    /\ allowed_venues' = IF allowed THEN allowed_venues \cup {venue}
                                    ELSE allowed_venues \ {venue}
    /\ UNCHANGED <<paused, buffer_bps, max_withdrawal>>

prune_lending_position(i) ==
    /\ lending_positions[i].status # "Active"
    /\ lending_positions' = Without(lending_positions, i)
    /\ UNCHANGED <<lent, next_lending_id, active_lending_count, apy_vars>>

prune_apy_snapshot(s) ==
    /\ apy_history' = Without(apy_history, s)
    /\ UNCHANGED <<current_apy_bps, next_apy_seq, lending_vars>>

AdminStep(cap) ==
    /\ assert_admin(cap)
    /\ \/ /\ \/ \E on \in BOOLEAN : set_paused(on)
             \/ \E bps \in BufferInputs : set_buffer_bps(bps)
             \/ \E ceiling \in CeilingInputs : set_max_withdrawal(ceiling)
             \/ \E venue \in Venues, allowed \in BOOLEAN : set_venue_allowed(venue, allowed)
          /\ UNCHANGED <<lending_vars, apy_vars>>
       \/ /\ \/ \E i \in DOMAIN lending_positions : prune_lending_position(i)
             \/ \E s \in DOMAIN apy_history : prune_apy_snapshot(s)
          /\ UNCHANGED config_vars
    /\ UNCHANGED <<funds, deployed, provider_vars, total, cumulative_yield_per_share,
                   access_vars>>

VaultStep ==
    \/ ProviderStep
    \/ \E cap \in ExecutorCapIds : ExecutorStep(cap)
    \/ \E cap \in AdminCapIds : AdminStep(cap)

Next == VaultStep \/ (AccessNext /\ UNCHANGED vault_vars)

Spec == Init /\ [][Next]_vars

-----------------------------------------------------------------------------
(* Properties. *)

SharesOf == [id \in DOMAIN caps |-> caps[id].shares]

YieldOf == [id \in DOMAIN caps |-> provider_earned_yield(caps[id])]

PrincipalOf == [i \in DOMAIN lending_positions |-> lending_positions[i].principal]

ActiveLoans == {i \in DOMAIN lending_positions : lending_positions[i].status = "Active"}

\* The share ledger adds up over deposits, redemptions and closed positions: the
\* shares outstanding are those of the caps and, from the first deposit on, the
\* locked ones ("total_shares is always at least this much"); the provider count
\* is the number of caps (provide, add_to_position, redeem, close_position).
SharesAgree ==
    /\ total_shares = SumFunctionOnSet(SharesOf, DOMAIN caps)
                        + IF total_shares = 0 THEN 0 ELSE MINIMUM_LIQUIDITY
    /\ total_shares = 0 => caps = <<>>
    /\ provider_count = Cardinality(DOMAIN caps)

\* What is lent is what the active positions owe, over draws, returns, defaults and
\* prunings in any order: each can still be closed, and the value of the pool
\* counts no loan that is gone (draw_for_lending, return_from_lending,
\* mark_lending_defaulted, prune_lending_position).
LentIsActive ==
    /\ lent = SumFunctionOnSet(PrincipalOf, ActiveLoans)
    /\ active_lending_count = Cardinality(ActiveLoans)

\* The yield reported to the providers together never exceeds the yield earned:
\* the accumulator, its roundings and the syncs before every change of shares
\* attribute no yield twice (accrue_yield, sync_provider_yield).
YieldNotOverstated == SumFunctionOnSet(YieldOf, DOMAIN caps) <= total["yield"]

\* The firm puts more capital at risk only while the vault is not paused, and then
\* trading and lending together stay within what the buffer leaves of the value,
\* and one call within the ceiling (withdraw_for_trading, draw_for_lending).
ExposureIsGated ==
    [][deployed' + lent' > deployed + lent =>
          /\ ~ paused
          /\ deployed' + lent' <= deployable
          /\ max_withdrawal = 0 \/ deployed' + lent' - deployed - lent <= max_withdrawal
      ]_vault_vars

\* The vault is a SharePool: no provider is diluted by another's deposit or
\* redemption, and cash leaves only to a redeemer or to be invested.
Shares == INSTANCE SharePool WITH
            Locked <- MINIMUM_LIQUIDITY,
            on_hand <- funds, invested <- deployed + lent, shares <- total_shares

ImplementsSharePool == Shares!PoolSpec

=============================================================================
