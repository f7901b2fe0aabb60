---------------------------- MODULE VaultProofs ----------------------------
(***************************************************************************)
(* What the vault guarantees for any caps, venues and amounts.             *)
(*                                                                         *)
(* The inductive invariant is VaultInv: the pool is made of natural        *)
(* numbers (PoolInv), the books of the caps (CapsInv), the loans           *)
(* (LoansInv) and the types of the rest.  That the vault implements        *)
(* SharePool and gates what it puts at risk needs the first part only;     *)
(* every bound those steps need beside it is a check of the code.          *)
(***************************************************************************)
EXTENDS Vault, AccessProofs, SumLemmas

PoolInv ==
    /\ funds \in Nat /\ deployed \in Nat /\ lent \in Nat /\ total_shares \in Nat
    /\ \A i \in DOMAIN lending_positions : lending_positions[i].principal \in Nat

pool == <<funds, deployed + lent, total_shares>>

PoolMove == Shares!PoolNext \/ UNCHANGED pool

LEMMA ConstantTypes ==
    /\ Amounts \subseteq Nat
    /\ MINIMUM_LIQUIDITY \in Nat /\ MINIMUM_LIQUIDITY > 0
BY VaultAssumption DEF U64

\* The rounded down quotient, and that what it is a share of is not exceeded.
LEMMA MulDivDown ==
    ASSUME NEW a \in Nat, NEW b \in Nat, NEW d \in Nat, d > 0
    PROVE  /\ mul_div_down(a, b, d) \in Nat
           /\ mul_div_down(a, b, d) * d <= a * b
<1> DEFINE p == a * b
<1>1. p \in Nat
  OBVIOUS
<1> HIDE DEF p
<1>2. p \div d \in Nat /\ (p \div d) * d <= p
  BY <1>1, SMT
<1> QED BY <1>2 DEF mul_div_down, p

LEMMA InitPool == Init => PoolInv /\ Shares!PoolInit
BY DEF Init, PoolInv, Shares!PoolInit

-----------------------------------------------------------------------------
(* Providers. *)

\* Minted shares are paid for in full: either they are the first ones, or there
\* are no more of them than their part of the value.
LEMMA MintStep ==
    ASSUME PoolInv, NEW amount \in Nat, NEW minted \in Nat, Mint(amount, minted),
           total_shares = 0 => minted = amount - MINIMUM_LIQUIDITY,
           total_shares > 0 => minted * total_value <= amount * total_shares
    PROVE  PoolInv' /\ PoolMove
<1>1. /\ funds' = funds + amount
      /\ minted > 0
      /\ UNCHANGED <<deployed, lent, lending_positions>>
  BY DEF Mint, Receive, lending_vars
<1>2. CASE total_shares = 0
  <2>1. total_shares' = amount
    BY <1>2, ConstantTypes DEF Mint, LockedFirst
  <2>2. Shares!Seed
    BY <1>1, <1>2, <2>1, ConstantTypes DEF Shares!Seed, PoolInv
  <2> QED BY <1>1, <2>1, <2>2 DEF PoolInv, PoolMove, Shares!PoolNext
<1>3. CASE total_shares > 0
  <2>1. total_shares' = total_shares + minted
    BY <1>3 DEF Mint, LockedFirst, PoolInv
  <2>2. total_shares' - total_shares = minted /\ funds' - funds = amount
    BY <1>1, <2>1 DEF PoolInv
  <2>3. total_value = Shares!value
    BY DEF total_value, Shares!value, PoolInv
  <2>4. Shares!Buy
    BY <1>1, <1>3, <2>1, <2>2, <2>3 DEF Shares!Buy, PoolInv
  <2> QED BY <1>1, <2>1, <2>4 DEF PoolInv, PoolMove, Shares!PoolNext
<1> QED BY <1>2, <1>3 DEF PoolInv

LEMMA SharesAtBound ==
    ASSUME PoolInv, NEW amount \in Nat, total_value > 0
    PROVE  SharesAt(amount) \in Nat
           /\ SharesAt(amount) * total_value <= amount * total_shares
<1>1. total_value \in Nat
  BY DEF total_value, PoolInv
<1> QED BY <1>1, MulDivDown DEF SharesAt, PoolInv

LEMMA ProvideStep ==
    ASSUME PoolInv, NEW id, NEW amount \in Nat, provide(id, amount)
    PROVE  PoolInv' /\ PoolMove
<1>1. CASE total_shares = 0
  <2>1. Mint(amount, amount - MINIMUM_LIQUIDITY)
    BY <1>1 DEF provide
  <2>2. amount - MINIMUM_LIQUIDITY \in Nat
    BY <2>1, ConstantTypes DEF Mint
  <2> QED BY <1>1, <2>1, <2>2, MintStep
<1>2. CASE total_shares > 0
  <2>1. total_value > 0 /\ Mint(amount, SharesAt(amount))
    BY <1>2 DEF provide, PoolInv
  <2> QED BY <1>2, <2>1, SharesAtBound, MintStep
<1> QED BY <1>1, <1>2 DEF PoolInv

LEMMA AddStep ==
    ASSUME PoolInv, NEW id, NEW amount \in Nat, add_to_position(id, amount)
    PROVE  PoolInv' /\ PoolMove
<1>1. total_value > 0 /\ Mint(amount, SharesAt(amount))
  BY DEF add_to_position
<1>2. SharesAt(amount) > 0
  BY <1>1 DEF Mint
<1>3. total_shares > 0
  <2>1. SUFFICES ASSUME total_shares = 0 PROVE FALSE
    BY DEF PoolInv
  <2>2. SharesAt(amount) * total_value <= 0
    BY <1>1, <2>1, SharesAtBound
  <2>3. total_value \in Nat /\ SharesAt(amount) \in Nat
    BY <1>1, SharesAtBound DEF PoolInv, total_value
  <2> HIDE DEF total_value
  <2> QED BY <1>1, <1>2, <2>2, <2>3
<1> QED BY <1>1, <1>3, SharesAtBound, MintStep

\* A redeemer is paid no more than the redeemed part of the value.
LEMMA RedeemStep ==
    ASSUME PoolInv, NEW id, NEW n, redeem(id, n)
    PROVE  PoolInv' /\ PoolMove
<1> DEFINE amount == mul_div_down(n, total_value, total_shares)
<1>1. /\ n \in Nat /\ n > 0 /\ n <= total_shares
      /\ amount <= funds
      /\ total_shares' = total_shares - n
      /\ funds' = funds - amount
      /\ UNCHANGED <<deployed, lent, lending_positions>>
  BY DEF redeem, lending_vars
<1>2. total_value \in Nat /\ total_value = Shares!value
  BY DEF total_value, Shares!value, PoolInv
<1>3. amount \in Nat /\ amount * total_shares <= n * total_value
  <2>1. total_shares \in Nat /\ total_shares > 0
    BY <1>1 DEF PoolInv
  <2> HIDE DEF amount
  <2> QED BY <1>1, <1>2, <2>1, MulDivDown DEF amount
<1> HIDE DEF amount
<1>4. PoolInv'
  BY <1>1, <1>3 DEF PoolInv
<1>5. funds - funds' = amount /\ total_shares - total_shares' = n
  BY <1>1, <1>3 DEF PoolInv
<1>6. funds' \in 0 .. funds /\ total_shares' \in 0 .. total_shares - 1
  BY <1>1, <1>3 DEF PoolInv
<1>7. Shares!Redeem
  BY <1>1, <1>2, <1>3, <1>5, <1>6 DEF Shares!Redeem
<1> QED BY <1>4, <1>7 DEF PoolMove, Shares!PoolNext

LEMMA ProviderPool ==
    ASSUME PoolInv, ProviderStep
    PROVE  PoolInv' /\ PoolMove
<1>1. ASSUME NEW id, close_position(id) PROVE PoolInv' /\ PoolMove
  BY <1>1 DEF close_position, PoolInv, PoolMove, pool, lending_vars
<1> QED BY <1>1, ProvideStep, AddStep, RedeemStep, ConstantTypes DEF ProviderStep

-----------------------------------------------------------------------------
(* The executor. *)

\* Capital that leaves the funds and is deployed or lent.
LEMMA InvestStep ==
    ASSUME PoolInv, NEW amount \in Nat, Draw(amount),
           \/ deployed' = deployed + amount /\ lent' = lent
           \/ lent' = lent + amount /\ deployed' = deployed,
           UNCHANGED total_shares,
           \A i \in DOMAIN lending_positions' : lending_positions'[i].principal \in Nat
    PROVE  /\ PoolInv' /\ PoolMove
<1>1. amount > 0 /\ amount <= funds /\ funds' = funds - amount
  BY DEF Draw
<1>2. PoolInv'
  BY <1>1 DEF PoolInv
<1>3. Shares!Invest
  BY <1>1 DEF Shares!Invest, Shares!value, PoolInv
<1> QED BY <1>2, <1>3 DEF PoolMove, Shares!PoolNext

\* Capital that comes back, or is written off, and revenue.
LEMMA SettleStep ==
    ASSUME PoolInv, NEW amount \in Nat, NEW principal \in Nat, Receive(amount),
           \/ principal <= deployed /\ deployed' = deployed - principal /\ lent' = lent
           \/ principal <= lent /\ lent' = lent - principal /\ deployed' = deployed,
           UNCHANGED total_shares,
           \A i \in DOMAIN lending_positions' : lending_positions'[i].principal \in Nat
    PROVE  PoolInv' /\ PoolMove
<1>1. funds' = funds + amount
  BY DEF Receive
<1>2. PoolInv'
  BY <1>1 DEF PoolInv
<1>3. Shares!Settle
  BY <1>1 DEF Shares!Settle, PoolInv
<1> QED BY <1>2, <1>3 DEF PoolMove, Shares!PoolNext

LEMMA CloseLoanStep ==
    ASSUME PoolInv, NEW i \in DOMAIN lending_positions, NEW s, CloseLoan(i, s)
    PROVE  /\ lending_positions[i].principal \in Nat
           /\ lending_positions[i].principal <= lent
           /\ lent' = lent - lending_positions[i].principal
           /\ \A j \in DOMAIN lending_positions' : lending_positions'[j].principal \in Nat
BY DEF CloseLoan, PoolInv

LEMMA ExecutorPool ==
    ASSUME PoolInv, NEW cap, ExecutorStep(cap)
    PROVE  PoolInv' /\ PoolMove
<1>1. ASSUME NEW amount \in Amounts, deposit(amount) PROVE PoolInv' /\ PoolMove
  <2>1. /\ Receive(amount)
        /\ 0 <= deployed /\ deployed' = deployed - 0 /\ lent' = lent
        /\ UNCHANGED <<total_shares, lending_positions>>
    BY <1>1 DEF deposit, provider_vars, lending_vars, PoolInv
  <2> QED BY <2>1, SettleStep, ConstantTypes DEF PoolInv
<1>2. ASSUME NEW amount \in Amounts, withdraw_for_trading(amount)
      PROVE PoolInv' /\ PoolMove
  <2>1. /\ Draw(amount)
        /\ deployed' = deployed + amount
        /\ UNCHANGED <<lent, total_shares, lending_positions>>
    BY <1>2 DEF withdraw_for_trading, provider_vars, lending_vars
  <2> QED BY <2>1, InvestStep, ConstantTypes DEF PoolInv
<1>3. ASSUME NEW amount \in Amounts, NEW notional \in Amounts,
             return_from_trading(notional, amount)
      PROVE PoolInv' /\ PoolMove
  <2>1. /\ Receive(amount)
        /\ notional <= deployed /\ deployed' = deployed - notional
        /\ UNCHANGED <<lent, total_shares, lending_positions>>
    BY <1>3 DEF return_from_trading, Proceeds, provider_vars, lending_vars
  <2> QED BY <2>1, SettleStep, ConstantTypes DEF PoolInv
<1>4. ASSUME NEW amount \in Amounts, NEW venue, draw_for_lending(amount, venue)
      PROVE PoolInv' /\ PoolMove
  <2>1. /\ Draw(amount)
        /\ lent' = lent + amount
        /\ UNCHANGED <<deployed, total_shares>>
    BY <1>4 DEF draw_for_lending, provider_vars
  <2>2. \A i \in DOMAIN lending_positions' : lending_positions'[i].principal \in Nat
    BY <1>4, ConstantTypes DEF draw_for_lending, PoolInv
  <2> QED BY <2>1, <2>2, InvestStep, ConstantTypes
<1>5. ASSUME NEW amount \in Amounts, NEW i \in DOMAIN lending_positions, NEW s,
             CloseLoan(i, s), Receive(amount), UNCHANGED <<deployed, total_shares>>
      PROVE PoolInv' /\ PoolMove
  BY <1>5, CloseLoanStep, SettleStep, ConstantTypes
<1>6. ASSUME NEW amount \in Amounts, NEW i \in DOMAIN lending_positions,
             return_from_lending(i, amount) \/ mark_lending_defaulted(i, amount)
      PROVE PoolInv' /\ PoolMove
  <2>1. CASE return_from_lending(i, amount)
    BY <1>5, <2>1 DEF return_from_lending, Proceeds, provider_vars
  <2>2. CASE mark_lending_defaulted(i, amount)
    BY <1>5, <2>2 DEF mark_lending_defaulted, provider_vars
  <2> QED BY <1>6, <2>1, <2>2
<1>7. ASSUME NEW apy, set_apy(apy) PROVE PoolInv' /\ PoolMove
  BY <1>7 DEF set_apy, PoolInv, PoolMove, pool, provider_vars, lending_vars
<1> QED BY <1>1, <1>2, <1>3, <1>4, <1>6, <1>7 DEF ExecutorStep

-----------------------------------------------------------------------------
(* The admin, and the invariant. *)

LEMMA AdminPool ==
    ASSUME PoolInv, NEW cap, AdminStep(cap)
    PROVE  PoolInv' /\ UNCHANGED pool
<1>1. UNCHANGED <<funds, deployed, total_shares>>
  BY DEF AdminStep, provider_vars
<1>2. CASE UNCHANGED lending_vars
  BY <1>1, <1>2 DEF PoolInv, pool, lending_vars
<1>3. ASSUME NEW i \in DOMAIN lending_positions, prune_lending_position(i)
      PROVE  PoolInv' /\ UNCHANGED pool
  BY <1>1, <1>3 DEF prune_lending_position, Without, PoolInv, pool
<1>4. ASSUME NEW s, prune_apy_snapshot(s) PROVE UNCHANGED lending_vars
  BY <1>4 DEF prune_apy_snapshot
<1> QED BY <1>2, <1>3, <1>4 DEF AdminStep

LEMMA EveryStep == PoolInv /\ [Next]_vars => PoolInv' /\ PoolMove
<1> SUFFICES ASSUME PoolInv, [Next]_vars PROVE PoolInv' /\ PoolMove
  OBVIOUS
<1>1. CASE UNCHANGED vault_vars
  BY <1>1 DEF vault_vars, provider_vars, lending_vars, PoolInv, PoolMove, pool
<1>2. CASE VaultStep
  BY <1>2, ProviderPool, ExecutorPool, AdminPool DEF VaultStep, PoolMove
<1> QED BY <1>1, <1>2 DEF Next, vars

THEOREM PoolInvariant == Spec => []PoolInv
<1>1. Init => PoolInv
  BY InitPool
<1>2. PoolInv /\ [Next]_vars => PoolInv'
  BY EveryStep
<1> QED BY <1>1, <1>2, PTL DEF Spec

\* Whatever providers, executors and admins do and in whatever order, no deposit or
\* redemption dilutes a provider, and cash leaves only to a redeemer or to be
\* invested.
THEOREM ImplementsSharePoolHolds == Spec => ImplementsSharePool
<1>1. Init => Shares!PoolInit
  BY InitPool
<1>2. PoolInv /\ [Next]_vars => [Shares!PoolNext]_(Shares!pool_vars)
  BY EveryStep DEF PoolMove, pool, Shares!pool_vars
<1> QED BY <1>1, <1>2, PoolInvariant, PTL DEF Spec, ImplementsSharePool, Shares!PoolSpec

-----------------------------------------------------------------------------
(* What is at risk. *)

Gated ==
    deployed' + lent' > deployed + lent =>
        /\ ~ paused
        /\ deployed' + lent' <= deployable
        /\ max_withdrawal = 0 \/ deployed' + lent' - deployed - lent <= max_withdrawal

LEMMA DrawIsGated ==
    ASSUME PoolInv, NEW amount \in Nat, Draw(amount),
           \/ deployed' = deployed + amount /\ lent' = lent
           \/ lent' = lent + amount /\ deployed' = deployed
    PROVE  Gated
<1>1. /\ ~ paused
      /\ max_withdrawal = 0 \/ amount <= max_withdrawal
      /\ deployed + lent + amount <= deployable
  BY DEF Draw, committed
<1>2. deployed' + lent' = deployed + lent + amount
  BY DEF PoolInv
<1>3. deployed' + lent' - deployed - lent = amount
  BY <1>2 DEF PoolInv
<1> QED BY <1>1, <1>2, <1>3 DEF Gated

LEMMA OtherwiseGated ==
    ASSUME PoolInv, deployed' \in 0 .. deployed, lent' \in 0 .. lent
    PROVE  Gated
<1>1. ~ (deployed' + lent' > deployed + lent)
  BY DEF PoolInv
<1> QED BY <1>1 DEF Gated

LEMMA EveryStepIsGated == PoolInv /\ [Next]_vars => Gated
<1> SUFFICES ASSUME PoolInv, [Next]_vars PROVE Gated
  OBVIOUS
<1>1. CASE UNCHANGED <<deployed, lent>>
  BY <1>1, OtherwiseGated DEF PoolInv
<1>2. ASSUME ProviderStep PROVE UNCHANGED <<deployed, lent>>
  BY <1>2 DEF ProviderStep, provide, add_to_position, redeem, close_position, Mint,
       lending_vars
<1>3. ASSUME NEW cap, AdminStep(cap) PROVE UNCHANGED <<deployed, lent>>
  BY <1>3 DEF AdminStep, prune_lending_position, prune_apy_snapshot, lending_vars
<1>4. ASSUME NEW cap, ExecutorStep(cap) PROVE Gated
  <2>1. ASSUME NEW amount \in Amounts, NEW notional, NEW venue,
               \/ withdraw_for_trading(amount) \/ draw_for_lending(amount, venue)
        PROVE  Gated
    BY <2>1, DrawIsGated, ConstantTypes
       DEF withdraw_for_trading, draw_for_lending, lending_vars
  <2>2. ASSUME NEW amount \in Amounts, NEW notional \in Amounts,
               return_from_trading(notional, amount)
        PROVE  Gated
    <3>1. notional \in Nat /\ notional <= deployed /\ deployed' = deployed - notional
          /\ lent' = lent
      BY <2>2, ConstantTypes DEF return_from_trading, lending_vars
    <3> QED BY <3>1, OtherwiseGated DEF PoolInv
  <2>3. ASSUME NEW amount \in Amounts, NEW i \in DOMAIN lending_positions,
               return_from_lending(i, amount) \/ mark_lending_defaulted(i, amount)
        PROVE  Gated
    <3>1. (CloseLoan(i, "Returned") \/ CloseLoan(i, "Defaulted")) /\ deployed' = deployed
      BY <2>3 DEF return_from_lending, mark_lending_defaulted
    <3>2. lent' \in 0 .. lent
      BY <3>1, CloseLoanStep DEF PoolInv
    <3> QED BY <3>1, <3>2, OtherwiseGated DEF PoolInv
  <2>4. ASSUME NEW amount, NEW apy, deposit(amount) \/ set_apy(apy)
        PROVE  UNCHANGED <<deployed, lent>>
    BY <2>4 DEF deposit, set_apy, lending_vars
  <2> QED BY <1>1, <1>4, <2>1, <2>2, <2>3, <2>4 DEF ExecutorStep
<1>5. ASSUME UNCHANGED vault_vars PROVE UNCHANGED <<deployed, lent>>
  BY <1>5 DEF vault_vars, lending_vars
<1> QED BY <1>1, <1>2, <1>3, <1>4, <1>5 DEF Next, VaultStep, vars

\* Over any draws, returns, defaults, redemptions and changes of the buffer, what is
\* out in trades and at venues grows only when the vault is not paused and within
\* what the buffer leaves of the value at that moment.
THEOREM ExposureIsGatedHolds == Spec => ExposureIsGated
<1>1. PoolInv /\ [Next]_vars =>
        [deployed' + lent' > deployed + lent =>
            /\ ~ paused
            /\ deployed' + lent' <= deployable
            /\ max_withdrawal = 0 \/ deployed' + lent' - deployed - lent <= max_withdrawal
        ]_vault_vars
  BY EveryStepIsGated DEF Gated
<1> QED BY <1>1, PoolInvariant, PTL DEF Spec, ExposureIsGated

-----------------------------------------------------------------------------
(* The providers' books.  CapsInv says of the caps and of the yield        *)
(* accumulator what SharesAgree and YieldNotOverstated need:               *)
(*                                                                         *)
(*  - no cap is ahead of the accumulator, and none was paid more for than  *)
(*    was ever deposited, so that no checked operation on a cap aborts;    *)
(*  - the yield credited so far, in units of 1 / YIELD_PRECISION and with  *)
(*    what the accumulator still owes each cap, is covered by the yield    *)
(*    that came in.  The accumulator advances by a quotient rounded down,  *)
(*    a sync moves a product rounded down from one part to the other, and  *)
(*    saturation only loses yield.                                         *)

CapsTypes ==
    /\ total_shares \in U64 /\ cumulative_yield_per_share \in U64
    /\ total \in [{"deposited", "withdrawn", "yield"} -> U64]
    /\ DOMAIN caps \subseteq ProviderCapIds
    /\ \A id \in DOMAIN caps : caps[id] \in ProviderCap

CapBounds(cap) ==
    /\ cap.snapshot <= cumulative_yield_per_share
    /\ cap.deposited_value <= total["deposited"]

CreditOf(cap) ==
    YIELD_PRECISION * cap.earned_yield
      + (cumulative_yield_per_share - cap.snapshot) * cap.shares

Credit == [id \in DOMAIN caps |-> CreditOf(caps[id])]

YieldCovered ==
    SumFunctionOnSet(Credit, DOMAIN caps) <= YIELD_PRECISION * total["yield"]

CapsInv ==
    /\ CapsTypes
    /\ \A id \in DOMAIN caps : CapBounds(caps[id])
    /\ SharesAgree
    /\ YieldCovered

LEMMA MinOfTwo ==
    ASSUME NEW a \in Int, NEW b \in Int
    PROVE  Min({a, b}) \in {a, b} /\ Min({a, b}) <= a /\ Min({a, b}) <= b
BY DEF Min

LEMMA VaultConstants ==
    /\ U64_MAX \in Nat
    /\ YIELD_PRECISION \in Nat /\ YIELD_PRECISION > 0
    /\ MINIMUM_LIQUIDITY \in Nat /\ MINIMUM_LIQUIDITY > 0
    /\ IsFiniteSet(ProviderCapIds)
BY VaultAssumption

\* A cap that is not ahead of the accumulator earns a u64, covered by its credit.
LEMMA EarnedYield ==
    ASSUME NEW cap \in ProviderCap, cumulative_yield_per_share \in U64,
           cap.snapshot <= cumulative_yield_per_share
    PROVE  /\ provider_earned_yield(cap) \in U64
           /\ YIELD_PRECISION * provider_earned_yield(cap) <= CreditOf(cap)
           /\ CreditOf(cap) \in Nat
<1> DEFINE P == YIELD_PRECISION
           delta == cumulative_yield_per_share - cap.snapshot
           x == mul_div_down(delta, cap.shares, P)
           due == yield_for_delta(delta, cap.shares)
           owed == delta * cap.shares
<1>1. /\ delta \in Nat /\ cap.shares \in Nat /\ cap.earned_yield \in Nat
      /\ P \in Nat /\ P > 0 /\ U64_MAX \in Nat
  BY VaultConstants DEF ProviderCap, U64
<1> HIDE DEF delta, P
<1>2. x \in Nat /\ x * P <= owed /\ owed \in Nat
  <2> DEFINE held == cap.shares
  <2>1. held \in Nat
    BY <1>1
  <2> HIDE DEF held
  <2>2. delta * held \in Nat
    BY <1>1, <2>1
  <2>3. /\ mul_div_down(delta, held, P) \in Nat
        /\ mul_div_down(delta, held, P) * P <= delta * held
    BY <1>1, <2>1, MulDivDown
  <2> QED BY <2>2, <2>3 DEF held
<1>3. due = x \/ due = 0
  BY DEF yield_for_delta, OrZero, P
<1> HIDE DEF x, due, owed
<1>4. due \in Nat /\ P * due <= owed
  BY <1>1, <1>2, <1>3
<1> DEFINE earned == Min({cap.earned_yield + due, U64_MAX})
<1>5. earned \in Nat /\ earned <= cap.earned_yield + due /\ earned <= U64_MAX
  <2> DEFINE a == cap.earned_yield + due
  <2>1. a \in Int /\ 0 <= a
    BY <1>1, <1>4
  <2> HIDE DEF a
  <2>2. Min({a, U64_MAX}) \in {a, U64_MAX} /\ Min({a, U64_MAX}) <= a /\ Min({a, U64_MAX}) <= U64_MAX
    BY <1>1, <2>1, MinOfTwo
  <2> QED BY <1>1, <2>1, <2>2 DEF a
<1>6. provider_earned_yield(cap) = earned
  BY DEF provider_earned_yield, sat_add, due, delta
<1>7. CreditOf(cap) = P * cap.earned_yield + owed
  BY DEF CreditOf, owed, delta, P
<1> HIDE DEF earned
<1>8. P * earned <= P * cap.earned_yield + owed
  <2>1. P * earned <= P * (cap.earned_yield + due)
    BY <1>1, <1>4, <1>5
  <2>2. P * (cap.earned_yield + due) = P * cap.earned_yield + P * due
    BY <1>1, <1>4
  <2>3. P * earned \in Int /\ P * cap.earned_yield \in Nat /\ P * due \in Int
    BY <1>1, <1>4, <1>5
  <2> QED BY <1>2, <1>4, <2>1, <2>2, <2>3
<1>9. P * cap.earned_yield + owed \in Nat
  BY <1>1, <1>2
<1> QED BY <1>1, <1>5, <1>6, <1>7, <1>8, <1>9 DEF U64, P

\* What a sync leaves of a cap: nothing is due, and the yield is as reported.
Synced(cap, n, v) ==
    [sync_provider_yield(cap) EXCEPT !.shares = n, !.deposited_value = v]

LEMMA SyncedCap ==
    ASSUME NEW cap \in ProviderCap, cumulative_yield_per_share \in U64,
           cap.snapshot <= cumulative_yield_per_share,
           NEW n \in U64, NEW v \in U64
    PROVE  /\ Synced(cap, n, v) \in ProviderCap
           /\ Synced(cap, n, v).shares = n /\ Synced(cap, n, v).deposited_value = v
           /\ Synced(cap, n, v).snapshot = cumulative_yield_per_share
           /\ CreditOf(Synced(cap, n, v)) <= CreditOf(cap)
<1> DEFINE synced == Synced(cap, n, v)
<1>1. synced = [shares |-> n, deposited_value |-> v,
                earned_yield |-> provider_earned_yield(cap),
                snapshot |-> cumulative_yield_per_share]
  <2> DEFINE y == provider_earned_yield(cap)
             now == cumulative_yield_per_share
             c1 == [cap EXCEPT !.earned_yield = y]
             c2 == [c1 EXCEPT !.snapshot = now]
             c3 == [c2 EXCEPT !.shares = n]
  <2>1. c1 = [shares |-> cap.shares, deposited_value |-> cap.deposited_value,
              earned_yield |-> y, snapshot |-> cap.snapshot]
    <3> HIDE DEF y
    <3> QED BY DEF ProviderCap
  <2>2. c2 = [shares |-> cap.shares, deposited_value |-> cap.deposited_value,
              earned_yield |-> y, snapshot |-> now]
    <3> HIDE DEF y, c1, now
    <3> QED BY <2>1
  <2>3. c3 = [shares |-> n, deposited_value |-> cap.deposited_value,
              earned_yield |-> y, snapshot |-> now]
    <3> HIDE DEF y, c2, now
    <3> QED BY <2>2
  <2>4. [c3 EXCEPT !.deposited_value = v]
          = [shares |-> n, deposited_value |-> v, earned_yield |-> y, snapshot |-> now]
    <3> HIDE DEF y, c3, now
    <3> QED BY <2>3
  <2>5. synced = [c3 EXCEPT !.deposited_value = v]
    BY Zenon DEF Synced, sync_provider_yield
  <2> HIDE DEF synced, c3
  <2> QED BY <2>4, <2>5
<1> HIDE DEF synced
<1>2. synced \in ProviderCap
  BY <1>1, EarnedYield DEF ProviderCap
<1>3. CreditOf(synced) = YIELD_PRECISION * provider_earned_yield(cap)
  <2>1. (cumulative_yield_per_share - cumulative_yield_per_share) * n = 0
    BY DEF U64
  <2>2. YIELD_PRECISION * provider_earned_yield(cap) \in Int
    BY EarnedYield, VaultConstants DEF U64
  <2> QED BY <1>1, <2>1, <2>2 DEF CreditOf
<1> QED BY <1>1, <1>2, <1>3, EarnedYield DEF synced

LEMMA CapsFacts ==
    ASSUME CapsInv
    PROVE  /\ IsFiniteSet(DOMAIN caps)
           /\ \A id \in DOMAIN caps :
                /\ caps[id].shares \in Nat /\ caps[id].deposited_value \in Nat
                /\ SharesOf[id] = caps[id].shares
                /\ Credit[id] = CreditOf(caps[id]) /\ Credit[id] \in Nat
           /\ SumFunctionOnSet(SharesOf, DOMAIN caps) \in Nat
           /\ SumFunctionOnSet(Credit, DOMAIN caps) \in Nat
           /\ \A id \in DOMAIN caps :
                caps[id].shares <= SumFunctionOnSet(SharesOf, DOMAIN caps)
           /\ total_shares \in Nat /\ total["yield"] \in Nat /\ total["deposited"] \in Nat
           /\ cumulative_yield_per_share \in Nat
           /\ total_shares <= U64_MAX
<1>1. IsFiniteSet(DOMAIN caps)
  BY VaultConstants, FS_Subset DEF CapsInv, CapsTypes
<1>2. /\ total_shares \in Nat /\ total["yield"] \in Nat /\ total["deposited"] \in Nat
      /\ cumulative_yield_per_share \in Nat
      /\ total_shares <= U64_MAX
  BY VaultConstants DEF CapsInv, CapsTypes, U64
<1>3. ASSUME NEW id \in DOMAIN caps
      PROVE  /\ caps[id].shares \in Nat /\ caps[id].deposited_value \in Nat
             /\ SharesOf[id] = caps[id].shares
             /\ Credit[id] = CreditOf(caps[id]) /\ Credit[id] \in Nat
  <2>1. caps[id] \in ProviderCap /\ CapBounds(caps[id])
    BY DEF CapsInv, CapsTypes
  <2>2. caps[id].shares \in Nat /\ caps[id].deposited_value \in Nat
    BY <2>1 DEF ProviderCap, U64
  <2>3. CreditOf(caps[id]) \in Nat
    BY <2>1, EarnedYield DEF CapsInv, CapsTypes, CapBounds
  <2> QED BY <2>2, <2>3 DEF SharesOf, Credit
<1>4. /\ SumFunctionOnSet(SharesOf, DOMAIN caps) \in Nat
      /\ \A id \in DOMAIN caps : SharesOf[id] <= SumFunctionOnSet(SharesOf, DOMAIN caps)
  BY <1>1, <1>3, SumOfNats
<1>5. SumFunctionOnSet(Credit, DOMAIN caps) \in Nat
  BY <1>1, <1>3, SumOfNats
<1> QED BY <1>1, <1>2, <1>3, <1>4, <1>5

\* What setting one cap does to the books.
LEMMA SetCap ==
    ASSUME CapsInv, NEW id \in ProviderCapIds, NEW cap \in ProviderCap,
           cap.snapshot <= cumulative_yield_per_share,
           caps' = WithCap(id, cap), UNCHANGED cumulative_yield_per_share
    PROVE  LET had == id \in DOMAIN caps
           IN  /\ DOMAIN caps' = DOMAIN caps \cup {id}
               /\ \A c \in DOMAIN caps' : caps'[c] = IF c = id THEN cap ELSE caps[c]
               /\ SumFunctionOnSet(SharesOf', DOMAIN caps')
                    = SumFunctionOnSet(SharesOf, DOMAIN caps) + cap.shares
                        - (IF had THEN caps[id].shares ELSE 0)
               /\ SumFunctionOnSet(Credit', DOMAIN caps')
                    = SumFunctionOnSet(Credit, DOMAIN caps) + CreditOf(cap)
                        - (IF had THEN CreditOf(caps[id]) ELSE 0)
<1>0. IsFiniteSet(DOMAIN caps)
  BY CapsFacts
<1>1. /\ DOMAIN caps' = DOMAIN caps \cup {id}
      /\ \A c \in DOMAIN caps' : caps'[c] = IF c = id THEN cap ELSE caps[c]
  BY DEF WithCap
<1>2. /\ SharesOf' = [c \in DOMAIN caps' |-> caps'[c].shares]
      /\ Credit' = [c \in DOMAIN caps' |-> CreditOf(caps'[c])]
  BY DEF SharesOf, Credit, CreditOf
<1>3. CreditOf(cap) \in Nat /\ cap.shares \in Nat
  BY EarnedYield DEF CapsInv, CapsTypes, ProviderCap, U64
<1>4. /\ \A c \in DOMAIN caps' : SharesOf'[c] = IF c = id THEN cap.shares ELSE SharesOf[c]
      /\ \A c \in DOMAIN caps' : Credit'[c] = IF c = id THEN CreditOf(cap) ELSE Credit[c]
  BY <1>1, <1>2, CapsFacts
<1>5. SumFunctionOnSet(SharesOf', DOMAIN caps')
        = SumFunctionOnSet(SharesOf, DOMAIN caps) + SharesOf'[id]
            - (IF id \in DOMAIN caps THEN SharesOf[id] ELSE 0)
  <2>1. /\ \A c \in DOMAIN caps : SharesOf[c] \in Int
        /\ \A c \in DOMAIN caps' : SharesOf'[c] \in Int
        /\ \A c \in DOMAIN caps \ {id} : SharesOf'[c] = SharesOf[c]
    BY <1>1, <1>3, <1>4, CapsFacts
  <2> QED BY <1>0, <1>1, <2>1, SumPut
<1>6. SumFunctionOnSet(Credit', DOMAIN caps')
        = SumFunctionOnSet(Credit, DOMAIN caps) + Credit'[id]
            - (IF id \in DOMAIN caps THEN Credit[id] ELSE 0)
  <2>1. /\ \A c \in DOMAIN caps : Credit[c] \in Int
        /\ \A c \in DOMAIN caps' : Credit'[c] \in Int
        /\ \A c \in DOMAIN caps \ {id} : Credit'[c] = Credit[c]
    BY <1>1, <1>3, <1>4, CapsFacts
  <2> QED BY <1>0, <1>1, <2>1, SumPut
<1>7. /\ SharesOf'[id] = cap.shares /\ Credit'[id] = CreditOf(cap)
      /\ id \in DOMAIN caps => SharesOf[id] = caps[id].shares /\ Credit[id] = CreditOf(caps[id])
  BY <1>1, <1>4, CapsFacts
<1> QED BY <1>1, <1>5, <1>6, <1>7

LEMMA SyncedFields ==
    ASSUME NEW cap \in ProviderCap
    PROVE  /\ sync_provider_yield(cap).shares = cap.shares
           /\ sync_provider_yield(cap).deposited_value = cap.deposited_value
<1> DEFINE y == provider_earned_yield(cap)
           now == cumulative_yield_per_share
           c1 == [cap EXCEPT !.earned_yield = y]
<1>1. c1 = [shares |-> cap.shares, deposited_value |-> cap.deposited_value,
            earned_yield |-> y, snapshot |-> cap.snapshot]
  <2> HIDE DEF y
  <2> QED BY DEF ProviderCap
<1>2. /\ [c1 EXCEPT !.snapshot = now].shares = cap.shares
      /\ [c1 EXCEPT !.snapshot = now].deposited_value = cap.deposited_value
  <2> HIDE DEF y, c1, now
  <2> QED BY <1>1
<1>3. sync_provider_yield(cap) = [c1 EXCEPT !.snapshot = now]
  BY Zenon DEF sync_provider_yield
<1> HIDE DEF c1, now
<1> QED BY <1>2, <1>3

\* Setting a cap keeps CapsInv when the shares outstanding change by what the cap's do
\* and the cap is credited nothing it was not.
LEMMA SetCapInv ==
    ASSUME CapsInv, NEW id \in ProviderCapIds, NEW cap \in ProviderCap,
           caps' = WithCap(id, cap), UNCHANGED cumulative_yield_per_share,
           total' \in [{"deposited", "withdrawn", "yield"} -> U64],
           total'["deposited"] >= total["deposited"], total'["yield"] = total["yield"],
           cap.snapshot <= cumulative_yield_per_share,
           cap.deposited_value <= total'["deposited"],
           IF id \in DOMAIN caps
           THEN CreditOf(cap) <= CreditOf(caps[id]) /\ UNCHANGED provider_count
           ELSE CreditOf(cap) = 0 /\ provider_count' = provider_count + 1,
           total_shares' \in U64, total_shares' > 0,
           total_shares' + (IF id \in DOMAIN caps THEN caps[id].shares ELSE 0)
             = LockedFirst + cap.shares
    PROVE  CapsInv'
<1> DEFINE sum == SumFunctionOnSet(SharesOf, DOMAIN caps)
           credit == SumFunctionOnSet(Credit, DOMAIN caps)
           held == IF id \in DOMAIN caps THEN caps[id].shares ELSE 0
           credited == IF id \in DOMAIN caps THEN CreditOf(caps[id]) ELSE 0
<1>1. /\ DOMAIN caps' = DOMAIN caps \cup {id}
      /\ \A c \in DOMAIN caps' : caps'[c] = IF c = id THEN cap ELSE caps[c]
      /\ SumFunctionOnSet(SharesOf', DOMAIN caps') = sum + cap.shares - held
      /\ SumFunctionOnSet(Credit', DOMAIN caps') = credit + CreditOf(cap) - credited
  BY SetCap
<1>2. /\ IsFiniteSet(DOMAIN caps)
      /\ sum \in Nat /\ credit \in Nat /\ held \in Nat /\ credited \in Nat
      /\ total_shares \in Nat /\ total["yield"] \in Nat /\ total["deposited"] \in Nat
  BY CapsFacts
<1>3. /\ CreditOf(cap) \in Nat /\ cap.shares \in Nat /\ total_shares' \in Nat
  BY EarnedYield DEF CapsInv, CapsTypes, ProviderCap, U64
<1>4. CapsTypes'
  BY <1>1 DEF CapsInv, CapsTypes, ProviderCap, U64
<1>5. ASSUME NEW c \in DOMAIN caps'
      PROVE  /\ caps'[c].snapshot <= cumulative_yield_per_share'
             /\ caps'[c].deposited_value <= total'["deposited"]
  <2>1. CASE c = id
    BY <1>1, <2>1
  <2>2. CASE c # id
    <3>1. c \in DOMAIN caps /\ caps'[c] = caps[c]
      BY <1>1, <2>2
    <3>2. CapBounds(caps[c]) /\ caps[c].deposited_value \in Nat
      BY <3>1, CapsFacts DEF CapsInv
    <3>3. total'["deposited"] \in Nat
      BY VaultConstants DEF U64
    <3> QED BY <1>2, <3>1, <3>2, <3>3 DEF CapBounds
  <2> QED BY <2>1, <2>2
<1>6. SharesAgree'
  <2>1. LockedFirst = sum + MINIMUM_LIQUIDITY
    <3>1. total_shares = sum + IF total_shares = 0 THEN 0 ELSE MINIMUM_LIQUIDITY
      BY DEF CapsInv, SharesAgree
    <3>2. total_shares = 0 => sum = 0
      BY <1>2, <3>1
    <3> HIDE DEF sum
    <3> QED BY <1>2, <3>1, <3>2, VaultConstants DEF LockedFirst
  <2>2. total_shares' = SumFunctionOnSet(SharesOf', DOMAIN caps') + MINIMUM_LIQUIDITY
    <3> HIDE DEF sum, held
    <3>1. total_shares' + held = LockedFirst + cap.shares
      BY DEF held
    <3> QED BY <1>1, <1>2, <1>3, <2>1, <3>1, VaultConstants
  <2>3. provider_count = Cardinality(DOMAIN caps)
    BY DEF CapsInv, SharesAgree
  <2>4. provider_count' = Cardinality(DOMAIN caps')
    <3>1. Cardinality(DOMAIN caps \cup {id})
            = IF id \in DOMAIN caps THEN Cardinality(DOMAIN caps) ELSE Cardinality(DOMAIN caps) + 1
      BY <1>2, FS_AddElement
    <3>2. Cardinality(DOMAIN caps') = Cardinality(DOMAIN caps \cup {id})
      BY <1>1, Zenon
    <3> QED BY <2>3, <3>1, <3>2
  <2> QED BY <2>2, <2>4, <1>3 DEF SharesAgree
<1>7. YieldCovered'
  <2>1. credit <= YIELD_PRECISION * total["yield"]
    BY DEF CapsInv, YieldCovered
  <2>2. CreditOf(cap) <= credited
    BY <1>3
  <2> HIDE DEF credit, credited
  <2>3. YIELD_PRECISION * total["yield"] \in Int
    BY <1>2, VaultConstants
  <2>4. SumFunctionOnSet(Credit', DOMAIN caps') <= YIELD_PRECISION * total["yield"]
    BY <1>1, <1>2, <1>3, <2>1, <2>2, <2>3
  <2>5. YIELD_PRECISION * total'["yield"] = YIELD_PRECISION * total["yield"]
    BY Zenon
  <2> QED BY <2>4, <2>5 DEF YieldCovered
<1> QED BY <1>4, <1>5, <1>6, <1>7 DEF CapsInv, CapBounds

LEMMA MintedFits ==
    ASSUME CapsInv, NEW amount \in Nat, NEW minted \in Nat, Mint(amount, minted)
    PROVE  /\ LockedFirst \in Nat /\ LockedFirst > 0
           /\ total_shares' = LockedFirst + minted
           /\ total_shares' \in U64 /\ total_shares' > 0
           /\ minted \in U64
           /\ total' \in [{"deposited", "withdrawn", "yield"} -> U64]
           /\ total'["deposited"] = total["deposited"] + amount
           /\ total["deposited"] \in Nat /\ total'["deposited"] \in U64
           /\ total'["yield"] = total["yield"]
           /\ UNCHANGED cumulative_yield_per_share
<1>1. /\ total_shares \in Nat /\ total["deposited"] \in Nat
      /\ total \in [{"deposited", "withdrawn", "yield"} -> U64]
  BY CapsFacts DEF CapsInv, CapsTypes
<1>2. LockedFirst \in Nat /\ LockedFirst > 0
  BY <1>1, VaultConstants DEF LockedFirst
<1>3. /\ LockedFirst + minted <= U64_MAX /\ total["deposited"] + amount <= U64_MAX
      /\ total_shares' = LockedFirst + minted
      /\ total' = [total EXCEPT !["deposited"] = @ + amount]
      /\ UNCHANGED cumulative_yield_per_share
  BY DEF Mint, Fits
<1>4. total["deposited"] + amount \in U64
  BY <1>1, <1>3, VaultConstants DEF U64
<1> QED BY <1>1, <1>2, <1>3, <1>4, VaultConstants DEF U64

LEMMA ProvideCaps ==
    ASSUME PoolInv, CapsInv, NEW id \in ProviderCapIds, NEW amount \in Amounts,
           provide(id, amount)
    PROVE  CapsInv'
<1> DEFINE minted == IF total_shares = 0 THEN amount - MINIMUM_LIQUIDITY ELSE SharesAt(amount)
           cap == [shares |-> minted, deposited_value |-> amount, earned_yield |-> 0,
                   snapshot |-> cumulative_yield_per_share]
<1>1. /\ id \notin DOMAIN caps /\ Mint(amount, minted)
      /\ caps' = WithCap(id, cap)
      /\ provider_count' = provider_count + 1
  BY DEF provide
<1>2. amount \in Nat /\ amount \in U64
  BY ConstantTypes, VaultAssumption
<1>3. minted \in Nat
  <2>1. CASE total_shares = 0
    <3>1. amount - MINIMUM_LIQUIDITY > 0
      BY <1>1, <2>1 DEF Mint
    <3> QED BY <1>2, <2>1, <3>1, VaultConstants
  <2>2. CASE total_shares # 0
    BY <1>2, <2>2, SharesAtBound DEF provide
  <2> QED BY <2>1, <2>2
<1> HIDE DEF minted
<1>4. /\ total_shares' = LockedFirst + minted
      /\ total_shares' \in U64 /\ total_shares' > 0 /\ minted \in U64 /\ LockedFirst \in Nat
      /\ total' \in [{"deposited", "withdrawn", "yield"} -> U64]
      /\ total'["deposited"] = total["deposited"] + amount
      /\ total["deposited"] \in Nat
      /\ total'["yield"] = total["yield"] /\ UNCHANGED cumulative_yield_per_share
  BY <1>1, <1>2, <1>3, MintedFits
<1>5. cumulative_yield_per_share \in U64 /\ 0 \in U64 /\ cumulative_yield_per_share \in Nat
  BY VaultConstants DEF CapsInv, CapsTypes, U64
<1>6. cap \in ProviderCap
  BY <1>2, <1>4, <1>5 DEF ProviderCap
<1>7. CreditOf(cap) = 0
  BY <1>3, <1>5, VaultConstants DEF CreditOf
<1>8. /\ cap.snapshot = cumulative_yield_per_share
      /\ cap.deposited_value = amount /\ cap.shares = minted
  OBVIOUS
<1> HIDE DEF cap
<1>9. cap.snapshot <= cumulative_yield_per_share /\ cap.deposited_value <= total'["deposited"]
      /\ total'["deposited"] >= total["deposited"]
  BY <1>2, <1>4, <1>5, <1>8
<1>10. total_shares' + 0 = LockedFirst + cap.shares
  BY <1>3, <1>4, <1>8
<1> QED BY <1>1, <1>4, <1>6, <1>7, <1>9, <1>10, SetCapInv

LEMMA AddCaps ==
    ASSUME PoolInv, CapsInv, NEW id \in DOMAIN caps, NEW amount \in Amounts,
           add_to_position(id, amount)
    PROVE  CapsInv'
<1> DEFINE minted == SharesAt(amount)
           n == caps[id].shares + minted
           v == caps[id].deposited_value + amount
           cap == Synced(caps[id], n, v)
<1>1. amount \in Nat
  BY ConstantTypes
<1>2. total_value > 0 /\ Mint(amount, minted) /\ UNCHANGED provider_count
  BY DEF add_to_position
<1>3. minted \in Nat
  BY <1>1, <1>2, SharesAtBound
<1>4. caps' = WithCap(id, cap)
  <2>1. caps[id] \in ProviderCap
    BY DEF CapsInv, CapsTypes
  <2>2. caps' = WithCap(id, [sync_provider_yield(caps[id]) EXCEPT
                               !.shares = @ + SharesAt(amount), !.deposited_value = @ + amount])
    BY DEF add_to_position
  <2>3. /\ sync_provider_yield(caps[id]).shares = caps[id].shares
        /\ sync_provider_yield(caps[id]).deposited_value = caps[id].deposited_value
    BY <2>1, SyncedFields
  <2>4. [sync_provider_yield(caps[id]) EXCEPT
           !.shares = @ + SharesAt(amount), !.deposited_value = @ + amount] = cap
    <3> DEFINE s == sync_provider_yield(caps[id])
               s1 == [s EXCEPT !.shares = n]
    <3> HIDE DEF s
    <3>1. s1.deposited_value = s.deposited_value
      BY DEF s
    <3> QED BY <2>3, <3>1 DEF s, Synced
  <2> QED BY <2>2, <2>4
<1> HIDE DEF minted
<1>5. /\ total_shares' = LockedFirst + minted
      /\ total_shares' \in U64 /\ total_shares' > 0 /\ LockedFirst \in Nat
      /\ total' \in [{"deposited", "withdrawn", "yield"} -> U64]
      /\ total'["deposited"] = total["deposited"] + amount
      /\ total["deposited"] \in Nat /\ total'["deposited"] \in U64
      /\ total'["yield"] = total["yield"] /\ UNCHANGED cumulative_yield_per_share
  BY <1>1, <1>2, <1>3, MintedFits
<1>6. /\ caps[id] \in ProviderCap /\ CapBounds(caps[id])
      /\ caps[id].shares \in Nat /\ caps[id].deposited_value \in Nat
      /\ cumulative_yield_per_share \in U64 /\ cumulative_yield_per_share \in Nat
      /\ id \in ProviderCapIds
  BY CapsFacts DEF CapsInv, CapsTypes
<1>7. caps[id].shares <= LockedFirst
  <2>1. /\ caps[id].shares <= SumFunctionOnSet(SharesOf, DOMAIN caps)
        /\ SumFunctionOnSet(SharesOf, DOMAIN caps) \in Nat /\ total_shares \in Nat
    BY CapsFacts
  <2>2. total_shares = SumFunctionOnSet(SharesOf, DOMAIN caps)
                         + IF total_shares = 0 THEN 0 ELSE MINIMUM_LIQUIDITY
    BY DEF CapsInv, SharesAgree
  <2> QED BY <1>6, <2>1, <2>2, VaultConstants DEF LockedFirst
<1>8. n \in U64
  BY <1>3, <1>5, <1>6, <1>7, VaultConstants DEF U64
<1>9. v \in U64 /\ v <= total'["deposited"] /\ total'["deposited"] >= total["deposited"]
  BY <1>1, <1>5, <1>6, VaultConstants DEF CapBounds, U64
<1> HIDE DEF n, v
<1>10. /\ cap \in ProviderCap /\ cap.shares = n /\ cap.deposited_value = v
       /\ cap.snapshot = cumulative_yield_per_share
       /\ CreditOf(cap) <= CreditOf(caps[id])
  BY <1>6, <1>8, <1>9, SyncedCap DEF CapBounds
<1> HIDE DEF cap
<1>11. total_shares' + caps[id].shares = LockedFirst + cap.shares
  BY <1>3, <1>5, <1>6, <1>10 DEF n
<1>12. cap.snapshot <= cumulative_yield_per_share
  BY <1>6, <1>10
<1> QED BY <1>2, <1>4, <1>5, <1>6, <1>9, <1>10, <1>11, <1>12, SetCapInv

LEMMA MulDivPart ==
    ASSUME NEW a \in Nat, NEW n \in Nat, NEW d \in Nat, d > 0, n <= d
    PROVE  mul_div_down(a, n, d) \in 0 .. a
<1> DEFINE q == mul_div_down(a, n, d)
<1>1. q \in Nat /\ q * d <= a * n
  BY MulDivDown
<1> HIDE DEF q
<1>2. a * n <= a * d
  OBVIOUS
<1>3. ASSUME q >= a + 1 PROVE FALSE
  <2>1. q * d >= (a + 1) * d
    BY <1>1, <1>3
  <2>2. (a + 1) * d = a * d + d
    OBVIOUS
  <2>3. q * d \in Int /\ a * n \in Int /\ a * d \in Int
    BY <1>1
  <2> QED BY <1>1, <1>2, <2>1, <2>2, <2>3
<1> QED BY <1>1, <1>3 DEF q

LEMMA RedeemCaps ==
    ASSUME PoolInv, CapsInv, NEW id \in DOMAIN caps, NEW shares, redeem(id, shares)
    PROVE  CapsInv'
<1> DEFINE held == caps[id].shares
           worth == caps[id].deposited_value
           amount == mul_div_down(shares, total_value, total_shares)
           reduction == mul_div_down(worth, shares, held)
           n == held - shares
           v == worth - reduction
           cap == Synced(caps[id], n, v)
<1>1. /\ caps[id] \in ProviderCap /\ CapBounds(caps[id])
      /\ held \in U64 /\ worth \in U64 /\ held \in Nat /\ worth \in Nat
      /\ cumulative_yield_per_share \in U64 /\ cumulative_yield_per_share \in Nat
      /\ total \in [{"deposited", "withdrawn", "yield"} -> U64]
      /\ total["deposited"] \in Nat
      /\ id \in ProviderCapIds
  <2>1. /\ caps[id] \in ProviderCap /\ CapBounds(caps[id]) /\ id \in ProviderCapIds
        /\ total \in [{"deposited", "withdrawn", "yield"} -> U64]
        /\ cumulative_yield_per_share \in U64
    BY DEF CapsInv, CapsTypes
  <2>2. held \in U64 /\ worth \in U64
    BY <2>1 DEF ProviderCap
  <2>3. total["deposited"] \in U64
    BY <2>1
  <2>4. U64 \subseteq Nat
    BY VaultConstants DEF U64
  <2> QED BY <2>1, <2>2, <2>3, <2>4
<1>2. /\ shares \in Nat /\ shares > 0 /\ shares <= held
      /\ total_shares' = total_shares - shares
      /\ UNCHANGED <<provider_count, cumulative_yield_per_share>>
  BY <1>1 DEF redeem
<1>3. reduction \in Nat /\ reduction <= worth
  <2> HIDE DEF held, worth
  <2>1. /\ worth \in Nat /\ shares \in Nat /\ held \in Nat /\ held > 0 /\ shares <= held
    BY <1>1, <1>2
  <2>2. mul_div_down(worth, shares, held) \in 0 .. worth
    BY <2>1, MulDivPart
  <2> QED BY <2>1, <2>2
<1>4. caps' = WithCap(id, cap)
  <2>1. caps' = WithCap(id, [sync_provider_yield(caps[id]) EXCEPT
                               !.shares = @ - shares, !.deposited_value = @ - reduction])
    BY DEF redeem
  <2>2. [sync_provider_yield(caps[id]) EXCEPT
           !.shares = @ - shares, !.deposited_value = @ - reduction] = cap
    <3> DEFINE s == sync_provider_yield(caps[id])
               s1 == [s EXCEPT !.shares = n]
    <3>1. s.shares = held /\ s.deposited_value = worth
      BY <1>1, SyncedFields
    <3> HIDE DEF s, reduction
    <3>2. s1.deposited_value = s.deposited_value
      BY DEF s
    <3> QED BY <3>1, <3>2 DEF s, Synced
  <2> QED BY <2>1, <2>2
<1>5. /\ total' = [total EXCEPT !["withdrawn"] = total["withdrawn"] + amount]
      /\ total["withdrawn"] + amount <= U64_MAX
  BY DEF redeem, Fits
<1>6. amount \in Nat
  <2>1. total_value \in Nat /\ total_shares \in Nat /\ total_shares > 0 /\ shares \in Nat
    BY <1>2 DEF redeem, PoolInv, total_value
  <2> HIDE DEF total_value
  <2> QED BY <2>1, MulDivDown
<1> HIDE DEF amount
<1>7. /\ total' \in [{"deposited", "withdrawn", "yield"} -> U64]
      /\ total'["deposited"] = total["deposited"] /\ total'["yield"] = total["yield"]
  <2>1. total["withdrawn"] + amount \in U64
    BY <1>1, <1>5, <1>6, VaultConstants DEF U64
  <2> QED BY <1>1, <1>5, <2>1
<1>8. n \in U64 /\ v \in U64 /\ v <= total'["deposited"] /\ total'["deposited"] >= total["deposited"]
  <2> HIDE DEF reduction
  <2>1. worth <= total["deposited"]
    BY <1>1 DEF CapBounds
  <2> QED BY <1>1, <1>2, <1>3, <1>7, <2>1, VaultConstants DEF U64
<1> HIDE DEF n, v
<1>9. /\ cap \in ProviderCap /\ cap.shares = n /\ cap.deposited_value = v
      /\ cap.snapshot = cumulative_yield_per_share
      /\ CreditOf(cap) <= CreditOf(caps[id])
  <2>1. caps[id].snapshot <= cumulative_yield_per_share
    BY <1>1 DEF CapBounds
  <2> HIDE DEF held, worth, reduction
  <2> QED BY <1>1, <1>8, <2>1, SyncedCap
<1> HIDE DEF cap
<1>10. /\ total_shares \in Nat /\ total_shares <= U64_MAX
       /\ total_shares >= held + MINIMUM_LIQUIDITY
  <2>1. /\ held <= SumFunctionOnSet(SharesOf, DOMAIN caps)
        /\ SumFunctionOnSet(SharesOf, DOMAIN caps) \in Nat
        /\ total_shares \in Nat /\ total_shares <= U64_MAX
    BY CapsFacts
  <2>2. total_shares = SumFunctionOnSet(SharesOf, DOMAIN caps)
                         + IF total_shares = 0 THEN 0 ELSE MINIMUM_LIQUIDITY
    BY DEF CapsInv, SharesAgree
  <2>3. total_shares # 0
    BY <1>1, <1>2, <2>1, <2>2
  <2> QED BY <1>1, <2>1, <2>2, <2>3, VaultConstants
<1>11. total_shares' \in U64 /\ total_shares' > 0 /\ LockedFirst = total_shares
  BY <1>1, <1>2, <1>10, VaultConstants DEF U64, LockedFirst
<1>12. total_shares' + caps[id].shares = LockedFirst + cap.shares
  BY <1>1, <1>2, <1>9, <1>10, <1>11 DEF n
<1>13. cap.snapshot <= cumulative_yield_per_share
  BY <1>1, <1>9
<1> QED BY <1>1, <1>2, <1>4, <1>7, <1>8, <1>9, <1>11, <1>12, <1>13, SetCapInv

\* A cap is destroyed with no shares left; the yield still reported on it goes with it.
LEMMA CloseCaps ==
    ASSUME CapsInv, NEW id \in DOMAIN caps, close_position(id)
    PROVE  CapsInv'
<1>1. /\ caps[id].shares = 0
      /\ DOMAIN caps' = DOMAIN caps \ {id}
      /\ \A c \in DOMAIN caps' : caps'[c] = caps[c]
      /\ provider_count' = provider_count - 1
      /\ UNCHANGED <<total_shares, total, cumulative_yield_per_share>>
  BY DEF close_position, Without
<1>2. /\ IsFiniteSet(DOMAIN caps)
      /\ \A c \in DOMAIN caps : SharesOf[c] \in Int /\ Credit[c] \in Int
      /\ SharesOf[id] = 0 /\ Credit[id] \in Nat
      /\ SumFunctionOnSet(SharesOf, DOMAIN caps) \in Nat
      /\ SumFunctionOnSet(Credit, DOMAIN caps) \in Nat
  BY <1>1, CapsFacts
<1>3. /\ \A c \in DOMAIN caps' : SharesOf'[c] = SharesOf[c] /\ Credit'[c] = Credit[c]
  BY <1>1 DEF SharesOf, Credit, CreditOf
<1>4. SumFunctionOnSet(SharesOf', DOMAIN caps')
        = SumFunctionOnSet(SharesOf, DOMAIN caps) - SharesOf[id]
  BY <1>1, <1>2, <1>3, SumDrop
<1>5. SumFunctionOnSet(Credit', DOMAIN caps')
        = SumFunctionOnSet(Credit, DOMAIN caps) - Credit[id]
  BY <1>1, <1>2, <1>3, SumDrop
<1>6. CapsTypes' /\ \A c \in DOMAIN caps' : /\ caps'[c].snapshot <= cumulative_yield_per_share'
                                            /\ caps'[c].deposited_value <= total'["deposited"]
  BY <1>1 DEF CapsInv, CapsTypes, CapBounds, ProviderCap, U64
<1>7. total_shares # 0
  BY <1>1 DEF CapsInv, SharesAgree
<1>8. SharesAgree'
  <2>1. total_shares' = SumFunctionOnSet(SharesOf', DOMAIN caps')
                          + IF total_shares' = 0 THEN 0 ELSE MINIMUM_LIQUIDITY
    BY <1>1, <1>2, <1>4 DEF CapsInv, SharesAgree
  <2>2. Cardinality(DOMAIN caps \ {id}) = Cardinality(DOMAIN caps) - 1
    BY <1>2, FS_RemoveElement
  <2>3. Cardinality(DOMAIN caps') = Cardinality(DOMAIN caps \ {id})
    BY <1>1, Zenon
  <2>4. provider_count' = Cardinality(DOMAIN caps')
    BY <1>1, <2>2, <2>3 DEF CapsInv, SharesAgree
  <2> QED BY <1>1, <1>7, <2>1, <2>4 DEF SharesAgree
<1>9. YieldCovered'
  <2>1. SumFunctionOnSet(Credit, DOMAIN caps) <= YIELD_PRECISION * total["yield"]
    BY DEF CapsInv, YieldCovered
  <2>2. YIELD_PRECISION * total["yield"] \in Int
    BY VaultConstants, CapsFacts
  <2>3. SumFunctionOnSet(Credit', DOMAIN caps') <= YIELD_PRECISION * total["yield"]
    BY <1>2, <1>5, <2>1, <2>2
  <2> QED BY <1>1, <2>3 DEF YieldCovered
<1> QED BY <1>6, <1>8, <1>9 DEF CapsInv, CapBounds

\* Revenue raises the accumulator by no more than the shares of the caps, and the
\* locked ones, divide it into.
LEMMA AccrueCaps ==
    ASSUME CapsInv, NEW yield \in Nat, accrue_yield(yield), UNCHANGED provider_vars
    PROVE  CapsInv'
<1> DEFINE C == cumulative_yield_per_share
           inc == yield_per_share_inc(yield)
           step == C' - C
           sum == SumFunctionOnSet(SharesOf, DOMAIN caps)
           scaled == [id \in DOMAIN caps |-> step * SharesOf[id]]
<1>1. /\ IsFiniteSet(DOMAIN caps)
      /\ \A id \in DOMAIN caps : /\ SharesOf[id] = caps[id].shares /\ caps[id].shares \in Nat
                                 /\ Credit[id] = CreditOf(caps[id]) /\ Credit[id] \in Nat
      /\ sum \in Nat
      /\ SumFunctionOnSet(Credit, DOMAIN caps) \in Nat
      /\ total_shares \in Nat /\ total["yield"] \in Nat /\ C \in Nat
  BY CapsFacts
<1>2. /\ total["yield"] + yield <= U64_MAX
      /\ total' = [total EXCEPT !["yield"] = @ + yield]
      /\ total_shares > 0 => C' = Min({C + inc, U64_MAX})
      /\ ~ (total_shares > 0) => C' = C
      /\ UNCHANGED <<caps, total_shares, provider_count>>
  BY DEF accrue_yield, Fits, sat_add, provider_vars
<1>3. /\ C <= U64_MAX /\ U64_MAX \in Nat
      /\ total \in [{"deposited", "withdrawn", "yield"} -> U64]
  BY VaultConstants DEF CapsInv, CapsTypes, U64
<1>4. total_shares > 0 => inc \in Nat /\ inc * total_shares <= yield * YIELD_PRECISION
  <2> SUFFICES ASSUME total_shares > 0
               PROVE  inc \in Nat /\ inc * total_shares <= yield * YIELD_PRECISION
    OBVIOUS
  <2> DEFINE q == mul_div_down(yield, YIELD_PRECISION, total_shares)
  <2>1. q \in Nat /\ q * total_shares <= yield * YIELD_PRECISION
    BY <1>1, VaultConstants, MulDivDown
  <2>2. inc = q \/ inc = 0
    BY DEF yield_per_share_inc, OrZero
  <2>3. 0 <= yield * YIELD_PRECISION
    BY VaultConstants
  <2> HIDE DEF q, inc
  <2> QED BY <1>1, <2>1, <2>2, <2>3
<1> HIDE DEF inc
<1>5. C' \in Nat /\ C' <= U64_MAX /\ C <= C' /\ (total_shares > 0 => C' - C <= inc)
  <2>1. CASE total_shares > 0
    <3> DEFINE a == C + inc
    <3>1. a \in Int /\ C <= a /\ inc \in Nat
      BY <1>1, <1>4, <2>1
    <3>2. C' = Min({a, U64_MAX})
      BY <1>2, <2>1
    <3> HIDE DEF a
    <3>3. Min({a, U64_MAX}) \in {a, U64_MAX} /\ Min({a, U64_MAX}) <= a /\ Min({a, U64_MAX}) <= U64_MAX
      BY <1>3, <3>1, MinOfTwo
    <3>4. C' \in Int /\ C' <= a /\ C' <= U64_MAX /\ C <= C'
      BY <1>1, <1>3, <3>1, <3>2, <3>3
    <3>5. C' <= C + inc
      BY <3>4 DEF a
    <3>6. C \in Nat
      BY <1>1
    <3>7. C' \in Nat
      BY <3>4, <3>6
    <3> DEFINE old == C
               new == C'
    <3>8. old \in Int /\ new \in Int /\ new <= old + inc
      BY <3>4, <3>5, <3>6
    <3> HIDE DEF old, new
    <3>9. new - old <= inc
      BY <3>1, <3>8
    <3>10. C' - C <= inc
      BY <3>9 DEF old, new
    <3> QED BY <3>4, <3>7, <3>10
  <2>2. CASE ~ (total_shares > 0)
    BY <1>1, <1>2, <1>3, <2>2
  <2> QED BY <2>1, <2>2
<1>6. step \in Nat
  <2> HIDE DEF sum, scaled
  <2>1. PICK x, y : x = C' /\ y = C
    OBVIOUS
  <2>2. x \in Nat /\ y \in Nat /\ y <= x
    BY <1>1, <1>5, <2>1
  <2>3. x - y \in Nat
    BY <2>2
  <2> QED BY <2>1, <2>3
<1>7. CapsTypes' /\ \A id \in DOMAIN caps' :
                       /\ caps'[id].snapshot <= C' /\ caps'[id].deposited_value <= total'["deposited"]
  <2>1. total["yield"] + yield \in U64 /\ C' \in U64
    BY <1>1, <1>2, <1>5, VaultConstants DEF U64
  <2>2. CapsTypes'
    BY <1>2, <1>3, <2>1 DEF CapsInv, CapsTypes, ProviderCap, U64
  <2>3. total'["deposited"] = total["deposited"]
    BY <1>2, <1>3
  <2>4. \A id \in DOMAIN caps : caps[id].snapshot \in Nat
    BY VaultConstants DEF CapsInv, CapsTypes, ProviderCap, U64
  <2>5. \A id \in DOMAIN caps : caps[id].snapshot <= C /\ caps[id].deposited_value <= total["deposited"]
    BY DEF CapsInv, CapBounds
  <2> QED BY <1>1, <1>2, <1>5, <2>2, <2>3, <2>4, <2>5
<1>8. SharesAgree'
  BY <1>2 DEF CapsInv, SharesAgree, SharesOf
<1>9. YieldCovered'
  <2>1. \A id \in DOMAIN caps : Credit'[id] = Credit[id] + scaled[id] /\ scaled[id] \in Int
    <3> TAKE id \in DOMAIN caps
    <3> DEFINE held == caps[id].shares
               due == C - caps[id].snapshot
               earned == YIELD_PRECISION * caps[id].earned_yield
    <3>1. /\ caps[id].snapshot \in Nat /\ caps[id].earned_yield \in Nat /\ held \in Nat
          /\ due \in Int /\ earned \in Int
      BY <1>1, VaultConstants DEF CapsInv, CapsTypes, ProviderCap, U64
    <3>2. Credit[id] = earned + due * held
      BY <1>1 DEF CreditOf
    <3>3. Credit'[id] = earned + (due + step) * held
      <4>1. C' - caps[id].snapshot = due + step
        BY <1>1, <1>5, <3>1
      <4>2. Credit'[id] = earned + (C' - caps[id].snapshot) * held
        BY <1>2 DEF Credit, CreditOf
      <4> QED BY <4>1, <4>2
    <3>4. scaled[id] = step * held
      BY <1>1
    <3> HIDE DEF held, due, earned, step, scaled
    <3>5. (due + step) * held = due * held + step * held
      BY <1>6, <3>1
    <3>6. due * held \in Int /\ step * held \in Int
      BY <1>6, <3>1
    <3> QED BY <3>1, <3>2, <3>3, <3>4, <3>5, <3>6
  <2>2. SumFunctionOnSet(scaled, DOMAIN caps) = step * sum
    <3>1. \A id \in DOMAIN caps : SharesOf[id] \in Int /\ scaled[id] = step * SharesOf[id]
      BY <1>1
    <3> HIDE DEF step, scaled
    <3> QED BY <1>1, <1>6, <3>1, SumScale
  <2> HIDE DEF scaled, step, sum
  <2>3. SumFunctionOnSet(Credit', DOMAIN caps)
          = SumFunctionOnSet(Credit, DOMAIN caps) + SumFunctionOnSet(scaled, DOMAIN caps)
    BY <1>1, <2>1, SumPlus
  <2>4. step * sum <= YIELD_PRECISION * yield
    <3>1. sum <= total_shares /\ (total_shares = 0 => sum = 0)
      BY <1>1, VaultConstants DEF CapsInv, SharesAgree, sum
    <3>2. 0 <= YIELD_PRECISION * yield
      BY VaultConstants
    <3>3. CASE total_shares = 0
      BY <1>6, <3>1, <3>2, <3>3
    <3>4. CASE total_shares # 0
      <4>1. inc \in Nat /\ step <= inc /\ inc * total_shares <= yield * YIELD_PRECISION
        BY <1>1, <1>4, <1>5, <3>4 DEF step
      <4>2. step * sum <= step * total_shares
        BY <1>1, <1>6, <3>1
      <4>3. step * total_shares <= inc * total_shares
        BY <1>1, <1>6, <4>1
      <4>4. /\ step * sum \in Int /\ step * total_shares \in Int /\ inc * total_shares \in Int
            /\ yield * YIELD_PRECISION = YIELD_PRECISION * yield /\ YIELD_PRECISION * yield \in Int
        BY <1>1, <1>6, <4>1, VaultConstants
      <4> QED BY <4>1, <4>2, <4>3, <4>4
    <3> QED BY <3>3, <3>4
  <2>5. YIELD_PRECISION * (total["yield"] + yield)
          = YIELD_PRECISION * total["yield"] + YIELD_PRECISION * yield
    BY <1>1, VaultConstants
  <2>6. total'["yield"] = total["yield"] + yield /\ caps' = caps
    BY <1>2, <1>3
  <2>7. /\ YIELD_PRECISION * total["yield"] \in Int /\ YIELD_PRECISION * yield \in Int
        /\ step * sum \in Int
    BY <1>1, <1>6, VaultConstants DEF sum
  <2>8. SumFunctionOnSet(Credit, DOMAIN caps) <= YIELD_PRECISION * total["yield"]
    BY DEF CapsInv, YieldCovered
  <2>9. SumFunctionOnSet(Credit', DOMAIN caps) <= YIELD_PRECISION * (total["yield"] + yield)
    BY <1>1, <2>2, <2>3, <2>4, <2>5, <2>7, <2>8
  <2> QED BY <2>6, <2>9 DEF YieldCovered
<1> QED BY <1>7, <1>8, <1>9 DEF CapsInv, CapBounds

LEMMA SameCaps ==
    ASSUME CapsInv, UNCHANGED <<provider_vars, total, cumulative_yield_per_share>>
    PROVE  CapsInv'
BY DEF CapsInv, CapsTypes, CapBounds, ProviderCap, U64, SharesAgree, SharesOf, YieldCovered,
       Credit, CreditOf, provider_vars

-----------------------------------------------------------------------------
(* The loans.  LentIsActive needs that an id is given to one position only *)
(* and that the principal of a position does not change.                   *)

LoanTypes ==
    /\ lent \in U64
    /\ next_lending_id \in 0 .. MaxLendings
    /\ DOMAIN lending_positions \subseteq 0 .. next_lending_id - 1
    /\ \A i \in DOMAIN lending_positions : lending_positions[i] \in LendingPosition

LoansInv == LoanTypes /\ LentIsActive

LEMMA LoansFacts ==
    ASSUME LoansInv
    PROVE  /\ MaxLendings \in Nat /\ next_lending_id \in Nat
           /\ next_lending_id \notin DOMAIN lending_positions
           /\ IsFiniteSet(ActiveLoans)
           /\ Cardinality(ActiveLoans) \in 0 .. next_lending_id
           /\ \A i \in DOMAIN lending_positions :
                /\ lending_positions[i].principal \in Nat
                /\ PrincipalOf[i] = lending_positions[i].principal
           /\ lent \in Nat
<1>1. MaxLendings \in Nat /\ next_lending_id \in Nat /\ lent \in Nat
  BY VaultAssumption DEF LoansInv, LoanTypes, U64
<1>2. next_lending_id \notin DOMAIN lending_positions
  BY <1>1 DEF LoansInv, LoanTypes
<1>3. /\ IsFiniteSet(0 .. next_lending_id - 1)
      /\ Cardinality(0 .. next_lending_id - 1) = next_lending_id
  BY <1>1, FS_Interval
<1>4. ActiveLoans \subseteq 0 .. next_lending_id - 1
  BY DEF LoansInv, LoanTypes, ActiveLoans
<1>5. IsFiniteSet(ActiveLoans) /\ Cardinality(ActiveLoans) <= next_lending_id
  BY <1>3, <1>4, FS_Subset
<1>6. Cardinality(ActiveLoans) \in Nat
  BY <1>5, FS_CardinalityType
<1>7. \A i \in DOMAIN lending_positions :
         /\ lending_positions[i].principal \in Nat
         /\ PrincipalOf[i] = lending_positions[i].principal
  BY VaultAssumption DEF LoansInv, LoanTypes, LendingPosition, U64, PrincipalOf
<1> QED BY <1>1, <1>2, <1>5, <1>6, <1>7

\* The buffer only lowers what may be out, so all that is out is a u64.
LEMMA DrawFits ==
    ASSUME PoolInv, buffer_bps \in 0 .. BPS, NEW amount \in Nat, Draw(amount)
    PROVE  deployed + lent + amount \in U64
<1>1. total_value \in Nat /\ total_value <= U64_MAX
  BY DEF Draw, Fits, total_value, PoolInv
<1>2. deployable \in 0 .. total_value
  <2>1. BPS \in Nat /\ BPS > 0 /\ BPS - buffer_bps \in Nat /\ BPS - buffer_bps <= BPS
    BY DEF BPS
  <2> QED BY <1>1, <2>1, MulDivPart DEF deployable
<1>3. deployed + lent + amount <= deployable
  BY DEF Draw, committed
<1> QED BY <1>1, <1>2, <1>3, VaultConstants DEF PoolInv, U64

LEMMA DrawLoans ==
    ASSUME PoolInv, LoansInv, buffer_bps \in 0 .. BPS,
           NEW amount \in Amounts, NEW venue \in Venues, draw_for_lending(amount, venue)
    PROVE  LoansInv'
<1> DEFINE n == next_lending_id
           loan == [venue |-> venue, principal |-> amount, status |-> "Active"]
<1>1. /\ n < MaxLendings /\ next_lending_id' = n + 1
      /\ DOMAIN lending_positions' = DOMAIN lending_positions \cup {n}
      /\ lending_positions'[n] = loan
      /\ \A i \in DOMAIN lending_positions' \ {n} : lending_positions'[i] = lending_positions[i]
      /\ lent' = lent + amount
      /\ active_lending_count' = active_lending_count + 1
  BY DEF draw_for_lending
<1>2. n \notin DOMAIN lending_positions
  BY LoansFacts
<1>3. amount \in Nat /\ amount \in U64
  BY ConstantTypes, VaultAssumption
<1>4. deployed + lent + amount \in U64
  BY <1>3, DrawFits DEF draw_for_lending
<1>5. lent' \in U64
  BY <1>1, <1>3, <1>4, VaultConstants DEF PoolInv, U64
<1>6. LoanTypes'
  <2>1. loan \in LendingPosition
    BY <1>3 DEF LendingPosition
  <2>2. \A i \in DOMAIN lending_positions' : lending_positions'[i] \in LendingPosition
    <3> HIDE DEF n, loan
    <3> QED BY <1>1, <2>1 DEF LoansInv, LoanTypes
  <2>3. next_lending_id' \in 0 .. MaxLendings
    BY <1>1, LoansFacts
  <2>4. DOMAIN lending_positions' \subseteq 0 .. next_lending_id' - 1
    BY <1>1, LoansFacts DEF LoansInv, LoanTypes
  <2> QED BY <1>5, <2>2, <2>3, <2>4 DEF LoanTypes, LendingPosition, U64
<1>7. /\ ActiveLoans' = ActiveLoans \cup {n} /\ n \notin ActiveLoans
  BY <1>1, <1>2 DEF ActiveLoans
<1>8. lent' = SumFunctionOnSet(PrincipalOf', ActiveLoans')
  <2>1. PrincipalOf'[n] = amount
    BY <1>1 DEF PrincipalOf
  <2>2. \A i \in ActiveLoans : PrincipalOf[i] \in Nat /\ PrincipalOf'[i] = PrincipalOf[i]
    BY <1>1, <1>2, LoansFacts DEF PrincipalOf, ActiveLoans
  <2>3. \A i \in ActiveLoans' : PrincipalOf'[i] \in Int
    BY <1>3, <1>7, <2>1, <2>2
  <2>4. SumFunctionOnSet(PrincipalOf', ActiveLoans')
          = SumFunctionOnSet(PrincipalOf, ActiveLoans) + PrincipalOf'[n]
              - (IF n \in ActiveLoans THEN PrincipalOf[n] ELSE 0)
    <3>1. /\ IsFiniteSet(ActiveLoans)
          /\ \A i \in ActiveLoans : PrincipalOf[i] \in Int
          /\ \A i \in ActiveLoans \ {n} : PrincipalOf'[i] = PrincipalOf[i]
      BY <2>2, LoansFacts
    <3> HIDE DEF n
    <3>2. PICK y : y = n
      OBVIOUS
    <3>3. SumFunctionOnSet(PrincipalOf', ActiveLoans')
            = SumFunctionOnSet(PrincipalOf, ActiveLoans) + PrincipalOf'[y]
                - (IF y \in ActiveLoans THEN PrincipalOf[y] ELSE 0)
      <4>1. /\ ActiveLoans' = ActiveLoans \cup {y}
            /\ \A i \in ActiveLoans \ {y} : PrincipalOf'[i] = PrincipalOf[i]
        BY <1>7, <3>1, <3>2
      <4> QED BY <2>3, <3>1, <4>1, SumPut
    <3> QED BY <3>2, <3>3
  <2>5. SumFunctionOnSet(PrincipalOf, ActiveLoans) = lent
    BY DEF LoansInv, LentIsActive
  <2> QED BY <1>1, <1>3, <1>7, <2>1, <2>4, <2>5, LoansFacts
<1>9. active_lending_count' = Cardinality(ActiveLoans')
  <2>1. Cardinality(ActiveLoans \cup {n}) = Cardinality(ActiveLoans) + 1
    BY <1>7, LoansFacts, FS_AddElement
  <2>2. Cardinality(ActiveLoans') = Cardinality(ActiveLoans \cup {n})
    BY <1>7, Zenon
  <2> QED BY <1>1, <2>1, <2>2 DEF LoansInv, LentIsActive
<1> QED BY <1>6, <1>8, <1>9 DEF LoansInv, LentIsActive

LEMMA CloseLoans ==
    ASSUME LoansInv, NEW i \in DOMAIN lending_positions,
           NEW s \in {"Returned", "Defaulted"}, CloseLoan(i, s)
    PROVE  LoansInv'
<1> DEFINE owed == lending_positions[i].principal
<1>1. /\ lending_positions[i].status = "Active" /\ owed <= lent /\ lent' = lent - owed
      /\ lending_positions' = [lending_positions EXCEPT ![i].status = s]
      /\ active_lending_count' = active_lending_count - 1
      /\ next_lending_id' = next_lending_id
  BY DEF CloseLoan
<1>2. /\ DOMAIN lending_positions' = DOMAIN lending_positions
      /\ \A j \in DOMAIN lending_positions :
            /\ lending_positions'[j] \in LendingPosition
            /\ lending_positions'[j].principal = lending_positions[j].principal
            /\ lending_positions'[j].status = IF j = i THEN s ELSE lending_positions[j].status
  <2>1. DOMAIN lending_positions' = DOMAIN lending_positions
    BY <1>1
  <2>2. \A j \in DOMAIN lending_positions : lending_positions[j] \in LendingPosition
    BY DEF LoansInv, LoanTypes
  <2>3. lending_positions'[i] = [lending_positions[i] EXCEPT !.status = s]
    BY <1>1
  <2>4. \A j \in DOMAIN lending_positions \ {i} : lending_positions'[j] = lending_positions[j]
    BY <1>1
  <2>5. /\ lending_positions'[i] \in LendingPosition
        /\ lending_positions'[i].principal = lending_positions[i].principal
        /\ lending_positions'[i].status = s
    BY <2>2, <2>3 DEF LendingPosition
  <2> QED BY <2>1, <2>2, <2>4, <2>5
<1>3. owed \in Nat /\ lent \in Nat /\ lent' \in U64
  BY <1>1, LoansFacts, VaultConstants DEF LoansInv, LoanTypes, U64
<1>4. LoanTypes'
  BY <1>1, <1>2, <1>3 DEF LoansInv, LoanTypes, LendingPosition, U64
<1>5. ActiveLoans' = ActiveLoans \ {i} /\ i \in ActiveLoans
  BY <1>1, <1>2 DEF ActiveLoans
<1>6. lent' = SumFunctionOnSet(PrincipalOf', ActiveLoans')
  <2>1. /\ \A j \in ActiveLoans : PrincipalOf[j] \in Int
        /\ \A j \in ActiveLoans' : PrincipalOf'[j] = PrincipalOf[j]
        /\ PrincipalOf[i] = owed
    BY <1>2, <1>5, LoansFacts DEF PrincipalOf, ActiveLoans
  <2>2. SumFunctionOnSet(PrincipalOf', ActiveLoans')
          = SumFunctionOnSet(PrincipalOf, ActiveLoans) - PrincipalOf[i]
    BY <1>5, <2>1, LoansFacts, SumDrop
  <2> QED BY <1>1, <2>1, <2>2 DEF LoansInv, LentIsActive
<1>7. active_lending_count' = Cardinality(ActiveLoans')
  <2>1. Cardinality(ActiveLoans \ {i}) = Cardinality(ActiveLoans) - 1
    BY <1>5, LoansFacts, FS_RemoveElement
  <2>2. Cardinality(ActiveLoans') = Cardinality(ActiveLoans \ {i})
    BY <1>5, Zenon
  <2> QED BY <1>1, <2>1, <2>2 DEF LoansInv, LentIsActive
<1> QED BY <1>4, <1>6, <1>7 DEF LoansInv, LentIsActive

\* Only a position that owes nothing any more is pruned.
LEMMA PruneLoans ==
    ASSUME LoansInv, NEW i \in DOMAIN lending_positions, prune_lending_position(i)
    PROVE  LoansInv'
<1>1. /\ DOMAIN lending_positions' = DOMAIN lending_positions \ {i}
      /\ \A j \in DOMAIN lending_positions' : lending_positions'[j] = lending_positions[j]
      /\ lending_positions[i].status # "Active"
      /\ UNCHANGED <<lent, next_lending_id, active_lending_count>>
  BY DEF prune_lending_position, Without
<1>2. LoanTypes'
  BY <1>1 DEF LoansInv, LoanTypes, LendingPosition, U64
<1>3. ActiveLoans' = ActiveLoans
  BY <1>1 DEF ActiveLoans
<1>4. SumFunctionOnSet(PrincipalOf', ActiveLoans) = SumFunctionOnSet(PrincipalOf, ActiveLoans)
  <2>1. \A j \in ActiveLoans : PrincipalOf'[j] = PrincipalOf[j]
    BY <1>1, <1>3 DEF PrincipalOf, ActiveLoans
  <2> QED BY <2>1, LoansFacts, SumSame
<1>5. SumFunctionOnSet(PrincipalOf', ActiveLoans') = SumFunctionOnSet(PrincipalOf', ActiveLoans)
  BY <1>3, Zenon
<1>6. Cardinality(ActiveLoans') = Cardinality(ActiveLoans)
  BY <1>3, Zenon
<1> QED BY <1>1, <1>2, <1>4, <1>5, <1>6 DEF LoansInv, LentIsActive

LEMMA SameLoans ==
    ASSUME LoansInv, UNCHANGED lending_vars
    PROVE  LoansInv'
BY DEF LoansInv, LoanTypes, LendingPosition, U64, LentIsActive, PrincipalOf, ActiveLoans,
       lending_vars

-----------------------------------------------------------------------------
(* Every step of the vault, on each part of the invariant. *)

MoneyTypes == funds \in U64 /\ deployed \in U64

ConfigTypes ==
    /\ paused \in BOOLEAN
    /\ buffer_bps \in 0 .. BPS
    /\ max_withdrawal \in U64
    /\ allowed_venues \subseteq Venues

ApyTypes ==
    /\ next_apy_seq \in 0 .. MaxApySeq
    /\ DOMAIN apy_history \subseteq 0 .. next_apy_seq - 1
    /\ current_apy_bps \in ApyInputs \cup {0}
    /\ \A s \in DOMAIN apy_history : apy_history[s] \in ApyInputs \cup {0}

VaultInv ==
    /\ PoolInv /\ CapsInv /\ LoansInv
    /\ MoneyTypes /\ ConfigTypes /\ ApyTypes /\ AccessTypeOK

\* What comes back of a principal: the books of the caps see the excess only.
LEMMA ProceedsCaps ==
    ASSUME CapsInv, NEW principal \in Nat, NEW returned \in Nat,
           Proceeds(principal, returned), UNCHANGED provider_vars
    PROVE  CapsInv'
<1>1. CASE returned >= principal
  <2>1. returned - principal \in Nat /\ accrue_yield(returned - principal)
    BY <1>1 DEF Proceeds
  <2> QED BY <2>1, AccrueCaps
<1>2. CASE ~ (returned >= principal)
  <2>1. UNCHANGED <<total, cumulative_yield_per_share>>
    BY <1>2 DEF Proceeds
  <2> QED BY <2>1, SameCaps
<1> QED BY <1>1, <1>2

LEMMA EveryStepOfTheCaps ==
    ASSUME PoolInv, CapsInv, [Next]_vars
    PROVE  CapsInv'
<1>1. ASSUME ProviderStep PROVE CapsInv'
  <2>1. DOMAIN caps \subseteq ProviderCapIds
    BY DEF CapsInv, CapsTypes
  <2> QED BY <1>1, <2>1, ProvideCaps, AddCaps, RedeemCaps, CloseCaps DEF ProviderStep
<1>2. ASSUME NEW cap, ExecutorStep(cap) PROVE CapsInv'
  <2>1. ASSUME NEW amount \in Amounts, deposit(amount) PROVE CapsInv'
    BY <2>1, AccrueCaps, ConstantTypes DEF deposit
  <2>2. ASSUME NEW amount \in Amounts, NEW notional \in Amounts,
               return_from_trading(notional, amount)
        PROVE  CapsInv'
    BY <2>2, ProceedsCaps, ConstantTypes DEF return_from_trading
  <2>3. ASSUME NEW amount \in Amounts, NEW i \in DOMAIN lending_positions,
               return_from_lending(i, amount)
        PROVE  CapsInv'
    BY <2>3, ProceedsCaps, ConstantTypes DEF return_from_lending, PoolInv
  <2>4. ASSUME NEW amount, NEW venue, NEW i, NEW apy,
               \/ withdraw_for_trading(amount) \/ draw_for_lending(amount, venue)
               \/ mark_lending_defaulted(i, amount) \/ set_apy(apy)
        PROVE  UNCHANGED <<provider_vars, total, cumulative_yield_per_share>>
    BY <2>4 DEF withdraw_for_trading, draw_for_lending, mark_lending_defaulted, set_apy
  <2> QED BY <1>2, <2>1, <2>2, <2>3, <2>4, SameCaps DEF ExecutorStep
<1>3. ASSUME NEW cap, AdminStep(cap) PROVE CapsInv'
  BY <1>3, SameCaps DEF AdminStep
<1>4. ASSUME UNCHANGED vault_vars PROVE CapsInv'
  BY <1>4, SameCaps DEF vault_vars
<1> QED BY <1>1, <1>2, <1>3, <1>4 DEF Next, VaultStep, vars

LEMMA EveryStepOfTheLoans ==
    ASSUME PoolInv, LoansInv, buffer_bps \in 0 .. BPS, [Next]_vars
    PROVE  LoansInv'
<1>1. ASSUME ProviderStep PROVE LoansInv'
  <2>1. UNCHANGED lending_vars
    BY <1>1 DEF ProviderStep, provide, add_to_position, redeem, close_position, Mint
  <2> QED BY <2>1, SameLoans
<1>2. ASSUME NEW cap, ExecutorStep(cap) PROVE LoansInv'
  <2>1. ASSUME NEW amount \in Amounts, NEW venue \in Venues, draw_for_lending(amount, venue)
        PROVE  LoansInv'
    BY <2>1, DrawLoans
  <2>2. ASSUME NEW amount, NEW i \in DOMAIN lending_positions,
               return_from_lending(i, amount) \/ mark_lending_defaulted(i, amount)
        PROVE  LoansInv'
    BY <2>2, CloseLoans DEF return_from_lending, mark_lending_defaulted
  <2>3. ASSUME NEW amount, NEW notional, NEW apy,
               \/ deposit(amount) \/ withdraw_for_trading(amount)
               \/ return_from_trading(notional, amount) \/ set_apy(apy)
        PROVE  LoansInv'
    BY <2>3, SameLoans DEF deposit, withdraw_for_trading, return_from_trading, set_apy
  <2> QED BY <1>2, <2>1, <2>2, <2>3 DEF ExecutorStep
<1>3. ASSUME NEW cap, AdminStep(cap) PROVE LoansInv'
  BY <1>3, PruneLoans, SameLoans DEF AdminStep, prune_apy_snapshot
<1>4. ASSUME UNCHANGED vault_vars PROVE LoansInv'
  BY <1>4, SameLoans DEF vault_vars
<1> QED BY <1>1, <1>2, <1>3, <1>4 DEF Next, VaultStep, vars

\* What is on hand and what is deployed stay u64s: every credit is checked, and a
\* deployment stays within the value.
LEMMA EveryStepOfTheMoney ==
    ASSUME PoolInv, CapsInv, MoneyTypes, buffer_bps \in 0 .. BPS, [Next]_vars
    PROVE  MoneyTypes'
<1>1. ASSUME NEW amount \in Nat, Receive(amount) PROVE funds' \in U64
  BY <1>1, VaultConstants DEF Receive, Fits, PoolInv, U64
<1>2. ASSUME NEW amount \in Nat, Draw(amount)
      PROVE  /\ funds' \in U64
             /\ deployed + amount \in U64
  <2>1. funds' \in U64
    BY <1>2, VaultConstants DEF Draw, MoneyTypes, U64
  <2>2. deployed + lent + amount \in U64
    BY <1>2, DrawFits
  <2> QED BY <2>1, <2>2, VaultConstants DEF PoolInv, U64
<1>3. ASSUME ProviderStep PROVE MoneyTypes'
  <2>1. ASSUME NEW amount \in Amounts, NEW minted, Mint(amount, minted)
        PROVE  MoneyTypes'
    BY <1>1, <2>1, ConstantTypes DEF Mint, MoneyTypes, U64
  <2>2. ASSUME NEW id, NEW n, redeem(id, n) PROVE MoneyTypes'
    <3>1. UNCHANGED deployed
      BY <2>2 DEF redeem
    <3>2. funds' \in U64
      <4>1. /\ n \in Nat /\ n > 0 /\ n <= total_shares
            /\ funds' = funds - mul_div_down(n, total_value, total_shares)
        BY <2>2 DEF redeem
      <4>2. mul_div_down(n, total_value, total_shares) \in Nat
        <5>1. total_shares \in Nat /\ total_shares > 0 /\ total_value \in Nat
          BY <4>1 DEF PoolInv, total_value
        <5> QED BY <4>1, <5>1, MulDivDown
      <4>3. funds' \in Nat
        BY <2>2, RedeemStep DEF PoolInv
      <4> QED BY <4>1, <4>2, <4>3, VaultConstants DEF MoneyTypes, U64
    <3> QED BY <3>1, <3>2 DEF MoneyTypes, U64
  <2>3. ASSUME NEW id, close_position(id) PROVE MoneyTypes'
    BY <2>3 DEF close_position, MoneyTypes, U64
  <2> QED BY <1>3, <2>1, <2>2, <2>3 DEF ProviderStep, provide, add_to_position
<1>4. ASSUME NEW cap, ExecutorStep(cap) PROVE MoneyTypes'
  <2>1. ASSUME NEW amount \in Amounts, NEW venue,
               withdraw_for_trading(amount) \/ draw_for_lending(amount, venue)
        PROVE  MoneyTypes'
    BY <1>2, <2>1, ConstantTypes DEF withdraw_for_trading, draw_for_lending, MoneyTypes, U64
  <2>2. ASSUME NEW amount \in Amounts, Receive(amount), UNCHANGED deployed
        PROVE  MoneyTypes'
    BY <1>1, <2>2, ConstantTypes DEF MoneyTypes, U64
  <2>3. ASSUME NEW amount \in Amounts, NEW notional \in Amounts,
               return_from_trading(notional, amount)
        PROVE  MoneyTypes'
    <3>1. funds' \in U64
      BY <1>1, <2>3, ConstantTypes DEF return_from_trading, Proceeds
    <3>2. deployed' \in U64
      BY <2>3, ConstantTypes, VaultConstants DEF return_from_trading, MoneyTypes, U64
    <3> QED BY <3>1, <3>2 DEF MoneyTypes, U64
  <2>4. ASSUME NEW amount, NEW i,
               \/ deposit(amount) \/ return_from_lending(i, amount)
               \/ mark_lending_defaulted(i, amount)
        PROVE  Receive(amount) /\ UNCHANGED deployed
    BY <2>4 DEF deposit, return_from_lending, mark_lending_defaulted, Proceeds
  <2>5. ASSUME NEW apy, set_apy(apy) PROVE MoneyTypes'
    BY <2>5 DEF set_apy, MoneyTypes, U64
  <2> QED BY <1>4, <2>1, <2>2, <2>3, <2>4, <2>5 DEF ExecutorStep
<1>5. ASSUME UNCHANGED <<funds, deployed>> PROVE MoneyTypes'
  BY <1>5 DEF MoneyTypes, U64
<1>6. ASSUME NEW cap, AdminStep(cap) PROVE UNCHANGED <<funds, deployed>>
  BY <1>6 DEF AdminStep
<1> QED BY <1>3, <1>4, <1>5, <1>6 DEF Next, VaultStep, vars, vault_vars

LEMMA EveryStepOfTheConfig ==
    ASSUME ConfigTypes, [Next]_vars
    PROVE  ConfigTypes'
<1>1. ASSUME UNCHANGED config_vars PROVE ConfigTypes'
  BY <1>1 DEF ConfigTypes, config_vars, U64
<1>2. ASSUME NEW cap, AdminStep(cap) PROVE ConfigTypes'
  <2>1. ASSUME NEW on \in BOOLEAN, set_paused(on) PROVE ConfigTypes'
    BY <2>1 DEF set_paused, ConfigTypes, U64
  <2>2. ASSUME NEW bps \in BufferInputs, set_buffer_bps(bps) PROVE ConfigTypes'
    BY <2>2, VaultAssumption DEF set_buffer_bps, ConfigTypes, U64
  <2>3. ASSUME NEW ceiling \in CeilingInputs, set_max_withdrawal(ceiling) PROVE ConfigTypes'
    BY <2>3, VaultAssumption DEF set_max_withdrawal, ConfigTypes, U64
  <2>4. ASSUME NEW venue \in Venues, NEW allowed, set_venue_allowed(venue, allowed)
        PROVE  ConfigTypes'
    BY <2>4 DEF set_venue_allowed, ConfigTypes, U64
  <2> QED BY <1>1, <1>2, <2>1, <2>2, <2>3, <2>4 DEF AdminStep
<1>3. ASSUME ProviderStep \/ \E cap \in ExecutorCapIds : ExecutorStep(cap)
      PROVE  UNCHANGED config_vars
  BY <1>3 DEF ProviderStep, provide, add_to_position, redeem, close_position, Mint,
       ExecutorStep, deposit, withdraw_for_trading, return_from_trading, draw_for_lending,
       return_from_lending, mark_lending_defaulted, set_apy
<1> QED BY <1>1, <1>2, <1>3 DEF Next, VaultStep, vars, vault_vars

LEMMA EveryStepOfTheRates ==
    ASSUME ApyTypes, [Next]_vars
    PROVE  ApyTypes'
<1>0. MaxApySeq \in Nat
  BY VaultAssumption
<1>1. ASSUME UNCHANGED apy_vars PROVE ApyTypes'
  BY <1>1 DEF ApyTypes, apy_vars
<1>2. ASSUME NEW apy \in ApyInputs, set_apy(apy) PROVE ApyTypes'
  <2>1. /\ next_apy_seq < MaxApySeq /\ next_apy_seq' = next_apy_seq + 1
        /\ current_apy_bps' = apy
        /\ DOMAIN apy_history' = DOMAIN apy_history \cup {next_apy_seq}
        /\ \A s \in DOMAIN apy_history' :
              apy_history'[s] = IF s = next_apy_seq THEN apy ELSE apy_history[s]
    BY <1>2 DEF set_apy
  <2> QED BY <1>0, <2>1 DEF ApyTypes
<1>3. ASSUME NEW s, prune_apy_snapshot(s) PROVE ApyTypes'
  BY <1>3 DEF prune_apy_snapshot, Without, ApyTypes
<1>4. ASSUME NEW cap, AdminStep(cap) PROVE ApyTypes'
  BY <1>1, <1>3, <1>4 DEF AdminStep, prune_lending_position
<1>5. ASSUME NEW cap, ExecutorStep(cap) PROVE ApyTypes'
  BY <1>1, <1>2, <1>5 DEF ExecutorStep, deposit, withdraw_for_trading, return_from_trading,
       draw_for_lending, return_from_lending, mark_lending_defaulted
<1>6. ASSUME ProviderStep PROVE UNCHANGED apy_vars
  BY <1>6 DEF ProviderStep, provide, add_to_position, redeem, close_position, Mint
<1> QED BY <1>1, <1>4, <1>5, <1>6 DEF Next, VaultStep, vars, vault_vars

LEMMA EveryStepOfTheRegistry ==
    ASSUME AccessTypeOK, [Next]_vars
    PROVE  AccessTypeOK'
<1>1. ASSUME UNCHANGED access_vars PROVE AccessTypeOK'
  BY <1>1 DEF access_vars, AccessTypeOK
<1>2. ASSUME VaultStep PROVE UNCHANGED access_vars
  BY <1>2 DEF VaultStep, ProviderStep, provide, add_to_position, redeem, close_position,
       Mint, ExecutorStep, AdminStep
<1> QED BY <1>1, <1>2, AccessStepType DEF Next, vars

-----------------------------------------------------------------------------
(* The invariant, and what follows from it. *)

LEMMA InitVault == Init => VaultInv
<1> SUFFICES ASSUME Init PROVE VaultInv
  OBVIOUS
<1>1. DOMAIN caps = {} /\ DOMAIN lending_positions = {} /\ DOMAIN apy_history = {}
  BY DEF Init
<1>2. caps = <<>> /\ total_shares = 0 /\ provider_count = 0 /\ total["yield"] = 0
      /\ lent = 0 /\ active_lending_count = 0
  BY DEF Init
<1>3. /\ SumFunctionOnSet(SharesOf, DOMAIN caps) = 0
      /\ SumFunctionOnSet(Credit, DOMAIN caps) = 0
  BY <1>1, SumOfNothing
<1>4. Cardinality(DOMAIN caps) = 0
  BY <1>1, FS_EmptySet, Zenon
<1>5. CapsInv
  <2>1. CapsTypes
    BY <1>1, VaultConstants DEF Init, CapsTypes, U64
  <2>2. YieldCovered
    BY <1>2, <1>3, VaultConstants DEF YieldCovered
  <2>3. SharesAgree
    BY <1>2, <1>3, <1>4 DEF SharesAgree
  <2> QED BY <1>1, <2>1, <2>2, <2>3 DEF CapsInv
<1>6. LoansInv
  <2>1. ActiveLoans = {}
    BY <1>1 DEF ActiveLoans
  <2>2. SumFunctionOnSet(PrincipalOf, ActiveLoans) = 0 /\ Cardinality(ActiveLoans) = 0
    BY <2>1, SumOfNothing, FS_EmptySet, Zenon
  <2>3. LoanTypes
    BY <1>1, VaultAssumption DEF Init, LoanTypes, U64
  <2> QED BY <1>2, <2>2, <2>3 DEF LoansInv, LentIsActive
<1>7. MoneyTypes /\ ConfigTypes /\ ApyTypes
  <2>1. MoneyTypes
    BY VaultConstants DEF Init, MoneyTypes, U64
  <2>2. ConfigTypes
    BY VaultAssumption DEF Init, ConfigTypes
  <2>3. ApyTypes
    <3>1. MaxApySeq \in Nat
      BY VaultAssumption
    <3>2. next_apy_seq = 0 /\ current_apy_bps = 0
      BY DEF Init
    <3> QED BY <1>1, <3>1, <3>2 DEF ApyTypes
  <2> QED BY <2>1, <2>2, <2>3
<1> QED BY <1>5, <1>6, <1>7, InitPool, AccessInitType DEF VaultInv, Init

LEMMA NextVault == VaultInv /\ [Next]_vars => VaultInv'
BY EveryStep, EveryStepOfTheCaps, EveryStepOfTheLoans, EveryStepOfTheMoney,
   EveryStepOfTheConfig, EveryStepOfTheRates, EveryStepOfTheRegistry
   DEF VaultInv, ConfigTypes

THEOREM VaultInvariant == Spec => []VaultInv
BY InitVault, NextVault, PTL DEF Spec

LEMMA VaultTypes == VaultInv => TypeOK
<1> SUFFICES ASSUME VaultInv PROVE TypeOK
  OBVIOUS
<1>1. provider_count \in 0 .. Cardinality(ProviderCapIds)
  <2>1. provider_count = Cardinality(DOMAIN caps) /\ DOMAIN caps \in SUBSET ProviderCapIds
    BY DEF VaultInv, CapsInv, CapsTypes, SharesAgree
  <2>2. /\ Cardinality(DOMAIN caps) \in Nat /\ Cardinality(ProviderCapIds) \in Nat
        /\ Cardinality(DOMAIN caps) <= Cardinality(ProviderCapIds)
    BY <2>1, VaultConstants, FS_Subset, FS_CardinalityType
  <2> QED BY <2>1, <2>2
<1>2. active_lending_count \in 0 .. next_lending_id
  BY LoansFacts DEF VaultInv, LoansInv, LentIsActive
<1>3. {funds, deployed, lent, total_shares, cumulative_yield_per_share} \subseteq U64
  BY DEF VaultInv, MoneyTypes, LoansInv, LoanTypes, CapsInv, CapsTypes
<1>4. {current_apy_bps} \cup {apy_history[s] : s \in DOMAIN apy_history}
        \subseteq ApyInputs \cup {0}
  BY DEF VaultInv, ApyTypes
<1>5. /\ DOMAIN caps \subseteq ProviderCapIds
      /\ \A id \in DOMAIN caps : caps[id] \in ProviderCap
      /\ total \in [{"deposited", "withdrawn", "yield"} -> U64]
  BY DEF VaultInv, CapsInv, CapsTypes
<1>6. /\ next_lending_id \in 0 .. MaxLendings
      /\ DOMAIN lending_positions \subseteq 0 .. next_lending_id - 1
      /\ \A i \in DOMAIN lending_positions : lending_positions[i] \in LendingPosition
  BY DEF VaultInv, LoansInv, LoanTypes
<1> QED BY <1>1, <1>2, <1>3, <1>4, <1>5, <1>6 DEF TypeOK, VaultInv, ConfigTypes, ApyTypes

\* The scaled yield of each cap is covered by its credit, and all credit by the yield.
LEMMA YieldFollows == CapsInv => YieldNotOverstated
<1> SUFFICES ASSUME CapsInv PROVE YieldNotOverstated
  OBVIOUS
<1> DEFINE P == YIELD_PRECISION
           scaled == [id \in DOMAIN caps |-> P * YieldOf[id]]
           sum == SumFunctionOnSet(YieldOf, DOMAIN caps)
<1>1. IsFiniteSet(DOMAIN caps) /\ total["yield"] \in Nat
  BY CapsFacts
<1>2. P \in Nat /\ P > 0
  BY VaultConstants
<1>3. ASSUME NEW id \in DOMAIN caps
      PROVE  /\ YieldOf[id] \in Int
             /\ scaled[id] = P * YieldOf[id] /\ scaled[id] \in Int
             /\ Credit[id] \in Int /\ scaled[id] <= Credit[id]
  <2>1. /\ caps[id] \in ProviderCap /\ cumulative_yield_per_share \in U64
        /\ caps[id].snapshot <= cumulative_yield_per_share
    BY DEF CapsInv, CapsTypes, CapBounds
  <2>2. /\ YieldOf[id] = provider_earned_yield(caps[id])
        /\ Credit[id] = CreditOf(caps[id])
    BY DEF YieldOf, Credit
  <2>3. YieldOf[id] \in Nat /\ P * YieldOf[id] <= Credit[id] /\ Credit[id] \in Nat
    BY <2>1, <2>2, EarnedYield, VaultConstants DEF U64
  <2>4. scaled[id] = P * YieldOf[id]
    OBVIOUS
  <2> HIDE DEF P, scaled
  <2>5. P * YieldOf[id] \in Int
    BY <1>2, <2>3
  <2> QED BY <2>3, <2>4, <2>5
<1> HIDE DEF P, scaled
<1>4. SumFunctionOnSet(scaled, DOMAIN caps) = P * sum
  BY <1>1, <1>2, <1>3, SumScale
<1>5. SumFunctionOnSet(scaled, DOMAIN caps) <= SumFunctionOnSet(Credit, DOMAIN caps)
  BY <1>1, <1>3, SumMonotone
<1>6. SumFunctionOnSet(Credit, DOMAIN caps) <= P * total["yield"]
  BY DEF CapsInv, YieldCovered, P
<1>7. sum \in Int /\ SumFunctionOnSet(Credit, DOMAIN caps) \in Int
  BY <1>1, <1>3, SumType
<1> HIDE DEF sum
<1>8. P * sum <= P * total["yield"]
  <2>1. P * sum \in Int /\ P * total["yield"] \in Int
    BY <1>1, <1>2, <1>7
  <2> QED BY <1>4, <1>5, <1>6, <1>7, <2>1
<1>9. sum <= total["yield"]
  BY <1>1, <1>2, <1>7, <1>8
<1> QED BY <1>9 DEF YieldNotOverstated, sum

\* Every quantity of the vault stays a u64, the loan and snapshot tables hold only ids
\* that were given out, and the providers counted are no more than there are caps.
THEOREM TypeCorrect == Spec => []TypeOK
BY VaultInvariant, VaultTypes, PTL

\* The shares outstanding are those of the caps and the locked ones, after any
\* deposits, additions, redemptions and closings, of any number of providers.
THEOREM SharesAgreeHolds == Spec => []SharesAgree
<1>1. VaultInv => SharesAgree
  BY DEF VaultInv, CapsInv
<1> QED BY <1>1, VaultInvariant, PTL

\* What is lent is what the active positions owe, however many were drawn, closed or
\* pruned before.
THEOREM LentIsActiveHolds == Spec => []LentIsActive
<1>1. VaultInv => LentIsActive
  BY DEF VaultInv, LoansInv
<1> QED BY <1>1, VaultInvariant, PTL

\* No yield is attributed twice: whatever the number of providers, and in whatever order
\* revenue comes in and shares are bought, sold and synced, the yield reported to the
\* providers together is no more than the yield earned.
THEOREM YieldNotOverstatedHolds == Spec => []YieldNotOverstated
<1>1. VaultInv => YieldNotOverstated
  BY YieldFollows DEF VaultInv
<1> QED BY <1>1, VaultInvariant, PTL

=============================================================================
