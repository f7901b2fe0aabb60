----------------------------- MODULE SharePool -----------------------------
(***************************************************************************)
(* What a pool of shares promises its providers, whatever the price of a   *)
(* share is computed from and whatever the invested capital does:          *)
(*                                                                         *)
(*  - shares are bought and redeemed at no better than their part of the   *)
(*    pool's value, so neither dilutes those who stay;                     *)
(*  - cash leaves only by a redemption or by being invested, and an        *)
(*    investment changes where the value is and not how much there is;     *)
(*  - a loss is a loss of invested capital.                                *)
(*                                                                         *)
(* Vault implements it, with the capital that is deployed or lent as the   *)
(* investment.                                                             *)
(***************************************************************************)
EXTENDS Integers

CONSTANT Locked    \* shares of the first purchase that nobody owns

VARIABLES on_hand, invested, shares

pool_vars == <<on_hand, invested, shares>>

PoolTypeOK == on_hand \in Nat /\ invested \in Nat /\ shares \in Nat

value == on_hand + invested

PoolInit == on_hand = 0 /\ invested = 0 /\ shares = 0

\* The first purchase, one share for each unit paid.
Seed ==
    /\ shares = 0
    /\ shares' = on_hand' - on_hand /\ shares' > Locked
    /\ UNCHANGED invested

Buy ==
    /\ shares > 0 /\ shares' > shares
    /\ (shares' - shares) * value <= (on_hand' - on_hand) * shares
    /\ UNCHANGED invested

Redeem ==
    /\ shares' \in 0 .. shares - 1
    /\ on_hand' \in 0 .. on_hand
    /\ (on_hand - on_hand') * shares <= (shares - shares') * value
    /\ UNCHANGED invested

Invest ==
    /\ on_hand' \in 0 .. on_hand - 1
    /\ value' = value
    /\ UNCHANGED shares

\* Invested capital comes back with a profit or a loss, or is written off; or
\* revenue comes in.
Settle ==
    /\ invested' \in 0 .. invested
    /\ on_hand' >= on_hand
    /\ UNCHANGED shares

PoolNext == Seed \/ Buy \/ Redeem \/ Invest \/ Settle

PoolSpec == PoolInit /\ [][PoolNext]_pool_vars

=============================================================================
