--------------------------- MODULE MCUserAccount ---------------------------
(***************************************************************************)
(* Two small instances of UserAccountHistory for TLC, in one run: a        *)
(* behaviour is about the risk gates, over days and retuned tiers, or      *)
(* about the record an account builds up.                                  *)
(***************************************************************************)
EXTENDS UserAccountHistory, TLC

CONSTANTS Basic, Pro    \* model values: the tiers of the instance

Row(fee, funded, target, dd, daily, scales, next) ==
    [eval_fee |-> fee, funded_size |-> funded, profit_target_bps |-> target,
     max_dd_bps |-> dd, daily_loss_bps |-> daily, user_split_bps |-> 8000,
     scales |-> scales, next_tier |-> next]

MCTiers == {Basic, Pro}

\* Basic: 20 funded, target 22, floor 16, daily limit 3; it scales to Pro.
\* Pro: so small (2 funded) that a 10% drawdown rounds down to nothing, and that a
\* loss of 3 is more than its whole equity.
MCSeedRows ==
    (Basic :> Row(1, 20, 1000, 2000, 1500, TRUE, Pro)) @@
    (Pro :> Row(1, 2, 5000, 1000, 1000, FALSE, Pro))

\* One retuned row, with a smaller account and twice the profit to make, and two
\* that are refused.
MCRowInputs ==
    { Row(2, 10, 4000, 3000, 3000, TRUE, Basic),
      Row(2, 0, 2000, 3000, 3000, TRUE, Basic),
      Row(2, 10, 2000, 3000, 4000, TRUE, Basic) }

-----------------------------------------------------------------------------
(* The scenes. *)

VARIABLE scene

mc_vars == <<hist_vars, scene>>

MCInit == HistoryInit /\ scene \in {"risk", "record"}

\* Three trades of any size over two days.  The rows are retuned before the first trade,
\* since only openings and promotions read them; a second suspension is one of the
\* gates; reputation moves only with a trade or a verdict, since no guard reads it.
RiskStep ==
    /\ AccountStep \/ ConfigStep \/ NextDay
    /\ (\E id \in DOMAIN accounts : accounts[id].trades # <<>>) => UNCHANGED rows
    /\ \A id \in DOMAIN accounts :
         LET a == accounts[id]
             b == accounts'[id]
         IN  /\ b.breach_count > a.breach_count => a.breach_count = 0 \/ b.trades # a.trades
             /\ b.months_closed = a.months_closed /\ b.total_paid = a.total_paid
             /\ b.reputation # a.reputation => <<b.status, b.trades>> # <<a.status, a.trades>>

\* One trade of 3, three months, payouts and reputation moves.
RecordStep ==
    /\ AccountStep
    /\ \A id \in DOMAIN accounts' :
         LET trades == accounts'[id].trades
         IN  Len(trades) <= 1 /\ \A i \in DOMAIN trades : trades[i].pnl = 3

\* Caps are never revoked here: a revocation only disables steps, so the states
\* of the accounts are those reached while the caps live.
MCNext ==
    /\ \/ scene = "risk" /\ RiskStep
       \/ scene = "record" /\ RecordStep
    /\ History
    /\ UNCHANGED scene

MCSpec == MCInit /\ [][MCNext]_mc_vars

=============================================================================
