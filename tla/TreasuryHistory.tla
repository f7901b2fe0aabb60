-------------------------- MODULE TreasuryHistory --------------------------
(***************************************************************************)
(* Treasury with two history variables, which no step reads: since when    *)
(* each destination's pending change has been announced, and what each     *)
(* account was promised.                                                   *)
(***************************************************************************)
EXTENDS Treasury

VARIABLES
    announced_at,   \* since when pending_address[d] has been what it is
    accrued         \* what accrue_payout added to claimable[id], while Passed

hist_vars == <<vars, announced_at, accrued>>

HistoryInit ==
    /\ Init
    /\ announced_at = [d \in Destinations |-> 0]
    /\ accrued = [id \in AccountIds |-> 0]

History ==
    /\ announced_at' = [d \in Destinations |->
                          IF pending_address'[d] # pending_address[d]
                          THEN now_ms ELSE announced_at[d]]
    /\ accrued' = [id \in AccountIds |->
                     IF claimable'[id] > claimable[id] /\ status[id] = "Passed"
                     THEN accrued[id] + claimable'[id] - claimable[id]
                     ELSE accrued[id]]

HistoryNext == Next /\ History

HistorySpec == HistoryInit /\ [][HistoryNext]_hist_vars

\* A destination changes only to the address that was proposed for it, for the
\* whole of the timelock: no sequence of proposals, cancellations and proposals
\* over a pending one, by several admins, shortens the notice.
DestinationWasAnnounced ==
    [][\A d \in Destinations : address'[d] # address[d] =>
          /\ address'[d] = pending_address[d]
          /\ now_ms >= announced_at[d] + address_change_delay_ms]_hist_vars

\* An account has been paid, or may still claim, exactly what was accrued to it
\* while it was Passed: nothing is paid twice or lost over suspensions,
\* reactivations and repeated claims.
PaidWasAccrued ==
    \A id \in AccountIds : total_paid[id] + claimable[id] = accrued[id]

=============================================================================
