------------------------ MODULE UserAccountHistory ------------------------
(***************************************************************************)
(* UserAccount with two history variables, which no step reads: what the   *)
(* daily baseline of an account should be, and what it had won before its  *)
(* current cycle.                                                          *)
(***************************************************************************)
EXTENDS UserAccount

VARIABLES
    day_open,     \* equity when the UTC day began, or when a cycle opened later on it
    won_before    \* gross profit when the current cycle opened

hist_vars == <<vars, day_open, won_before>>

CycleOpens(id) ==
    /\ accounts'[id].status = "Evaluating"
    /\ id \in DOMAIN accounts => accounts[id].status # "Evaluating"

HistoryInit ==
    /\ Init
    /\ day_open = [id \in AccountIds |-> 0]
    /\ won_before = [id \in AccountIds |-> 0]

History ==
    /\ day_open' = [id \in AccountIds |->
                      IF id \in DOMAIN accounts' /\ (CycleOpens(id) \/ now_day' # now_day)
                      THEN accounts'[id].equity
                      ELSE day_open[id]]
    /\ won_before' = [id \in AccountIds |->
                        IF id \in DOMAIN accounts' /\ CycleOpens(id)
                        THEN accounts'[id].gross_profit
                        ELSE won_before[id]]

HistoryNext == Next /\ History

HistorySpec == HistoryInit /\ [][HistoryNext]_hist_vars

\* log_trade rolls the baseline lazily, at the first trade of a day, and that is
\* as good as rolling it at midnight: an account last rolled today has the
\* baseline of the day's opening, and one that was not has not moved since.
DailyBaseline ==
    \A id \in DOMAIN accounts :
        LET a == accounts[id]
        IN  IF a.current_day = now_day
            THEN a.day_start_equity = day_open[id]
            ELSE a.equity = day_open[id]

\* A Passed account won its profit target within the cycle it passed in: nothing
\* won before a reactivation or a promotion counts (log_trade, pass_evaluation).
PassIsEarnedThisCycle ==
    \A id \in DOMAIN accounts :
        LET a == accounts[id]
        IN  a.status = "Passed" =>
              a.gross_profit - won_before[id] >= a.profit_target - a.funded_size

=============================================================================
