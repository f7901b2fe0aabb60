----------------------------- MODULE MCTreasury -----------------------------
(***************************************************************************)
(* Two small instances of TreasuryHistory for TLC, in one run: a behaviour *)
(* is about the books, or about the caps and the destinations.             *)
(***************************************************************************)
EXTENDS TreasuryHistory, TLC

CONSTANTS
    Basic, Pro,   \* model values: the tiers of the instance
    acc1, acc2    \* model values: two accounts

Accounts == Permutations({acc1, acc2})

Row(fee) ==
    [eval_fee |-> fee, funded_size |-> 1, profit_target_bps |-> 1000,
     max_dd_bps |-> 1000, daily_loss_bps |-> 500, user_split_bps |-> 8000,
     scales |-> FALSE, next_tier |-> Basic]

\* Basic opens for free, as set_tier_row allows.
MCSeedRows == [t \in Tiers |-> Row(IF t = Basic THEN 0 ELSE 1)]

MCRowInputs == {Row(1)}

VARIABLE scene

mc_vars == <<hist_vars, scene>>

MCInit == HistoryInit /\ scene \in {"books", "keys"}

\* The books do not depend on the caps and the destinations: the steps that move
\* money, accounts and published rows, by a cap that stays live.
MoneyStep ==
    /\ \/ \E cap \in AdminCapIds : AdminStep(cap)
       \/ \E cap \in ExecutorCapIds : ExecutorStep(cap)
       \/ \E id \in AccountIds : claim(id) \/ AccountStep(id)
    /\ UNCHANGED <<access_vars, rows, now_ms>>

BooksStep == MoneyStep \/ ConfigStep

\* The caps and the destinations, of which one has a change pending at a time, with one
\* unit that can be deposited in the fees pool and withdrawn.
KeysStep ==
    /\ TreasuryStep \/ AccessStep \/ Tick
    /\ UNCHANGED <<account_vars, claimable>>
    /\ Cardinality({d \in Destinations : pending_address'[d] # NO_PENDING}) <= 1
    /\ \A c \in Counters :
         total'[c] <= IF c \in {"fees_collected", "fees_withdrawn"} THEN 1 ELSE 0

MCNext ==
    /\ \/ scene = "books" /\ BooksStep
       \/ scene = "keys" /\ KeysStep
    /\ History
    /\ UNCHANGED scene

MCSpec == MCInit /\ [][MCNext]_mc_vars

=============================================================================
