# ultraprop: verification project

TLA+ models of the ultraprop prop-trading platform, the TLC runs that check them
on small instances, and theorems about them whose proofs TLAPS checks. Every
definition is a translation of the TypeScript and Move sources; `PROJECT.json`
maps each one to its lines.

A trader pays for an evaluation, trades on paper in the browser, and each closed
trade is logged on chain (Sui). The chain keeps the account: its equity, its
drawdown gates, its verdict. A treasury takes the fees and pays the profit
splits. A vault pools the capital of liquidity providers, which the firm trades and
lends. The firm's keys (capabilities) authorise every write.

## 1. The system

### Parts, their state and their operations

| part | source | state | operations that change it |
|---|---|---|---|
| capability layer | `contracts/sui/sources/access.move` | the revoked executor and admin caps; the caps themselves | mint, burn, revoke and restore of each kind of cap |
| tier configuration | `constraints.move` | one row of economics per tier | `set_tier_row` |
| evaluation accounts | `accounts.move` | per account: status, frozen terms, equity, daily baseline, counters, journal, reputation, streaks, total paid | `create_account`, `log_trade`, `pass_evaluation`, `fail_evaluation`, `register_dd_breach`, `reactivate`, `promote`, `close_month`, `adjust_reputation`, `record_payout` |
| treasury | `treasury.move` | three pools, lifetime counters, what each account may claim, pause flag, two withdrawal addresses with timelocked changes | fees in, withdrawals, accrual and claim of payouts, recovery, pause, address changes, `open_account` |
| liquidity vault | `vault.move` | cash on hand, capital in trades and at venues, shares and provider caps, lending positions, the yield accumulator, the advertised rate, pause, buffer, ceiling, allowed venues | `provide`, `add_to_position`, `redeem`, `close_position`, revenue, capital out to trades and venues and back, defaults, rates, settings, pruning |
| paper engine | `apps/trader/lib/sim/store.ts`, `packages/shared/sim-core` | the browser's vault: positions, trades, equity, the day's anchor, outcome; the page's prices | start, reset, orders, partial and whole closes, brackets, pause, resume, ticks that fund, liquidate and judge, page reloads |
| on-chain bridge | `apps/trader/lib/sui/useOnchainBridge.ts`, `bridge.ts` | which trades and outcomes were sent; what this session posted | a serial pump over the unsent work |
| app server | `apps/trader/app/api/**` | an in-process set of logged closes | open and close of positions, breach, pass, fail, reactivate |
| onboarding | `app/api/onboard`, `app/api/account`, `lib/sui/useOnboard.ts`, `onboard-server.ts`, `server.ts` | checkouts and requests under way; what the event index shows | pay, redeem an invite, create; verify, look up, open, mirror |
| usernames | `app/api/account/username`, `lib/sui/suins.ts` | claims under way, the rate window | look up, mint, confirm, record |
| ledger database | `packages/db/src/{schema,repo}.ts` | positions, idempotency keys, account mirror | inserts, atomic claims, updates |
| executor service | `services/executor/src` | latest marks; a pass over the open rows | settlement of crossed rows, accrual of funding, reconciliation of outcomes |
| market feed | `packages/shared/venues`, `services/api-gateway`, `lib/feed` | the venue socket and its retry timer; the latest marks and each stream's queue; the browser's stream and its two timers | reconnection, flush, fan-out, seeding of a new stream, heartbeats, silence detection, the trading halt |

### How they interact

    browser vault --store change--> bridge pump --HTTP--> app server routes
                                                            |         |
                                              ledger database      log_trade, ...
                                                            |         |
    market feed ------> executor pass (timer) --------------+-----> chain
    treasury.claim --(same transaction)--> user_account.record_payout
    every gated call --> AccessRegistry;  every opening --> TierConfig snapshot

The chain serialises its transactions: a contract function is one atomic step,
and its hazards are long sequences of legal calls, arithmetic at boundaries and
authority. Off chain nothing is atomic: the bridge, the route and the executor
each read, await, and write, and either of the last two may book a position.

### What is hard, and what would make each part correct

* **Capabilities.** Admins can revoke each other and themselves. *A firm with no
  live admin can never change anything again* (the code allows it to happen).
* **Accounts.** The risk gates are evaluated only inside `log_trade`, the daily
  baseline rolls lazily, and the record survives reactivations and promotions.
  *A tradeable account stands within its gates; the baseline is the day's
  opening equity; a pass is earned in the cycle it belongs to; terms change only
  by promotion; nothing reaches a stopped account.*
* **Treasury.** Several admins, executors and traders, a pause switch, lifetime
  counters that abort on overflow. *Each pool's flows balance; its books agree
  with the accounts'; a payout is claimed once; recovery cannot touch money that
  is owed; an address changes only after its whole notice.*
* **Vault.** Providers, trades, loans and defaults draw on the same cash, and every
  share is minted and redeemed by a rounded division of a value that moves.
  *No provider is diluted by another; cash leaves only to a redeemer or to be
  invested; capital at risk grows only in an unpaused vault, within the buffer and
  the ceiling; the share ledger and the loans add up; the yield reported to the
  providers was earned.*
* **Trade booking.** Two uncoordinated paths to `log_trade`, retries,
  duplicate requests, in-process state lost at a cold start, calls that commit
  although their answer is lost. *Each close and each row is booked once, the
  ledger says what was booked, every close is sent and every crossed row is
  settled in the end.*
* **Paper engine.** One tick may cross midnight and several funding hours,
  liquidate, fire brackets and judge; partial closes split fees and funding by
  rounded shares. *The equity is what the fills add up to; the verdict follows from
  the equity shown, measured from the day's opening; the executor would close
  nothing the browser keeps.*
* **Outcome bridge.** A verdict takes up to three requests, each of which may commit
  with its answer lost or be refused because an earlier one moved the account.
  *The evaluation does not stay open on chain.*
* **Onboarding.** The check for an existing account reads an index that lags.
  *From the moment the index shows an account, no path opens another.*
* **Usernames.** Claims race through a lagging node and are made again after they
  failed half-way. *A recorded name was held.*
* **Market feed.** Three hops, each with its own reconnection. *A browser that
  stays open comes back live, and never shows an older mark after a newer one.*

Each hazard is listed at its line under `hazards` in `PROJECT.json`, with the
properties that cover it or the reason that none does yet.

## 2. The modules

| module | models | remarks |
|---|---|---|
| `AccessControl` | `access.move` | caps are ids; any existing cap may be presented |
| `TierConfig` | `constraints.move`, `mul_div_down` | rows are seeded by `SeedRows`, any valid table |
| `AccountLifecycle` | the status machine of `accounts.move` | abstract: what the treasury may assume of an account |
| `UserAccount` | `accounts.move` | extends `TierConfig`; the whole record, one action per entry point |
| `Treasury` | `treasury.move` | extends `TierConfig`, composes with `AccountLifecycle` |
| `SharePool` | what `vault.move` promises its providers | abstract: cash, investments, shares |
| `Vault` | `vault.move` | extends `AccessControl`; implements `SharePool` |
| `TradeBooking` | bridge, open and close routes, `repo.ts`, `settlement.ts`, `log_trade` as a call | every `await` is a step boundary |
| `PaperEngine` | `sim/store.ts`, `sim-core/engine.ts`, `slippage.ts`, the page's prices | one evaluation; cash and prices are integers, rounded to cents where the code rounds |
| `OutcomeBridge` | `useOnchainBridge.ts` around a verdict, the close, breach, pass, fail and reactivate routes, the failed page | amounts are gains over the funded size, within one day |
| `Onboarding` | the checkout hooks, `onboard` and `account` routes, `onboard-server.ts`, `server.ts`, `ledger.ts` | the event index is a count that lags behind the chain |
| `Usernames` | the username route, `suins.ts`, `setUsername` | the node is an older copy of the registry |
| `MarketFeed` | `hyperliquid.ts`, the gateway, `venueFeed.ts`, `useVenueFeed` | one market; marks are numbered by age |
| `UserAccountHistory`, `TreasuryHistory`, `PaperEngineHistory` | the same specifications with history variables | for the properties that need a past; they add no guard |
| `MCUserAccount`, `MCTreasury`, `MCVault`, `MCTradeBooking`, `MCPaperEngine` | instances for TLC | constants and scenes |
| `MCServices`, `MCTreasuryPaper`, `MCVaultServices` | several instances in one run | one part moves in a behaviour, the others wait |
| `SumLemmas`, `AccessProofs` | lemmas on sums over finite sets and on the capabilities | see section 5 |
| `UserAccountProofs`, `TreasuryProofs`, `VaultProofs`, `BookingProofs`, `ServicesProofs`, `PaperEngineProofs` | theorems | see section 5 |

Composition: `TierConfig` extends `AccessControl`, `UserAccount` and `Treasury`
both extend `TierConfig`. `Treasury` does not contain the account record: its
actions call the actions of `AccountLifecycle` (`open_account` opens, `claim`
records a payout, `accrue_payout` reads the status), and `UserAccount` is shown
to implement `AccountLifecycle` by the refinement `L`: the status of a record,
or `"Absent"` before it exists, and its `total_paid`. So what is checked of the
treasury holds with real accounts, and neither module pays for the other's
state. `Vault` extends `AccessControl` and is shown to implement `SharePool`, with
the capital in trades or at venues (`deployed + lent`) as the investment: the
abstract pool says nothing of prices, buffers or loans, only that shares are
bought and redeemed at no better than their part of the value, that cash leaves
to a redeemer or to be invested, and that a loss is a loss of invested capital.

**State and actions.** A Move object's fields are the fields of a record
(`accounts[id]`) or functions (`balance[pool]`, `total[counter]`); an assertion
is a guard, and an aborted call is a step that does not happen. `log_trade` is
one action in four stages, in the source's order: `RollDay`, `ApplyPnl`,
`EnforceGates`, `Journal`. Checked u64 arithmetic is a guard of the form
`x + y <= U64_MAX`; `sub_floor` and the reputation clamp are modelled as they
are computed. In `Vault` the two draws share `Draw`, the two returns
`Proceeds`, the two ends of a loan `CloseLoan`; the total value and the share
price that an event carries are computed after the change and abort the call when
they overflow, so they are guards on the next state (`share_price_fits'`). Yield
saturates and never aborts. In `TradeBooking` a request is a handler with a program counter
(`claim`, `verify`, `lookup`, `log`, `close_row`, `complete`), the executor is
`pass` (the rows its pass read) and `booking` (the row it claimed and how far it
got), and `on_chain` is the sequence of `log_trade` calls that committed.

In `PaperEngine` every operation of the store that ends in a recompute is one
action, since the store is synchronous: `recompute` rolls the day, funds, marks,
liquidates, fires brackets and judges, in the source's order. `closePosition` takes
any part of a position; `page_reloads` keeps the vault and forgets the prices.
`OutcomeBridge` has one pump, which awaits one request at a time, and requests that
live on when the page that sent them is gone; `Answer` says what becomes of the
answer. `Onboarding` and `Usernames` are requests with a program counter, as in
`TradeBooking`. In `MarketFeed` the adapter is `phase` and its retry timer, with
what the timer will do (`timer_due`) apart from the handle that says one is set;
the gateway is a queue per stream; the browser is its stream, its two timers and
the halt.

**Abstractions.** Object ids and addresses are values of small sets. Journal
entries keep what the properties read. In `Vault` the slippage bounds a caller
gives, the ceiling on rates and the maturity of a loan are left out (they can only
make a call abort), and so are recorded times and protocol names; a provider cap's
id may be used again once its position is closed. In `TradeBooking` prices, fees, funding
and profit are left out (a position is a size, a mark has crossed its exit
condition or not), and so are the steps that follow a close when the account
breaches, passes or fails, which are `OutcomeBridge`'s. `PaperEngine` counts
money in grains, `CENT` of them to a cent, and rounds to cents what the code rounds
(`round2` and `toFixed(2)`: the pnl of a position and of a close, a close trade's total,
funding, equity, and the liquidation price the browser keeps, but not the executor's).
It holds a position in base units, so that its size needs no rounding of its own, keeps
one price per market for mid, mark and oracle, and leaves out the equity curve and what is
only displayed. `OutcomeBridge` has the close route in one step and no executor.
`Onboarding` leaves out the signing of the payment, `Usernames` the rules for
labels. The browser is one tab; its persistence is taken to be atomic.

## 3. The runs

| run | instance | shows |
|---|---|---|
| `account` | one account, two tiers (one of dust), 3 trades, 2 days, months, payouts, repriced tier | `TypeOK`, `RiskGate`, `PassIsEarnedThisCycle`, `DailyBaseline`, `JournalAgrees`, `StreaksAgree`, `TermsAreFrozen`, `StoppedAccountIsFrozen`, `Lifecycle` |
| `treasury_paper` | two accounts, amounts and counters up to 2, two admin caps, two addresses and a timelock; one evaluation with two markets and three trades | `TypeOK`, `PoolsBalance`, `BooksAgree`, `PaidWasAccrued`, `OwedStaysCovered`, `DestinationWasAnnounced`, `LockoutIsPermanent`; `PaperTypeOK`, `BooksReconcile`, `OutcomeMatchesEquity`, `ExecutorIsNoStricter`, `DailyAnchor` |
| `vault_services` | two providers or two loans; one position with two failures; one trader with two requests at once; two traders who want one name | `TypeOK`, `SharesAgree`, `LentIsActive`, `YieldNotOverstated`, `ExposureIsGated`, `ImplementsSharePool`; `KeyBooksOnce`, `RowBooksOnce`, `LedgerIsBooked`, `ClosedRowsStay`; `KnownTraderIsNotReopened`; `NameWasHeld` |
| `services_liveness` | one position closed in two parts; a feed with two streams; an evaluation with two closes and a re-entry; one failure | `BookingTypeOK`, `CrossedRowIsSettled`, `EveryCloseIsSent`; `PricesNeverGoBack`, `BrowserRecovers`; `OutcomeReachesChain` |
| `booked_twice`, `close_lost`, `row_twice`, `partial_close` | one position, 0 or 1 failures | counterexamples, section 4 |
| `feed_stuck`, `pass_stuck` | the feed alone; the outcome bridge alone, with no failure | counterexamples under fairness, section 4 |
| `paper_synthetic`, `paper_verdict` | the paper engine alone | counterexamples, section 4 |

The last three passing runs put several components side by side. They share no
variable: what joins them is the trader, whose steps the models leave free.
Interleaving their steps would multiply states and show nothing, so each behaviour
starts in one scene and moves one component, and a property of a component that
waits holds trivially there and is tested where it moves.

### Bounds, and why they are enough

* `account`, scene `risk`: `MaxTrades = 3`, `MaxDay = 1`, `MaxBreaches = 2`. A trade to
  reach the target or a gate, one on the next day, one after a reactivation or
  promotion. The rows put every boundary within reach of pnls 0, 2 and 3: the
  floor, the daily limit and the target are each met exactly and passed. Rows are retuned
  before the first trade, and the second suspension is one of the gates. The
  `Pro` tier is so small that its drawdown rounds down to nothing, and that a loss of 3
  saturates its equity at zero. Scene `record`:
  months 1, 2 and 4 with a gap, reputation from 0 to a scale of 4, payouts that
  reach `U64_MAX = 26` in three. Caps are not revoked in this instance:
  a revocation only disables steps. The proofs of section 5 assume neither.
* `treasury_paper`, the treasury: in scene `books` `U64_MAX = 2`, so every counter and
  pool reaches its limit and overflows; two accounts, so that one can be paid from
  what another is owed; no constant tells them apart, so they are symmetric. In scene `keys` `MaxTime = 3` over a delay of 2: a change
  confirmed at once, at the end of its notice, and one replaced while it waits. One
  destination has a change pending at a time: they share the admins, no state. Two
  admin caps are enough for mutual revocation, restoration and lockout.
* `treasury_paper`, the paper engine: 8 grains to a cent, so that amounts
  are rounded up, down and from the half; a start of 92 cents, limits of 30 (drawdown), 22.5 (a
  day) and 20 (target), prices of 161, 200 and 260 grains of which the first and the last
  are no whole cents, three orders (a cross long that can be
  liquidated, an isolated short with a take profit, a short in a market that refuses
  cross margin, with a stop loss), `MaxIntents = 3`, two days of two funding
  intervals. Every rule can be broken, two positions can be liquidated together,
  brackets gap, a mark comes to lie between the browser's liquidation price and the
  executor's, and a funding that is no multiple of the units is split by partial
  closes. Scene `book`
  is about up to three opens and closes, whole or of one unit, with the feed up; scene `brackets` about the brackets of one
  position at a time, with edits, deadlines, silent feeds and pauses.
* `vault_services`, the vault: `U64_MAX = 5` with amounts up to 3, so funds, shares and
  lifetime counters overflow and the accumulator saturates; `MINIMUM_LIQUIDITY = 1`
  and `YIELD_PRECISION = 2`, so shares, prices and yield are rounded at nearly every
  step; a buffer of half and of none, a ceiling of none and of 1. In `shares` two
  providers come and go while trades gain and lose and revenue comes in. In
  `capital` one provider deposits once and may redeem one unit, while the firm
  trades, draws two loans, has them returned or defaulted and pruned, and retunes
  the vault. In `rates` the advertised rate changes. What the scenes leave out
  together is two providers with loans, which share no state but the value. The
  provider ids are symmetric: no constant, property or guard tells them apart, and
  none of the run's properties is a liveness property.
* Booking: `MaxFaults` bounds what may go wrong in one behaviour (a call that
  fails, a connection lost, a reload, a cold start, an executor restart, a request
  handled without the database): two in
  `vault_services`, where the position closes whole and three requests overlap; one
  in `services_liveness`, where `Size = 2` is the least that closes in parts. A close
  refused because its exit is too far from the mark (`exit_too_far`) is no fault, and any
  request may be answered so: the mark moves by itself. One
  position: the route and the executor share state only within a position, and the
  pump and the pass treat positions alike.
* Onboarding: one trader, two requests at once, one payment, one retuned fee.
  Traders share only the firm's coins. Usernames: two traders, one name, two claims
  at once, one transfer or expiry.
* Feed: two streams, so that the old one outlives a reconnect; two marks, so that an
  older one can arrive after a newer; queues of two.
* Outcome: gains 2, 1, -1, -2, -3 with a target of 2, a daily limit of 2 and a
  drawdown of 3, so every verdict can be reached on an open gain, by a close, or by
  two; two closes, two cycles, two requests in flight, one failure. A second
  failure only repeats the first: each request is retried from what was recorded.
* `CHECK_DEADLOCK FALSE` in every run: the bounds stop the clock, the journal or
  the position, and the real system may also come to rest with nothing to do.

### Fairness

Only `services_liveness`, `feed_stuck` and `pass_stuck` assume any.

* `BookingFairness`. `WF(PumpStep)`: the bridge's pump is scheduled by every change
  of the browser's store, which each price tick makes while a browser is open.
  `WF(SettlementStep)`: the executor runs a pass from a timer, whatever the last one
  did. `WF(HandlerStep(h))`: a request that was started runs on. Nothing is assumed of
  the trader, the market or failures. `CrossedRowIsSettled` is for a row that *stays*
  crossed: a mark that comes back between two passes leaves the row open, which is
  what the code does. It uses only the executor's fairness in its argument, so no
  browser need be open.
* `FeedFairness`. Weak for the timers (`retry_fires`, `silence_fires`, the heartbeat
  `ping`, the adapter's `connect`), for the delivery of a queued batch (`marks`) and
  for noticing that a client left (`unsubscribe`): each is due once and stays due.
  Strong for what may fail and is tried again (`listMarkets_answers`,
  `socket_opens`, `subscribe`): of the attempts made over and over, one succeeds.
  Nothing says that the venue moves or that a connection lasts, so
  `BrowserRecovers` is a recurrence and not a state that is kept.
* `OutcomeFairness`. Weak for the pump, for the routes and their answers, and for
  `opens_cockpit`: a trader with an outstanding verdict comes back some day. Failures
  are bounded by `MaxLapses`.

## 4. Where the code and its comments disagree

Each has a run with one property, which TLC finds violated.

1. `booked_twice`, no failure needed. The executor's README and a comment in
   `settlement.ts` say that claiming the ledger row keeps the manual close and
   the loop from double-booking. The route calls `log_trade` *before* it closes
   the row, without regard to whether that update found the row open, and when
   no open row is found it books the close anyway. The claim protects the
   executor from itself (`RowBooksOnce`) and not from the route.
2. `close_lost`, one failure or refusal. The idempotency key is claimed before the mark is
   fetched and the trade is logged, and kept when either fails or the exit is refused for
   being too far from the mark. The retry is
   answered as a duplicate, which the bridge records as sent.
3. `row_twice`, one reload. The open route is documented as idempotent on
   `(accountId, clientTradeId)`. It looks for an *open* row and inserts several
   awaits later, with no unique index.
4. `partial_close`, no failure. A partial close books and closes the whole
   ledger row, while `trades/close` documents its size as the closed notional.
5. `feed_stuck`, one failed fetch. `hyperliquid.ts` says of `subscribeMarks` that it
   reconnects with backoff on a drop. When the catalog cannot be fetched,
   `connect` sets `reconnectTimer` and the callback does not clear it; the retry may
   well connect, but the next drop finds the timer "set" and schedules nothing. The
   executor then holds its last marks until it is restarted, the gateway until its
   last client leaves, and its heartbeats keep those clients from noticing.
6. `pass_stuck`, no failure. The paper engine passes on marked equity, then refuses
   to close (`status` is not `active`). The chain has the closed trades only,
   `pass_evaluation` asserts its own equity, and the bridge retries for ever.
   `OutcomeReachesChain` is what remains true: a verdict whose gains the chain has
   does arrive.
7. `paper_synthetic`, one reload. The cohort page says that every trade is evaluated
   against live prices. The price query is seeded with constants of the source, and
   a page ticks its stored vault and fills orders on them until the first batch.
8. `paper_verdict`, no failure. The rules page says that the daily limit resets at
   00:00 UTC and does not roll over. The executor judges with the starting equity
   as the day's anchor (a comment calls this simplified), and fails on chain an
   evaluation whose losses were each within their day's limit.

The passing properties of booking are what remains true with these: each path,
taken by itself, books once. Seen on the way, and not stated as a property because
no text promises otherwise: a pause closes what has a price and leaves the rest open
in a paused evaluation (`pauseEvaluation`); a second cycle never sends its verdict,
because the bridge's record of the first is kept (`resets_evaluation`); two requests
that both come before the index shows an account open two (`find_existing_account`);
a tier with a zero fee can be opened and never paid for.

`EveryCloseIsSent` is about a database that is out for a while, and counts each request
handled without it as a fault. Where none is configured, no key is claimed, and a close
whose exit has drifted from the mark is refused with a 400 at every retry: it, and the
closes behind it in the pump, wait for as long as the mark stays away.

`engine.ts:21-22` says that the live overlay and the settlement "never disagree on a
number", and `settlement.ts:57-58` that the settled equity and the overlay never do. About
liquidations they do, in two ways, and `ExecutorIsNoStricter` states what remains true.

* The browser keeps its liquidation price rounded to cents (`store.ts:229`) and compares the
  mark with that (`store.ts:237-240`); the executor compares with the exact price
  (`settlement.ts:229-243`). A mark within half a cent of the price may lie on either side.
  In the catalog's sub-dollar markets that is no detail: of a long whose exact price is
  0.2249 the browser keeps 0.22, and a mark of 0.2245 closes it in the executor only. A price
  below half a cent becomes 0.00, at which the browser never liquidates. The run
  `treasury_paper` reaches such marks: without the exception `HalfACentFrom`, TLC finds
  `ExecutorIsNoStricter` violated.
* The browser subtracts the maintenance margin of every open position from the equity
  behind a cross position, the executor that position's own. With less behind it a
  position is liquidated sooner, which is stricter, until a short is so far under water that
  the browser's price is no longer positive: then the browser liquidates nothing
  (`isLiquidated`), while the executor's price may be positive and crossed. The evaluation can
  survive it, if a stop loss of another position fills at its own price across a gap. This
  exception, `attachLiquidation(...) <= 0`, came out of the proof: no state of the run needs it.

## 5. The proofs

All of them are for any values of the constants that satisfy the named
assumptions: `CapAssumption` (the first caps are cap ids), `TierAssumption`
(the seeded rows pass `set_tier_row`'s checks), `AccountAssumption` (inputs are
u64, the reputation constants natural and the initial one on the scale),
`TreasuryAssumption` (amounts are u64, 0x0 is not an address, accounts are finitely
many), `VaultAssumption` (amounts and ceilings are u64, buffers are bps, the scales are
positive, caps are finitely many), `BookingAssumption` (positions are finitely many,
bounds are natural), `OnboardAssumption`, `UsernameAssumption` and `FeedAssumption`
(bounds are natural, fees are too, the first fee is one of them) and
`EngineAssumption` (prices and limits are positive, rates are integers, every price
exceeds the largest impact of a fill: `simulateFill` caps it to a fraction of the mid,
so no fill is at a negative price; the starting equity is in whole cents, as every tier's is;
and `SCALE`, the unit margins are kept in, is a multiple of twice every market's maximum
leverage, so that the maintenance fraction is exact). The runs evaluate each of them.

The proofs establish every safety invariant and every action property that the passing
runs check. An invariant that speaks of the past is proved of the specification with
its history variables.

**Sums** (`SumLemmas`). The books of every component are sums over a finite set
(`SumFunctionOnSet`), which is defined by recursion on subsets. The library's induction
theorems cannot be instantiated here, so induction takes the form of the least
counterexample: the strict subsets of a finite set are well founded, hence a set of
subsets that is not empty has a member with no smaller one in it (`LeastSubset`). From
it follow that the recursion is well defined, what a sum becomes when one element
is added, removed, renamed or changed, and comparisons of two sums.

**Accounts** (`UserAccountProofs`).
The inductive invariant `IInv` is `TypeOK` with, for every account,
`FloorBelowFunded`, `TradesWithinGates` and `StreaksOK`.

* `RiskGate` is not inductive alone. A reopened cycle starts at its funded size,
  so `FloorBelowFunded` is needed: the floor never exceeds the funded size,
  which follows from the checks on tier rows and the rounding of `mul_div_down`.
  They are equal only for a tier so small that its drawdown rounds to nothing.
  The property excludes exactly such an account before its first trade: it
  opens on its floor, and its first loss suspends it.
* Each entry point has a lemma on one record; the theorems lift them to the step
  with one case per action.
* `JournalAgrees`: an entry appended to the journal enters one of two sums, and no other
  action touches the counters.
* `DailyBaseline`: an account that was rolled today stands on the opening equity, one
  that was not has not moved since. The day only moves forward, and both openings of a
  cycle set the equity and the baseline together.
* `PassIsEarnedThisCycle` needs `equity <= funded_size + gross_profit - won_before`:
  a win adds to both sides, a loss saturates at zero, a new cycle starts at
  `funded_size` with all that was won before it set aside, and a pass requires equity at
  the target.
* `ImplementsLifecycle`: each step maps to a step of `AccountLifecycle` or to a
  stutter. `log_trade` and `register_dd_breach` map to `Suspend` or stutter.

**Treasury** (`AccessProofs`, `TreasuryProofs`).
`IInv` is `TypeOK /\ PoolsBalance`. Deposits and withdrawals move a pool and its
counter together and abort together. `OwedStaysCovered` is an action property:
recovery is limited to what exceeds `total_claimable`, a claim takes the same
amount from both sides. `LockoutIsPermanent` rests on a lemma over
`AccessControl`: with no live admin there is no step that changes a cap's
standing, since each requires one.

* `BooksAgree`: an accrual changes one term of the sum, a claim moves one account's whole
  term to what it was paid, and each is guarded by the same checks as the total.
* `PaidWasAccrued`, account by account, over the history of accruals.
* `DestinationWasAnnounced` needs that a pending change was announced no later than it
  was proposed (`NoticeInv`): a proposal over a pending one restarts the notice.

**Vault** (`VaultProofs`).
`VaultInv` has three parts and the types of the rest. `PoolInv` says that the cash, the
capital in trades and at venues, the shares and every loan's principal are naturals: the
subtractions that could break it are guarded in the code. It needs no bound from above,
and alone carries the refinement and the gate. `CapsInv` is about the caps' books,
`LoansInv` about the loans'.

* `ImplementsSharePool`: `MintStep` and `RedeemStep` show that a rounded-down
  quotient takes no more than its part (`MulDivDown`), the first deposit pays for
  the locked shares too; each draw is an `Invest`, each return, default and revenue
  a `Settle`, everything else a stutter.
* `ExposureIsGated`: only the two draws raise `deployed + lent`, and both pass
  `Draw`.
* `SharesAgree`: a deposit and a redemption change one cap's shares and the total by the
  same amount; a cap without shares is dropped with the count.
* `LentIsActive`: a loan's id is fresh, and it is closed once.
* `YieldNotOverstated` is not inductive alone. `YieldCovered` bounds what the caps would
  be owed if all were synced now, in units of the accumulator, before it is rounded down
  for each.

**Booking** (`BookingProofs`). The inductive invariant `BookingInv` has four parts.
`BookingShape` types what the others read. `KeysAreHeldOnce`: a request that claimed
its key in the database is the only one with it, and before it reaches `log_trade`
nothing is logged under that key. `ClaimedRowsAreClosed`: the row the executor is
booking is closed and not yet logged. `BookedBefore`: a row about to be closed by hand
or to get its digest has its call in `on_chain`. From them `KeyBooksOnce`, `RowBooksOnce` and `LedgerIsBooked` follow for
any positions, requests and faults; `ClosedRowsStay` needs only that every write to a
row is guarded by its being open, or keeps what it was closed with. `BookingTypeOK`
rests on `StoreInv`: what each actor remembers exists where it will look for it, and
each close trade took at least one unit of what was opened, so there are no more
trades than the model has ids for.

**Services** (`ServicesProofs`). `OnboardInv` adds `LateStopsShort`: a request that
came after the index showed an account never gets to where a fee is read, since the
index does not forget and `adminOpenAccount` looks again. `NameInv` adds
`HistoryCovers` (who holds an NFT, or is seen to hold it by a node that lags, is in
the history) and `RecordedIsHeld` (so is a claim that is about to record).
`MarksStayInOrder`: behind the mark shown, the queue of the browser's stream, the
gateway's latest, the adapter's pending and the venue are in order of age.

**Paper engine** (`PaperEngineProofs`). `VerdictFollowsEquity` is `OutcomeMatchesEquity`
for any markets, orders and limits: each recompute judges the equity and the anchor it
stores, and what changes the vault without one leaves both alone. The other four need
the books, `PaperBooksInv`:

* ids are fresh and unique, a position's fee is that of the units it has left, and a
  position that is still open was only ever closed down to no less than what it has
  left; the realized total is the sum of the trades' pnl, and the equity is
  `computeEquity` of what is stored;
* the funding that the trades recognized and the positions still carry is the funding
  that was booked, within the `Slack` of the trades (`Booked`): a cent for a whole close,
  a cent and a half for a partial one.

Each stage of a recompute is a lemma: funding is charged once per boundary, in whole cents;
a whole close recognizes what a position carried, rounded twice; a partial close also splits
the funding, and the two roundings of the split are bounded together (`SplitIsClose`).
`CentFacts` is the one fact about `round2` that matters, that it moves
an amount by half a cent at most. `BooksReconcile` adds up the rest: each unit's price move, its
two fees, its funding, the rounded pnl of each open position, and the rounding of the
equity. An evaluation that has just begun is worth its start exactly (`StartIsRounded`),
since that is in whole cents. `ExecutorIsNoStricter` compares the margin
behind a position when its own maintenance is subtracted with that when all of it is
(`CrossedWithLess`): with less available a long that has crossed the exact price still has, and
so has a short unless its price is no longer positive; and a rounded price that is positive
and not crossed is within half a cent of an exact one that is (`ExecutorSays`).
`DailyAnchor` rests on `DayInv`: the next reset is a midnight, not
after the next one to come, so a page that slept over several days rolls to today's.

| theorem | property |
|---|---|
| `UserAccountProofs!InductiveInvariant`, `TypeCorrect`, `RiskGateHolds`, `StreaksAgreeHolds`, `JournalAgreesHolds` | invariants of accounts |
| `DailyBaselineHolds`, `PassIsEarnedThisCycleHolds` | invariants of accounts, with their history |
| `TermsAreFrozenHolds`, `StoppedAccountIsFrozenHolds` | action properties of accounts |
| `ImplementsLifecycle` | `Spec => Lifecycle` |
| `TreasuryProofs!InductiveInvariant`, `TypeCorrect`, `PoolsBalanceHolds`, `BooksAgreeHolds` | invariants of the treasury |
| `PaidWasAccruedHolds`, `DestinationWasAnnouncedHolds` | an invariant and an action property of the treasury, with its history |
| `OwedStaysCoveredHolds`, `LockoutIsPermanentHolds` | action properties of the treasury |
| `VaultProofs!PoolInvariant`, `VaultInvariant` | the inductive invariants of the vault |
| `TypeCorrect`, `SharesAgreeHolds`, `LentIsActiveHolds`, `YieldNotOverstatedHolds` | invariants of the vault |
| `ImplementsSharePoolHolds` | `Spec => ImplementsSharePool` |
| `ExposureIsGatedHolds` | action property of the vault |
| `BookingProofs!RouteBooksOnce`, `ExecutorBooksOnce`, `LedgerTellsTheTruth`, `BookingTypesHold` | invariants of booking |
| `ClosesAreFinal` | action property of booking |
| `ServicesProofs!KnownTraders`, `NamesWereHeld` | invariants of onboarding and usernames |
| `MarksStayInOrder` | action property of the feed |
| `PaperEngineProofs!VerdictFollowsEquity`, `PaperTypesHold`, `BooksReconcileHolds`, `ExecutorIsNoStricterHolds` | invariants of the paper engine |
| `DailyAnchorHolds` | invariant of the paper engine, with its history |

**Only model-checked.** The four liveness properties, `CrossedRowIsSettled`,
`EveryCloseIsSent`, `BrowserRecovers` and `OutcomeReachesChain`: fairness is stated with
`ENABLED`, which is out of the prover's reach. The induction over finite sets above works
because the sums are over subsets of a set that is given; what a recursive operator computes over all
its inputs stays out of reach, and no property needs it. `OutcomeBridge` has no safety
property of its own, so no theorem.

## 6. Not modelled

* The executor's verdict as an actor: `ExecutorVerdict` says what it decides, not how
  it races the browser's. Its reading of the books over several cycles is left out too.
* Prices, fees, funding and profit in trade booking, hence the lost update between
  the funding accrual and a close, bracket edits that never reach the ledger's row,
  and marks that have gone stale.
* The fallback of the feed that polls the venue over REST, used only for catalogs
  larger than a socket may subscribe to, and the rate limits of the gateway.
* Building and signing of transactions, HTTP, authentication tokens: pure I/O.
  A chain call commits, aborts, or commits with its answer lost.
* The web pages. They are most of the TypeScript of the repository and they present:
  charts, tables, landing and onboarding screens, styles. What they may do to the
  state is in the models as steps a trader may take at any time. The order form
  checks an order before it submits it, and `submitOrder` in `PaperEngine` accepts at
  any time whatever the store itself accepts, which allows more. Which terminal
  page is shown follows from the account's status and the vault's.
* Sponsorship, leaderboard and cohort queries, the faucet, the documentation, and
  the admin and risk-engine stubs: reads, presentation, an external service, stubs.
* The state before the treasury and the vault are created, and the creator tickets
  that make each creation possible once.
* `trading_fee_bps` of a tier, which nothing on chain reads.

## 7. Plan

1. The executor's `reconcileAccount` as a third actor of `OutcomeBridge`, with the
   ledger's copy of the status, and a re-entry that keeps the old books.
2. Settlement arithmetic over small integers in `TradeBooking`: funding accrual, the
   brackets of the row and those of the browser, marks with an age. These are the
   hazards that no property covers yet.
3. Safety of `OutcomeBridge` (no account fails on chain that its browser passed), once
   the executor's verdict is an actor there, with its theorem.

## 8. Running it

    tlasany UserAccount.tla
    tlc -workers 2 -config Account.cfg MCUserAccount.tla
    tlapm UserAccountProofs.tla

Each `.cfg` says in its first lines what it instantiates; the `runs` of
`PROJECT.json` pair the configurations with their modules. The mutants in
`PROJECT.json` are definitions beside the ones they alter, each with the bug it
stands for; replacing one by the other makes its property fail.
