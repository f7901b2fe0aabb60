----------------------------- MODULE PaperEngine -----------------------------
(***************************************************************************)
(* The paper-trading engine of one evaluation: the browser store           *)
(* (lib/sim/store.ts) over the shared simulation core (sim-core/engine.ts).*)
(*                                                                         *)
(* Cash and prices are integers: grains, CENT of them to a cent, and what  *)
(* the code rounds to cents is rounded here, prices, funding, realized and *)
(* unrealized PnL and equity.  A position is held in base units, so its    *)
(* size in USD is units * entry, which is not rounded; slippage and fees   *)
(* are charged per unit.  One price per market stands for mid, mark and    *)
(* oracle.                                                                 *)
(*                                                                         *)
(* The equity curve, the peak equity, digests and the trade blamed for a   *)
(* breach are display data, and the seeded demo vault is left out.  An     *)
(* order may come at any time: what the order form checks before it waits  *)
(* and submits only restricts when.                                        *)
(***************************************************************************)
EXTENDS Integers, FiniteSets, FiniteSetsExt, Functions

CONSTANTS
    Markets,
    MaxLeverage,        \* the venue's maximum leverage of a market
    OnlyIsolated,       \* the markets that refuse cross margin
    Prices, Rates,      \* what a tick may quote
    SeedPrices,         \* what a page quotes before the first tick of a market, or 0
    Orders,             \* the orders the trader may submit
    BracketPrices,           \* the bracket prices the trader may set
    START,              \* the starting equity
    DRAWDOWN, DAILY_LOSS, PROFIT_TARGET,   \* the tier's limits, in cash
    LEVERAGE,           \* the tier's leverage cap
    FEE, SLIP, SLIP_CAP, FUNDING_CAP,
    RATE_UNIT,          \* a rate is the cash RATE_UNIT units pay at a boundary
    DAY, FUNDING_INTERVAL,
    CENT,               \* the grains of money in a cent
    SCALE,              \* a common multiple of the leverages: margins are kept times SCALE
    MaxIntents,         \* bound: opens and manual closes of one evaluation
    MaxNow              \* bound: the clock

Side == {"long", "short"}

Mode == {"isolated", "cross"}

\* What the order form submits; tp and sl are 0 when not set.
Order == [market : Markets, side : Side, units : Nat \ {0}, mode : Mode,
          leverage : Nat \ {0}, tp : Nat, sl : Nat]

\* The impact is a capped fraction of the mid, so less than any price.
ASSUME EngineAssumption ==
    /\ MaxLeverage \in [Markets -> Nat \ {0}]
    /\ OnlyIsolated \subseteq Markets
    /\ SeedPrices \in [Markets -> Nat]
    /\ Prices \subseteq Nat \ {0} /\ Rates \subseteq Int /\ BracketPrices \subseteq Nat \ {0}
    /\ START \in Nat
    /\ {DRAWDOWN, DAILY_LOSS, PROFIT_TARGET} \subseteq Nat \ {0}
    /\ {LEVERAGE, RATE_UNIT, DAY, FUNDING_INTERVAL, CENT, SCALE} \subseteq Nat \ {0}
    /\ START % CENT = 0
    /\ \A m \in Markets : SCALE % (2 * MaxLeverage[m]) = 0
    /\ {FEE, SLIP, SLIP_CAP, FUNDING_CAP, MaxIntents, MaxNow} \subseteq Nat
    /\ \A px \in Prices : px > SLIP_CAP
    /\ \A m \in Markets : SeedPrices[m] = 0 \/ SeedPrices[m] > SLIP_CAP
    /\ Orders \subseteq Order

VARIABLES
    vault,           \* the SimVault, or NoVault before the cockpit opened it
    feed,            \* the page's price of each market; px = 0 when there is none
    live,            \* the markets whose price came from the feed since the page loaded
    now,
    funding_booked   \* history: the funding the evaluation's positions were charged

paper_vars == <<vault, feed, live, now, funding_booked>>

\* tp, sl and expires are 0 when not set.
Position ==
    [id : 1 .. MaxIntents, market : Markets, side : Side, units : Nat \ {0},
     entry : Nat \ {0}, mark : Nat, mode : Mode, leverage : Nat \ {0},
     fee : Nat, funding : Int, funded : Nat, tp : Nat, sl : Nat, expires : Nat]

CloseTrade ==
    [position : 1 .. MaxIntents, side : Side, units : Nat \ {0}, left : Nat,
     entry : Nat \ {0}, fill : Nat, pnl : Int,
     by : {"manual", "liquidation", "tp", "sl"}]

Rule == {"none", "drawdown", "dailyLoss"}

SimVault ==
    [status : {"active", "passed", "failed", "inactive"}, violatedRule : Rule,
     equity : Int, realizedTotal : Int,
     positions : SUBSET Position, trades : SUBSET CloseTrade,
     intentCount : 0 .. MaxIntents, dailyAnchorEquity : Int, dailyResetAt : Nat]

NoVault == [status |-> "none"]

Quoted(m) == feed[m].px # 0

Dir(side) == IF side = "long" THEN 1 ELSE -1

SumOver(Op(_), S) == SumFunctionOnSet([x \in S |-> Op(x)], S)

-----------------------------------------------------------------------------
(* The simulation core. *)

SizeUsd(p) == p.units * p.entry

PricePnl(side, units, entry, px) == units * (px - entry) * Dir(side)

\* n \div d to the nearest integer, halves away from zero.
Round(n, d) == IF n >= 0 THEN (2 * n + d) \div (2 * d) ELSE - ((d - 2 * n) \div (2 * d))

\* n \div d to the nearest cent.
round2(n, d) == CENT * Round(n, d * CENT)

positionPnl(p) == round2(PricePnl(p.side, p.units, p.entry, p.mark), 1)

realizedOnClose(p, fill, units) == round2(PricePnl(p.side, units, p.entry, fill), 1)

\* Buying fills above the mid and selling below it, by an impact that grows with
\* the size up to a cap.
Fill(side, units, mid) == mid + Dir(side) * Min({units * SLIP, SLIP_CAP})

ExitSide(side) == IF side = "long" THEN "short" ELSE "long"

closeFill(p, mid, units) == Fill(ExitSide(p.side), units, mid)

Clamped(rate) == Max({-FUNDING_CAP, Min({FUNDING_CAP, rate})})

accrueFunding(p, rate, elapsed) ==
    round2(- Dir(p.side) * p.units * Clamped(rate) * elapsed, RATE_UNIT)

Carry(p) == positionPnl(p) - p.fee + p.funding

computeEquity(realized, positions) ==
    round2(START + realized + SumOver(Carry, positions), 1)

\* Margins, times SCALE.
InitialMargin(p) == (SizeUsd(p) * SCALE) \div p.leverage

maintenanceMargin(p) == (SizeUsd(p) * SCALE) \div (2 * MaxLeverage[p.market])

SummedMaint(positions) == SumOver(maintenanceMargin, positions)

marginAvailable(p, equity, summedMaint) ==
    IF p.mode = "cross"
    THEN SCALE * equity - summedMaint
    ELSE InitialMargin(p) - maintenanceMargin(p)

\* The factor 1 - dir / (2 * MaxLeverage), times SCALE.
LiquidationPart(p) ==
    ((2 * MaxLeverage[p.market] - Dir(p.side)) * SCALE) \div (2 * MaxLeverage[p.market])

\* liq = entry - dir * available / units / (1 - dir / (2 * MaxLeverage)), times
\* LiquidationUnit.
LiquidationUnit(p) == p.units * LiquidationPart(p)

liquidationPrice(p, available) == p.entry * LiquidationUnit(p) - Dir(p.side) * available

\* The mark has crossed the price liq / unit, which is positive.
CrossedLiquidation(p, liq, unit) ==
    liq > 0 /\ (IF p.side = "long" THEN p.mark * unit <= liq ELSE p.mark * unit >= liq)

Reached(px, trigger, up) == trigger # 0 /\ (IF up THEN px >= trigger ELSE px <= trigger)

\* The stop loss wins over the take profit.
bracketTrigger(p) ==
    CASE Reached(p.mark, p.sl, p.side = "short") -> "sl"
      [] ~ Reached(p.mark, p.sl, p.side = "short")
         /\ Reached(p.mark, p.tp, p.side = "long") -> "tp"
      [] OTHER -> "none"

Tripped(rule, equity, anchor) ==
    CASE rule = "drawdown" -> START - equity >= DRAWDOWN
      [] rule = "dailyLoss" -> anchor - equity >= DAILY_LOSS
      [] rule = "profitTarget" -> equity - START >= PROFIT_TARGET

\* A mutant of detectOutcome: the daily loss is measured from the starting equity.
detectOutcome_static(equity, anchor) ==
    CASE Tripped("drawdown", equity, START) ->
            [status |-> "failed", violatedRule |-> "drawdown"]
      [] ~ Tripped("drawdown", equity, START) /\ Tripped("dailyLoss", equity, START) ->
            [status |-> "failed", violatedRule |-> "dailyLoss"]
      [] OTHER ->
            [status |-> IF Tripped("profitTarget", equity, START) THEN "passed" ELSE "active",
             violatedRule |-> "none"]

\* evaluateRules and detectOutcome, of an active evaluation.
detectOutcome(equity, anchor) ==
    CASE Tripped("drawdown", equity, anchor) ->
            [status |-> "failed", violatedRule |-> "drawdown"]
      [] ~ Tripped("drawdown", equity, anchor) /\ Tripped("dailyLoss", equity, anchor) ->
            [status |-> "failed", violatedRule |-> "dailyLoss"]
      [] OTHER ->
            [status |-> IF Tripped("profitTarget", equity, anchor) THEN "passed" ELSE "active",
             violatedRule |-> "none"]

-----------------------------------------------------------------------------
(* recompute: what every tick, order, close and resume ends with. *)

\* A mutant of nextUtcMidnight: a day from now.
nextUtcMidnight_rolling(t) == t + DAY

nextUtcMidnight(t) == (t \div DAY) * DAY + DAY

BoundariesCrossed(p, t) == (t \div FUNDING_INTERVAL) - (p.funded \div FUNDING_INTERVAL)

FundingDue(p, prices, t) ==
    IF prices[p.market].px # 0
    THEN accrueFunding(p, prices[p.market].rate, BoundariesCrossed(p, t))
    ELSE 0

\* Without a tick of its market a position keeps its mark and is not funded.
settleFunding(p, prices, t) ==
    IF prices[p.market].px # 0 /\ BoundariesCrossed(p, t) > 0
    THEN [p EXCEPT !.funding = @ + FundingDue(p, prices, t),
                   !.funded = (t \div FUNDING_INTERVAL) * FUNDING_INTERVAL]
    ELSE p

markPosition(p, prices) ==
    IF prices[p.market].px # 0 THEN [p EXCEPT !.mark = prices[p.market].px] ELSE p

FundedAndMarked(positions, prices, t) ==
    {markPosition(settleFunding(p, prices, t), prices) : p \in positions}

\* A whole close: the trade recognizes the entry fee and the funding the position
\* carried.  Booked totals need no rounding: they are sums of whole cents.
WholeClose(p, fill, by) ==
    [position |-> p.id, side |-> p.side, units |-> p.units, left |-> 0,
     entry |-> p.entry, fill |-> fill, by |-> by,
     pnl |-> round2(realizedOnClose(p, fill, p.units) - FEE * p.units - p.fee + p.funding, 1)]

\* A mutant of attachLiquidation: no maintenance is subtracted from a cross account.
attachLiquidation_gross(p, positions, equity) ==
    round2(liquidationPrice(p, marginAvailable(p, equity, 0)), LiquidationUnit(p))

\* The liquidation price of a position, as the browser keeps it.
attachLiquidation(p, positions, equity) ==
    round2(liquidationPrice(p, marginAvailable(p, equity, SummedMaint(positions))),
           LiquidationUnit(p))

isLiquidated(p, liq) == CrossedLiquidation(p, liq, 1)

Liquidated(positions, equity) ==
    {p \in positions : isLiquidated(p, attachLiquidation(p, positions, equity))}

\* The forced fill is the worse of the mark and the liquidation price: the mark,
\* once it has crossed.
closeLiquidations(positions) == {WholeClose(p, p.mark, "liquidation") : p \in positions}

Expired(p, t) == p.expires # 0 /\ t > p.expires

DropBracket(p) == [p EXCEPT !.tp = 0, !.sl = 0, !.expires = 0]

Fired(positions, t) == {p \in positions : ~ Expired(p, t) /\ bracketTrigger(p) # "none"}

\* A resting bracket fills at its own price, wherever the mark is.
fireBrackets(positions) ==
    {WholeClose(p, IF bracketTrigger(p) = "sl" THEN p.sl ELSE p.tp, bracketTrigger(p)) :
        p \in positions}

Pnl(trade) == trade.pnl

\* Roll the day, fund, mark, liquidate, fire the brackets of what survived, and
\* judge the equity that is left.
recompute(v, prices, t) ==
    LET rolls == t >= v.dailyResetAt
        anchor == IF rolls THEN v.equity ELSE v.dailyAnchorEquity
        marked == FundedAndMarked(v.positions, prices, t)
        liquidated == Liquidated(marked, computeEquity(v.realizedTotal, marked))
        survivors == marked \ liquidated
        fired == Fired(survivors, t)
        kept == {IF Expired(p, t) THEN DropBracket(p) ELSE p : p \in survivors \ fired}
        closes == closeLiquidations(liquidated) \cup fireBrackets(fired)
        realized == v.realizedTotal + SumOver(Pnl, closes)
        equity == computeEquity(realized, kept)
        outcome == detectOutcome(equity, anchor)
    IN  [status |-> outcome.status, violatedRule |-> outcome.violatedRule,
         equity |-> equity, realizedTotal |-> realized,
         positions |-> kept, trades |-> v.trades \cup closes,
         intentCount |-> v.intentCount, dailyAnchorEquity |-> anchor,
         dailyResetAt |-> IF rolls THEN nextUtcMidnight(t) ELSE v.dailyResetAt]

-----------------------------------------------------------------------------
(* The store's operations. *)

\* What a page starts with, until the feed's first batch replaces it.
INITIAL_PRICES == [m \in Markets |-> [px |-> SeedPrices[m], rate |-> 0]]

PaperInit ==
    /\ vault = NoVault
    /\ feed = INITIAL_PRICES
    /\ live = {}
    /\ now = 0
    /\ funding_booked = 0

\* Nothing to mark yet: the fresh vault's own recompute changes nothing.
freshVault ==
    [status |-> "active", violatedRule |-> "none", equity |-> START, realizedTotal |-> 0,
     positions |-> {}, trades |-> {}, intentCount |-> 0,
     dailyAnchorEquity |-> START, dailyResetAt |-> nextUtcMidnight(now)]

Active == vault.status = "active"

\* The vault an operation edited is recomputed at once.
Recompute(v, prices) ==
    /\ vault' = recompute(v, prices, now)
    /\ funding_booked' =
         funding_booked + SumOver(LAMBDA p : FundingDue(p, prices, now), v.positions)
    /\ UNCHANGED <<feed, live, now>>

startEvaluation ==
    /\ vault = NoVault
    /\ vault' = freshVault
    /\ UNCHANGED <<feed, live, now, funding_booked>>

\* "Start over" on the failed page, which also shows when only the chain failed the
\* account: the cycle, its positions and its trades go.
resetEvaluation ==
    /\ vault # NoVault
    /\ vault' = freshVault
    /\ funding_booked' = 0
    /\ UNCHANGED <<feed, live, now>>

UsedMargin == SumOver(InitialMargin, vault.positions)

\* The position an order opens.
Opened(o) ==
    [id |-> vault.intentCount + 1, market |-> o.market, side |-> o.side,
     units |-> o.units, entry |-> Fill(o.side, o.units, feed[o.market].px),
     mark |-> feed[o.market].px,
     mode |-> IF o.market \in OnlyIsolated THEN "isolated" ELSE o.mode,
     leverage |-> o.leverage, fee |-> FEE * o.units, funding |-> 0, funded |-> now,
     tp |-> o.tp, sl |-> o.sl, expires |-> 0]

\* The margin gate reads the equity of the last recompute.
submitOrder(o) ==
    /\ Active /\ vault.intentCount < MaxIntents
    /\ Quoted(o.market)
    /\ o.leverage <= Min({MaxLeverage[o.market], LEVERAGE})
    /\ InitialMargin(Opened(o)) <= SCALE * vault.equity - UsedMargin
    /\ Recompute([vault EXCEPT !.positions = @ \cup {Opened(o)}, !.intentCount = @ + 1], feed)

\* A mutant of Remainder: what stays open keeps all of the funding.
Remainder_keeps_funding(p, left) ==
    IF left <= 0 THEN {} ELSE {[p EXCEPT !.units = left, !.fee = FEE * left]}

\* What stays of a position, with its part of the entry fee and the funding.
Remainder(p, left) ==
    IF left <= 0 THEN {}
    ELSE {[p EXCEPT !.units = left, !.fee = FEE * left, !.funding = round2(@ * left, p.units)]}

\* A mutant of resolveCloseSize: a request for more than there is is taken as it comes.
resolveCloseSize_unclamped(p, requested) == requested

resolveCloseSize(p, requested) == Min({requested, p.units})

\* The trade recognizes the closed units' share of the entry fee and of the funding.
PartialClose(p, units) ==
    LET fill == closeFill(p, feed[p.market].px, units)
        priced == realizedOnClose(p, fill, units) - FEE * units - FEE * units
    IN  [position |-> p.id, side |-> p.side, units |-> units, left |-> p.units - units,
         entry |-> p.entry, fill |-> fill, by |-> "manual",
         pnl |-> round2(priced * p.units + p.funding * units, p.units)]

\* A manual close of some or all of a position.
closePosition(p, requested) ==
    /\ Active /\ vault.intentCount < MaxIntents
    /\ p \in vault.positions
    /\ Quoted(p.market)
    /\ LET trade == PartialClose(p, resolveCloseSize(p, requested))
       IN  Recompute([vault EXCEPT !.positions = (@ \ {p}) \cup Remainder(p, trade.left),
                                   !.trades = @ \cup {trade},
                                   !.realizedTotal = @ + trade.pnl,
                                   !.intentCount = @ + 1],
                     feed)

\* Only the named legs change, and nothing fires before the next recompute.
EditBracket(p, tp, sl, expires) ==
    /\ Active
    /\ p \in vault.positions
    /\ vault' = [vault EXCEPT !.positions =
                    (@ \ {p}) \cup {[p EXCEPT !.tp = tp, !.sl = sl, !.expires = expires]}]
    /\ UNCHANGED <<feed, live, now, funding_booked>>

setBracket(p) ==
    \E tp \in BracketPrices \cup {0, p.tp}, sl \in BracketPrices \cup {0, p.sl},
       expires \in {0, p.expires, now + 1} : EditBracket(p, tp, sl, expires)

cancelBracket(p) ==
    \/ EditBracket(p, 0, p.sl, p.expires)
    \/ EditBracket(p, p.tp, 0, p.expires)
    \/ EditBracket(p, 0, 0, 0)

tick ==
    /\ Active
    /\ Recompute(vault, feed)

\* The cockpit, its only caller, has just closed every position, in the same turn: what
\* is left has no price to close at.
pauseEvaluation ==
    /\ Active
    /\ \A p \in vault.positions : ~ Quoted(p.market)
    /\ vault' = [vault EXCEPT !.status = "inactive"]
    /\ UNCHANGED <<feed, live, now, funding_booked>>

NoPrices == [m \in Markets |-> [px |-> 0, rate |-> 0]]

\* The rules are re-evaluated without prices.
resumeEvaluation ==
    /\ vault.status = "inactive"
    /\ Recompute([vault EXCEPT !.status = "active"], NoPrices)

\* The page's prices are replaced market by market, as the feed reports them.
mergeMarks(m, px, rate) ==
    /\ feed' = [feed EXCEPT ![m] = [px |-> px, rate |-> rate]]
    /\ live' = live \cup {m}
    /\ UNCHANGED <<vault, now, funding_booked>>

\* The vault is persisted, the prices are not.
page_reloads ==
    /\ feed' = INITIAL_PRICES
    /\ live' = {}
    /\ UNCHANGED <<vault, now, funding_booked>>

clock_advances ==
    /\ now < MaxNow
    /\ now' = now + 1
    /\ UNCHANGED <<vault, feed, live, funding_booked>>

PositionStep ==
    \E p \in vault.positions :
        \/ \E requested \in 1 .. p.units + 1 : closePosition(p, requested)
        \/ setBracket(p) \/ cancelBracket(p)

PaperNext ==
    \/ startEvaluation \/ resetEvaluation
    \/ \E o \in Orders : Active /\ submitOrder(o)
    \/ Active /\ PositionStep
    \/ tick \/ pauseEvaluation \/ resumeEvaluation
    \/ \E m \in Markets, px \in Prices, rate \in Rates : mergeMarks(m, px, rate)
    \/ page_reloads \/ clock_advances

PaperSpec == PaperInit /\ [][PaperNext]_paper_vars

-----------------------------------------------------------------------------
(* Properties. *)

Exists == vault # NoVault

PaperTypeOK ==
    /\ Exists => vault \in SimVault
    /\ feed \in [Markets -> [px : Nat, rate : Int]]
    /\ live \subseteq Markets
    /\ now \in 0 .. MaxNow
    /\ funding_booked \in Int

\* What the evaluation is worth, from its fills alone: every price move, both taker
\* fees of every unit and all the funding, each counted once.
ExactEquity ==
    START + funding_booked
    + SumOver(LAMBDA c : PricePnl(c.side, c.units, c.entry, c.fill) - 2 * FEE * c.units,
              vault.trades)
    + SumOver(LAMBDA p : PricePnl(p.side, p.units, p.entry, p.mark) - FEE * p.units,
              vault.positions)

\* How often a trade was rounded: its price PnL and its total, and in a partial close the
\* funding that stays.
Roundings(trade) == IF trade.left = 0 THEN 2 ELSE 3

Abs(n) == IF n < 0 THEN -n ELSE n

\* "each close trade's realized PnL fold[s] in the full lifecycle cost so on-chain
\* equity reconciles": the booked total is that of the close trades, and whatever
\* mix of partial, manual, bracket and forced closes an evaluation goes through, its
\* equity is what its fills add up to but for half a cent each time the code rounds: of
\* every trade, of every open position's PnL, and of the equity itself.
BooksReconcile ==
    Exists =>
      /\ vault.realizedTotal = SumOver(Pnl, vault.trades)
      /\ 2 * Abs(vault.equity - ExactEquity)
           <= CENT * (SumOver(Roundings, vault.trades) + Cardinality(vault.positions) + 1)

\* The status follows from the equity the vault shows, after every forced close: a
\* failed evaluation names a rule that equity breaks, a passed one reached its
\* target and broke none, a live or paused one did neither.
OutcomeMatchesEquity ==
    Exists =>
      LET trips(rule) == Tripped(rule, vault.equity, vault.dailyAnchorEquity)
      IN  /\ vault.status = "failed" => trips(vault.violatedRule)
          /\ vault.status # "failed" => ~ trips("drawdown") /\ ~ trips("dailyLoss")
          /\ vault.status = "passed" <=>
               vault.status # "failed" /\ trips("profitTarget")

\* What the executor would close a position for, at the same mark, bracket and
\* account value (triggerFor: the bracket first, and the position's own maintenance); it
\* does not round the liquidation price.
ExecutorTrigger(p, equity) ==
    LET liq == liquidationPrice(p, marginAvailable(p, equity, maintenanceMargin(p)))
    IN  IF bracketTrigger(p) # "none" THEN bracketTrigger(p)
        ELSE IF CrossedLiquidation(p, liq, LiquidationUnit(p)) THEN "liquidation" ELSE "none"

\* The mark is within half a cent of the price liq / unit.
HalfACentFrom(p, liq, unit) == 2 * Abs(p.mark * unit - liq) <= CENT * unit

\* A position the executor would close at the latest marks is one the next tick of the
\* browser closes too.  Three remain open: one whose bracket the browser knows to have
\* expired; one the browser has no positive price to liquidate at, be it a cross short so
\* far under water once the maintenance of every open position is subtracted or a price
\* that rounds to nothing; and one whose mark is so close to the liquidation price that
\* the browser, which rounds that price to cents, finds it on the other side.
ExecutorIsNoStricter ==
    Exists /\ Active =>
      LET marked == FundedAndMarked(vault.positions, feed, now)
          equity == computeEquity(vault.realizedTotal, marked)
          kept == {q.id : q \in recompute(vault, feed, now).positions}
          exact(p) == liquidationPrice(p, marginAvailable(p, equity, SummedMaint(marked)))
      IN  \A p \in marked :
            /\ ExecutorTrigger(p, equity) \in {"sl", "tp"} => p.id \notin kept \/ Expired(p, now)
            /\ ExecutorTrigger(p, equity) = "liquidation" =>
                 \/ p.id \notin kept
                 \/ attachLiquidation(p, marked, equity) <= 0
                 \/ HalfACentFrom(p, exact(p), LiquidationUnit(p))

\* The markets of the positions a step opens and closes, in part or whole.
TradedMarkets ==
    {p.market : p \in {q \in vault'.positions : q.id > vault.intentCount}}
    \cup {p.market : p \in {q \in vault.positions :
                              \E c \in vault'.trades \ vault.trades : c.position = q.id}}

\* "Every trade is evaluated against live market prices at the moment of submission ...
\* There is no delayed or synthetic feed": nothing is opened or closed before the feed
\* has quoted its market to the page.
TradesOnLivePrices ==
    [][Exists => TradedMarkets \subseteq live]_paper_vars

\* The executor's verdict once it has closed a position (reconcileAccount), on the
\* equity that is left: its daily loss is measured from the starting equity.
ExecutorVerdict(equity) == detectOutcome(equity, START)

\* "The limit resets fresh each day; it does not roll over" (rules.mdx): when a bracket
\* or a liquidation closes a position, the executor fails the account only if the
\* evaluation has failed, by the same equity, in the browser.
VerdictsAgree ==
    Exists /\ Active =>
      LET next == recompute(vault, feed, now)
      IN  next.trades # vault.trades /\ ExecutorVerdict(next.equity).status = "failed" =>
            next.status = "failed"

=============================================================================
