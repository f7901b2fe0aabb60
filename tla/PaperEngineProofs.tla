------------------------- MODULE PaperEngineProofs --------------------------
(***************************************************************************)
(* Theorems about the paper engine for any markets, prices, orders and     *)
(* limits of the tier.                                                     *)
(*                                                                         *)
(* The verdict needs nothing of the sums behind an equity: every recompute *)
(* judges the equity it stores against the anchor it stores, and what      *)
(* changes the vault without one (a bracket's edit, a pause) leaves both   *)
(* alone (PaperInv).  The books are the invariant PaperBooksInv: fills,    *)
(* fees and funding are followed through the stages of a recompute and     *)
(* through a manual close, and every rounding to cents is accounted for in *)
(* the Slack of the trades.  On it rest the types and the comparison with  *)
(* the executor; the day's anchor is DayInv, over the history of the       *)
(* module PaperEngineHistory.                                              *)
(***************************************************************************)
EXTENDS PaperEngineHistory, SumLemmas

\* The verdict of a live evaluation with this equity and anchor, or of a paused one.
Judged(status, rule, equity, anchor) ==
    /\ status = "failed" => Tripped(rule, equity, anchor)
    /\ status # "failed" =>
         ~ Tripped("drawdown", equity, anchor) /\ ~ Tripped("dailyLoss", equity, anchor)
    /\ status = "passed" <=> status # "failed" /\ Tripped("profitTarget", equity, anchor)

\* A record of the vault's fields, with its own verdict.
JudgedVault(v) ==
    /\ v = [status |-> v.status, violatedRule |-> v.violatedRule, equity |-> v.equity,
            realizedTotal |-> v.realizedTotal, positions |-> v.positions,
            trades |-> v.trades, intentCount |-> v.intentCount,
            dailyAnchorEquity |-> v.dailyAnchorEquity, dailyResetAt |-> v.dailyResetAt]
    /\ Judged(v.status, v.violatedRule, v.equity, v.dailyAnchorEquity)

PaperInv == vault = NoVault \/ JudgedVault(vault)

\* detectOutcome judges any equity as the rules do.
LEMMA OutcomeIsJudged ==
    ASSUME NEW equity, NEW anchor
    PROVE  Judged(detectOutcome(equity, anchor).status,
                  detectOutcome(equity, anchor).violatedRule, equity, anchor)
<1> DEFINE down == Tripped("drawdown", equity, anchor)
           daily == Tripped("dailyLoss", equity, anchor)
           target == Tripped("profitTarget", equity, anchor)
<1>1. CASE down
  <2>1. detectOutcome(equity, anchor) = [status |-> "failed", violatedRule |-> "drawdown"]
    BY <1>1 DEF detectOutcome
  <2> QED BY <1>1, <2>1 DEF Judged
<1>2. CASE ~ down /\ daily
  <2>1. detectOutcome(equity, anchor) = [status |-> "failed", violatedRule |-> "dailyLoss"]
    BY <1>2 DEF detectOutcome
  <2> QED BY <1>2, <2>1 DEF Judged
<1>3. CASE ~ down /\ ~ daily
  <2>1. detectOutcome(equity, anchor) =
          [status |-> IF target THEN "passed" ELSE "active", violatedRule |-> "none"]
    BY <1>3 DEF detectOutcome
  <2> QED BY <1>3, <2>1 DEF Judged
<1> QED BY <1>1, <1>2, <1>3

\* What recompute returns, whatever it is given.
LEMMA RecomputeJudges ==
    ASSUME NEW v, NEW prices, NEW t
    PROVE  JudgedVault(recompute(v, prices, t))
<1> DEFINE rolls == t >= v.dailyResetAt
           anchor == IF rolls THEN v.equity ELSE v.dailyAnchorEquity
           marked == FundedAndMarked(v.positions, prices, t)
           liquidated == Liquidated(marked, computeEquity(v.realizedTotal, marked))
           survivors == marked \ liquidated
           fired == Fired(survivors, t)
           kept == {IF Expired(p, t) THEN DropBracket(p) ELSE p : p \in survivors \ fired}
           closes == closeLiquidations(liquidated) \cup fireBrackets(fired)
           realized == v.realizedTotal + SumOver(Pnl, closes)
           equity == computeEquity(realized, kept)
           outcome == detectOutcome(equity, anchor)
           trades == v.trades \cup closes
           reset == IF rolls THEN nextUtcMidnight(t) ELSE v.dailyResetAt
           w == recompute(v, prices, t)
<1>1. w = [status |-> outcome.status, violatedRule |-> outcome.violatedRule,
           equity |-> equity, realizedTotal |-> realized,
           positions |-> kept, trades |-> trades, intentCount |-> v.intentCount,
           dailyAnchorEquity |-> anchor, dailyResetAt |-> reset]
  BY Zenon DEF recompute
<1>2. Judged(outcome.status, outcome.violatedRule, equity, anchor)
  BY OutcomeIsJudged
<1> HIDE DEF w, outcome, equity, realized, kept, trades, anchor, reset
<1>3. JudgedVault(w)
  BY <1>1, <1>2 DEF JudgedVault
<1> QED BY <1>3 DEF w

LEMMA FreshIsJudged ==
    Judged("active", "none", START, START)
BY EngineAssumption DEF Judged, Tripped

LEMMA PaperStep == PaperInv /\ [PaperNext]_paper_vars => PaperInv'
<1> SUFFICES ASSUME PaperInv, [PaperNext]_paper_vars PROVE PaperInv'
  OBVIOUS
<1>1. ASSUME vault' = freshVault PROVE PaperInv'
  BY <1>1, FreshIsJudged DEF PaperInv, JudgedVault, freshVault
<1>2. ASSUME NEW v, NEW prices, Recompute(v, prices) PROVE PaperInv'
  BY <1>2, RecomputeJudges DEF Recompute, PaperInv
<1>3. ASSUME UNCHANGED vault PROVE PaperInv'
  BY <1>3 DEF PaperInv
<1>4. Active => vault # NoVault
  BY DEF Active, NoVault
<1>5. ASSUME NEW p, NEW tp, NEW sl, NEW expires, EditBracket(p, tp, sl, expires)
      PROVE  PaperInv'
  <2>1. PICK positions : vault' = [vault EXCEPT !.positions = positions]
    BY <1>5 DEF EditBracket
  <2>2. vault # NoVault
    BY <1>4, <1>5 DEF EditBracket
  <2> QED BY <2>1, <2>2 DEF PaperInv, JudgedVault
<1>6. CASE pauseEvaluation
  BY <1>4, <1>6 DEF pauseEvaluation, Active, PaperInv, JudgedVault, Judged
<1>7. CASE startEvaluation \/ resetEvaluation
  BY <1>1, <1>7 DEF startEvaluation, resetEvaluation
<1>8. CASE tick \/ resumeEvaluation
  BY <1>2, <1>8 DEF tick, resumeEvaluation
<1>9. ASSUME NEW o, submitOrder(o) PROVE PaperInv'
  BY <1>2, <1>9 DEF submitOrder
<1>10. ASSUME NEW p, NEW units, closePosition(p, units) PROVE PaperInv'
  BY <1>2, <1>10 DEF closePosition
<1>11. ASSUME NEW p, setBracket(p) \/ cancelBracket(p) PROVE PaperInv'
  BY <1>5, <1>11 DEF setBracket, cancelBracket
<1>12. ASSUME NEW m, NEW px, NEW rate, mergeMarks(m, px, rate) PROVE PaperInv'
  BY <1>3, <1>12 DEF mergeMarks
<1>13. CASE page_reloads \/ clock_advances
  BY <1>3, <1>13 DEF page_reloads, clock_advances
<1>14. CASE UNCHANGED paper_vars
  BY <1>3, <1>14 DEF paper_vars
<1> QED BY <1>7, <1>6, <1>8, <1>9, <1>10, <1>11, <1>12, <1>13, <1>14
        DEF PaperNext, PositionStep

\* The status of an evaluation follows from the equity and the anchor it shows, through
\* any orders, closes, brackets, pauses, reloads and ticks.
THEOREM VerdictFollowsEquity == PaperSpec => []OutcomeMatchesEquity
<1>1. PaperInit => PaperInv
  BY DEF PaperInit, PaperInv
<1>2. PaperInv => OutcomeMatchesEquity
  BY DEF PaperInv, JudgedVault, Judged, OutcomeMatchesEquity, Exists
<1> QED BY <1>1, <1>2, PaperStep, PTL DEF PaperSpec

-----------------------------------------------------------------------------
(* The arithmetic of the core: rounding, the impact of a fill, funding. *)

LEMMA DivFacts ==
    ASSUME NEW n \in Int, NEW d \in Nat \ {0}
    PROVE  n \div d \in Int /\ (n \div d) * d <= n /\ n < (n \div d) * d + d
OBVIOUS

\* A quotient is known by its bounds.
LEMMA DivIs ==
    ASSUME NEW n \in Int, NEW d \in Nat \ {0}, NEW q \in Int, q * d <= n, n < q * d + d
    PROVE  n \div d = q
<1> DEFINE r == n \div d
<1>1. r \in Int /\ r * d <= n /\ n < r * d + d
  BY DivFacts
<1> HIDE DEF r
<1>2. ASSUME r < q PROVE FALSE
  <2>1. (r + 1) * d <= q * d
    BY <1>1, <1>2
  <2> QED BY <1>1, <2>1
<1>3. ASSUME q < r PROVE FALSE
  <2>1. (q + 1) * d <= r * d
    BY <1>1, <1>3
  <2> QED BY <1>1, <2>1
<1>4. r = q
  BY <1>1, <1>2, <1>3
<1> QED BY <1>4 DEF r

LEMMA DivMonotone ==
    ASSUME NEW m \in Int, NEW n \in Int, m <= n, NEW d \in Nat \ {0}
    PROVE  m \div d <= n \div d
<1> DEFINE q == m \div d
           r == n \div d
<1>1. q \in Int /\ r \in Int /\ q * d <= m /\ n < r * d + d
  BY DivFacts
<1> HIDE DEF q, r
<1>2. ASSUME r < q PROVE FALSE
  <2>1. (r + 1) * d <= q * d
    BY <1>1, <1>2
  <2> QED BY <1>1, <2>1
<1>3. q <= r
  BY <1>1, <1>2
<1> QED BY <1>3 DEF q, r

LEMMA MinOfTwo ==
    ASSUME NEW a \in Int, NEW b \in Int
    PROVE  Min({a, b}) \in {a, b} /\ Min({a, b}) <= a /\ Min({a, b}) <= b
<1>1. \E x \in {a, b} : \A y \in {a, b} : x <= y
  <2>1. a <= b \/ b <= a
    OBVIOUS
  <2> QED BY <2>1
<1> DEFINE x == CHOOSE x \in {a, b} : \A y \in {a, b} : x <= y
<1>2. x \in {a, b} /\ \A y \in {a, b} : x <= y
  BY <1>1
<1>3. Min({a, b}) = x
  BY DEF Min
<1> QED BY <1>2, <1>3

LEMMA MaxOfTwo ==
    ASSUME NEW a \in Int, NEW b \in Int
    PROVE  Max({a, b}) \in {a, b}
<1>1. \E x \in {a, b} : \A y \in {a, b} : x >= y
  <2>1. a >= b \/ b >= a
    OBVIOUS
  <2> QED BY <2>1
<1>2. Max({a, b}) = CHOOSE x \in {a, b} : \A y \in {a, b} : x >= y
  BY DEF Max
<1> QED BY <1>1, <1>2

LEMMA DirType == \A side : Dir(side) \in {1, -1}
BY DEF Dir

\* Every fill has a positive price.
LEMMA FillType ==
    ASSUME NEW side, NEW units \in Nat, NEW mid \in Nat, mid > SLIP_CAP
    PROVE  Fill(side, units, mid) \in Nat \ {0}
<1> DEFINE paid == units * SLIP
           impact == Min({paid, SLIP_CAP})
<1>1. SLIP \in Nat /\ SLIP_CAP \in Nat
  BY EngineAssumption
<1>2. paid \in Nat
  BY <1>1
<1> HIDE DEF paid
<1>3. impact \in Nat /\ impact <= SLIP_CAP
  BY <1>1, <1>2, MinOfTwo
<1> HIDE DEF impact
<1>4. mid + Dir(side) * impact \in Nat \ {0}
  <2>1. CASE Dir(side) = 1
    BY <1>1, <1>3, <2>1
  <2>2. CASE Dir(side) = -1
    BY <1>1, <1>3, <2>2
  <2> QED BY <2>1, <2>2, DirType
<1> QED BY <1>4 DEF Fill, impact, paid

\* A rounded quotient is off by no more than a half.
LEMMA RoundFacts ==
    ASSUME NEW n \in Int, NEW d \in Nat \ {0}
    PROVE  /\ Round(n, d) \in Int
           /\ 2 * (d * Round(n, d)) <= 2 * n + d /\ 2 * n <= 2 * (d * Round(n, d)) + d
<1>1. ASSUME NEW x \in Int
      PROVE  /\ (2 * x + d) \div (2 * d) \in Int
             /\ 2 * (d * ((2 * x + d) \div (2 * d))) <= 2 * x + d
             /\ 2 * x <= 2 * (d * ((2 * x + d) \div (2 * d))) + d
  <2>1. PICK y, e : y = 2 * x + d /\ e = 2 * d
    OBVIOUS
  <2>2. y \in Int /\ e \in Nat \ {0}
    BY <2>1
  <2>3. PICK q : q = y \div e
    OBVIOUS
  <2>4. q \in Int /\ q * e <= y /\ y < q * e + e
    BY <2>2, <2>3, DivFacts
  <2>5. d * q \in Int /\ q * e = 2 * (d * q)
    BY <2>1, <2>4
  <2> QED BY <2>1, <2>3, <2>4, <2>5
<1>2. CASE n >= 0
  BY <1>1, <1>2 DEF Round
<1>3. CASE ~ (n >= 0)
  <2>1. PICK x, q : x = -n /\ q = (2 * x + d) \div (2 * d)
    OBVIOUS
  <2>2. x \in Int /\ 2 * x + d = d - 2 * n
    BY <2>1
  <2>3. q \in Int /\ 2 * (d * q) <= 2 * x + d /\ 2 * x <= 2 * (d * q) + d
    BY <1>1, <2>1, <2>2
  <2>4. Round(n, d) = -q
    BY <1>3, <2>1, <2>2 DEF Round
  <2>5. d * q \in Int /\ d * (-q) = -(d * q)
    BY <2>3
  <2> QED BY <2>1, <2>3, <2>4, <2>5
<1> QED BY <1>2, <1>3

\* x is at most half of k away from nothing.
Within(x, k) == 2 * x <= k /\ -(2 * x) <= k

\* Rounding to cents is off by no more than half a cent.
LEMMA CentFacts ==
    ASSUME NEW n \in Int, NEW d \in Nat \ {0}
    PROVE  round2(n, d) \in Int /\ Within(d * round2(n, d) - n, d * CENT)
<1>1. CENT \in Nat \ {0}
  BY EngineAssumption
<1>2. PICK e : e = d * CENT
  OBVIOUS
<1>3. e \in Nat \ {0}
  BY <1>1, <1>2
<1>4. PICK r : r = Round(n, e)
  OBVIOUS
<1>5. r \in Int /\ 2 * (e * r) <= 2 * n + e /\ 2 * n <= 2 * (e * r) + e
  BY <1>3, <1>4, RoundFacts
<1>6. round2(n, d) = CENT * r
  BY <1>2, <1>4 DEF round2
<1>7. CENT * r \in Int /\ d * (CENT * r) = e * r /\ e * r \in Int
  BY <1>1, <1>2, <1>5
<1> QED BY <1>2, <1>3, <1>5, <1>6, <1>7 DEF Within

LEMMA WholeCentFacts ==
    ASSUME NEW n \in Int
    PROVE  round2(n, 1) \in Int /\ Within(round2(n, 1) - n, CENT)
<1>1. round2(n, 1) \in Int /\ Within(1 * round2(n, 1) - n, 1 * CENT)
  BY CentFacts
<1>2. PICK r : r = round2(n, 1)
  OBVIOUS
<1>3. r \in Int /\ 1 * r = r /\ 1 * CENT = CENT
  BY <1>1, <1>2, EngineAssumption
<1> QED BY <1>1, <1>2, <1>3

LEMMA Cancel ==
    ASSUME NEW d \in Nat \ {0}, NEW x \in Int, NEW y \in Int, d * x <= d * y
    PROVE  x <= y
<1>1. ASSUME y < x PROVE FALSE
  <2>1. d * (y + 1) <= d * x /\ d * (y + 1) = d * y + d
    BY <1>1
  <2> QED BY <2>1
<1> QED BY <1>1

\* What a close of u of d units books, of a for the part and n for the whole, and what of n
\* stays with the rest.
ClosedPart(a, n, d, u) == round2(a * d + n * u, d)
OpenPart(n, d, u) == round2(n * (d - u), d)

\* A trade of a part u of d units for a, and with its part of n, and the rest of n, rounded
\* both, add up to a + n within a cent; when all is taken the trade does within half a cent.
LEMMA SplitIsClose ==
    ASSUME NEW a \in Int, NEW n \in Int, NEW d \in Nat \ {0}, NEW u \in 1 .. d,
           NEW pnl, pnl = ClosedPart(a, n, d, u), NEW rest, rest = OpenPart(n, d, u)
    PROVE  /\ pnl \in Int /\ rest \in Int
           /\ u = d => Within(pnl - a - n, CENT)
           /\ Within(pnl + rest - a - n, 2 * CENT)
<1>1. PICK x, y, c : x = a * d + n * u /\ y = n * (d - u) /\ c = d * CENT
  OBVIOUS
<1>2. x \in Int /\ y \in Int /\ c \in Int /\ CENT \in Nat /\ x + y = d * (a + n)
  BY <1>1, EngineAssumption
<1>3. /\ pnl \in Int /\ Within(d * pnl - x, c)
      /\ rest \in Int /\ Within(d * rest - y, c)
  BY <1>1, <1>2, CentFacts DEF ClosedPart, OpenPart
<1>4. ASSUME NEW e \in Int, NEW k \in Int, Within(d * e, d * k) PROVE Within(e, k)
  <2>1. /\ d * (2 * e) <= d * k /\ d * (-(2 * e)) <= d * k
        /\ 2 * e \in Int /\ -(2 * e) \in Int
    <3>1. d * e \in Int /\ d * (2 * e) = 2 * (d * e) /\ d * (-(2 * e)) = -(2 * (d * e))
      BY <1>4
    <3> QED BY <1>4, <3>1 DEF Within
  <2>2. 2 * e <= k /\ -(2 * e) <= k
    BY <1>4, <2>1, Cancel
  <2> QED BY <2>2 DEF Within
<1>5. ASSUME u = d PROVE Within(pnl - a - n, CENT)
  <2>1. PICK e : e = pnl - a - n
    OBVIOUS
  <2>2. e \in Int /\ x = d * (a + n) /\ d * e = d * pnl - d * (a + n)
    BY <1>1, <1>3, <1>5, <2>1
  <2>3. Within(d * e, d * CENT)
    BY <1>1, <1>3, <2>2
  <2> QED BY <1>2, <1>4, <2>1, <2>2, <2>3
<1>6. Within(pnl + rest - a - n, 2 * CENT)
  <2>1. PICK e : e = pnl + rest - a - n
    OBVIOUS
  <2>2. /\ e \in Int /\ d * e = d * pnl + d * rest - d * (a + n)
        /\ d * pnl \in Int /\ d * rest \in Int
    BY <1>3, <2>1
  <2>3. 2 * CENT \in Int /\ d * (2 * CENT) = 2 * c
    BY <1>1, <1>2
  <2>4. Within(d * e, 2 * c)
    BY <1>2, <1>3, <2>2 DEF Within
  <2> QED BY <1>4, <2>1, <2>2, <2>3, <2>4
<1> QED BY <1>3, <1>5, <1>6

-----------------------------------------------------------------------------
(* What a recompute does to one position. *)

\* A market's price leaves room for the impact of a fill, when it has one.
PricesOK(prices) ==
    \A m \in Markets :
        /\ prices[m].px \in Nat /\ prices[m].rate \in Int
        /\ prices[m].px = 0 \/ prices[m].px > SLIP_CAP

\* A position of the first n intents, funded up to some time before t.
PositionOK(p, n, t) ==
    p \in Position /\ p.id <= n /\ p.fee = FEE * p.units /\ p.funded <= t

Refreshed(p, prices, t) == markPosition(settleFunding(p, prices, t), prices)

LEMMA ClampedType == \A rate \in Int : Clamped(rate) \in Int
<1> SUFFICES ASSUME NEW rate \in Int PROVE Clamped(rate) \in Int
  OBVIOUS
<1> DEFINE low == Min({FUNDING_CAP, rate})
<1>1. FUNDING_CAP \in Int /\ -FUNDING_CAP \in Int
  BY EngineAssumption
<1>2. low \in Int
  BY <1>1, MinOfTwo
<1> HIDE DEF low
<1>3. Max({-FUNDING_CAP, low}) \in Int
  <2> DEFINE c == -FUNDING_CAP
  <2>1. c \in Int
    BY <1>1
  <2> HIDE DEF c
  <2>2. Max({c, low}) \in Int
    BY <1>2, <2>1, MaxOfTwo
  <2> QED BY <2>2 DEF c
<1> QED BY <1>3 DEF Clamped, low

LEMMA BoundariesType ==
    ASSUME NEW p \in Position, NEW t \in Nat, p.funded <= t
    PROVE  BoundariesCrossed(p, t) \in Nat
<1> DEFINE a == p.funded
<1>1. a \in Nat /\ FUNDING_INTERVAL \in Nat \ {0} /\ a <= t
  BY EngineAssumption DEF Position
<1> HIDE DEF a
<1>2. a \div FUNDING_INTERVAL <= t \div FUNDING_INTERVAL
  BY <1>1, DivMonotone
<1>3. a \div FUNDING_INTERVAL \in Int /\ t \div FUNDING_INTERVAL \in Int
  BY <1>1, DivFacts
<1> QED BY <1>2, <1>3 DEF BoundariesCrossed, a

LEMMA NothingRounds ==
    ASSUME NEW d \in Nat \ {0}
    PROVE  round2(0, d) = 0
<1>1. CENT \in Nat \ {0}
  BY EngineAssumption
<1>2. PICK e, k : e = d * CENT /\ k = 2 * e
  OBVIOUS
<1>3. e \in Nat \ {0} /\ k \in Nat \ {0}
  BY <1>1, <1>2
<1>4. e \div k = 0
  BY <1>2, <1>3, DivIs
<1>5. 2 * 0 + e = e
  BY <1>3
<1>6. Round(0, e) = (2 * 0 + e) \div k
  BY <1>2 DEF Round
<1>7. round2(0, d) = CENT * Round(0, e)
  BY <1>2 DEF round2
<1> QED BY <1>1, <1>4, <1>5, <1>6, <1>7

LEMMA FundingDueType ==
    ASSUME NEW p \in Position, NEW prices, PricesOK(prices), NEW t \in Nat, p.funded <= t
    PROVE  /\ FundingDue(p, prices, t) \in Int
           /\ BoundariesCrossed(p, t) = 0 => FundingDue(p, prices, t) = 0
<1> DEFINE e == BoundariesCrossed(p, t)
           c == Clamped(prices[p.market].rate)
           n == - Dir(p.side) * p.units * c * e
<1>1. e \in Nat
  BY BoundariesType
<1>2. c \in Int
  BY ClampedType DEF PricesOK, Position
<1>3. Dir(p.side) \in Int /\ p.units \in Int
  BY DirType DEF Position
<1>4. RATE_UNIT \in Nat \ {0}
  BY EngineAssumption
<1>5. FundingDue(p, prices, t) = IF prices[p.market].px # 0 THEN round2(n, RATE_UNIT) ELSE 0
  BY DEF FundingDue, accrueFunding
<1> HIDE DEF e, c
<1>6. n \in Int
  BY <1>1, <1>2, <1>3
<1>7. e = 0 => n = 0
  <2> DEFINE k == Dir(p.side) * p.units * c
  <2>1. k \in Int /\ n = - (k * e)
    BY <1>2, <1>3
  <2> HIDE DEF k, n
  <2>2. k * 0 = 0
    BY <2>1
  <2> QED BY <2>1, <2>2
<1> HIDE DEF n
<1>8. round2(n, RATE_UNIT) \in Int
  BY <1>4, <1>6, CentFacts
<1> QED BY <1>4, <1>5, <1>7, <1>8, NothingRounds DEF e

\* The trade a position stands for does not change; its funding grows by what is due.
LEMMA RefreshedFacts ==
    ASSUME NEW n, NEW t \in Nat, NEW p, PositionOK(p, n, t), NEW prices, PricesOK(prices)
    PROVE  /\ PositionOK(Refreshed(p, prices, t), n, t)
           /\ Refreshed(p, prices, t).id = p.id
           /\ Refreshed(p, prices, t).units = p.units
           /\ Refreshed(p, prices, t).funding = p.funding + FundingDue(p, prices, t)
<1>1. p \in Position /\ p.funded <= t /\ p.id <= n /\ p.fee = FEE * p.units
  BY DEF PositionOK
<1> DEFINE due == FundingDue(p, prices, t)
           b == BoundariesCrossed(p, t)
           last == (t \div FUNDING_INTERVAL) * FUNDING_INTERVAL
           px == prices[p.market].px
           s == settleFunding(p, prices, t)
           q == markPosition(s, prices)
<1>2. due \in Int /\ (b = 0 => due = 0) /\ b \in Nat /\ (px = 0 => due = 0)
  BY <1>1, FundingDueType, BoundariesType DEF FundingDue
<1>3. last \in Nat /\ last <= t
  <2>1. FUNDING_INTERVAL \in Nat \ {0}
    BY EngineAssumption
  <2>2. last <= t /\ t \div FUNDING_INTERVAL \in Int
    BY <2>1, DivFacts
  <2>3. 0 \div FUNDING_INTERVAL = 0
    BY <2>1, DivIs
  <2>4. t \div FUNDING_INTERVAL \in Nat
    BY <2>1, <2>2, <2>3, DivMonotone
  <2> QED BY <2>1, <2>2, <2>4
<1>4. px \in Nat
  BY <1>1 DEF PricesOK, Position
<1>5. s = IF px # 0 /\ b > 0 THEN [p EXCEPT !.funding = @ + due, !.funded = last] ELSE p
  BY DEF settleFunding
<1>6. q = IF prices[s.market].px # 0 THEN [s EXCEPT !.mark = prices[s.market].px] ELSE s
  BY DEF markPosition
<1> HIDE DEF due, b, last, px, s, q
<1>7. /\ s \in Position /\ s.id = p.id /\ s.units = p.units /\ s.fee = p.fee
      /\ s.funding = p.funding + due /\ s.funded <= t /\ s.market = p.market
  <2>1. p.funding \in Int
    BY <1>1 DEF Position
  <2>2. CASE px # 0 /\ b > 0
    <3> DEFINE x == p.funding + due
    <3>1. x \in Int /\ s = [p EXCEPT !.funding = x, !.funded = last]
      BY <1>2, <1>5, <2>1, <2>2
    <3> HIDE DEF x
    <3>2. s \in Position /\ s.funding = x /\ s.funded = last
      BY <1>1, <1>3, <3>1 DEF Position
    <3>3. s.id = p.id /\ s.units = p.units /\ s.fee = p.fee /\ s.market = p.market
      BY <1>1, <3>1 DEF Position
    <3> QED BY <1>3, <3>2, <3>3 DEF x
  <2>3. CASE ~ (px # 0 /\ b > 0)
    BY <1>1, <1>2, <1>5, <2>1, <2>3
  <2> QED BY <2>2, <2>3
<1>8. /\ q \in Position /\ q.id = s.id /\ q.units = s.units /\ q.fee = s.fee
      /\ q.funding = s.funding /\ q.funded = s.funded
  BY <1>4, <1>6, <1>7 DEF Position, px
<1>9. Refreshed(p, prices, t) = q
  BY DEF Refreshed, q, s
<1> QED BY <1>1, <1>7, <1>8, <1>9 DEF PositionOK, due

\* What a trade recognizes beside its price PnL and the taker fees of its units.
FundingShare(c) == c.pnl - PricePnl(c.side, c.units, c.entry, c.fill) + 2 * FEE * c.units

LEMMA PricePnlType ==
    ASSUME NEW side, NEW units \in Int, NEW entry \in Int, NEW px \in Int
    PROVE  PricePnl(side, units, entry, px) \in Int
BY DirType DEF PricePnl

\* A whole close recognizes both fees of every unit and all the funding, rounded twice.
LEMMA WholeCloseFacts ==
    ASSUME NEW n, NEW t, NEW p, PositionOK(p, n, t), NEW fill \in Nat,
           NEW by \in {"liquidation", "tp", "sl"}
    PROVE  /\ WholeClose(p, fill, by) \in CloseTrade
           /\ WholeClose(p, fill, by).position = p.id /\ WholeClose(p, fill, by).left = 0
           /\ FundingShare(WholeClose(p, fill, by)) \in Int
           /\ Within(FundingShare(WholeClose(p, fill, by)) - p.funding, 2 * CENT)
<1>1. PICK priced, r, fees, x, y, c :
        /\ priced = PricePnl(p.side, p.units, p.entry, fill) /\ r = round2(priced, 1)
        /\ fees = FEE * p.units /\ x = r - fees - p.fee + p.funding /\ y = round2(x, 1)
        /\ c = WholeClose(p, fill, by)
  OBVIOUS
<1>2. /\ p \in Position /\ p.fee = fees /\ p.funding \in Int /\ fees \in Nat
      /\ 2 * FEE * p.units = 2 * fees
  <2>1. p \in Position /\ p.fee = fees /\ FEE \in Nat /\ p.units \in Nat /\ p.funding \in Int
    BY <1>1, EngineAssumption DEF PositionOK, Position
  <2> QED BY <1>1, <2>1
<1>3. priced \in Int
  BY <1>1, <1>2, PricePnlType DEF Position
<1>4. r \in Int /\ Within(r - priced, CENT)
  BY <1>1, <1>3, WholeCentFacts
<1>5. x \in Int /\ x = r - 2 * fees + p.funding
  BY <1>1, <1>2, <1>4
<1>6. y \in Int /\ Within(y - x, CENT)
  BY <1>1, <1>5, WholeCentFacts
<1>7. c = [position |-> p.id, side |-> p.side, units |-> p.units, left |-> 0,
           entry |-> p.entry, fill |-> fill, by |-> by, pnl |-> y]
  BY <1>1 DEF WholeClose, realizedOnClose
<1>8. c \in CloseTrade
  BY <1>2, <1>6, <1>7 DEF CloseTrade, Position
<1>9. FundingShare(c) = y - priced + 2 * fees
  BY <1>1, <1>2, <1>7 DEF FundingShare
<1>10. FundingShare(c) \in Int /\ Within(FundingShare(c) - p.funding, 2 * CENT)
  <2>1. PICK e : e = FundingShare(c) - p.funding
    OBVIOUS
  <2>2. e \in Int /\ e = (y - x) + (r - priced) /\ CENT \in Nat
    BY <1>2, <1>3, <1>4, <1>5, <1>6, <1>9, <2>1, EngineAssumption
  <2>3. Within(e, 2 * CENT)
    BY <1>3, <1>4, <1>5, <1>6, <2>2 DEF Within
  <2> QED BY <1>2, <1>3, <1>6, <1>9, <2>1, <2>3
<1>11. c.position = p.id /\ c.left = 0
  BY <1>7
<1> QED BY <1>1, <1>8, <1>10, <1>11

LEMMA DropBracketFacts ==
    ASSUME NEW n, NEW t, NEW p, PositionOK(p, n, t)
    PROVE  /\ PositionOK(DropBracket(p), n, t) /\ DropBracket(p).id = p.id
           /\ DropBracket(p).units = p.units /\ DropBracket(p).funding = p.funding
BY DEF DropBracket, PositionOK, Position

LEMMA CarryType == \A p \in Position : positionPnl(p) \in Int /\ Carry(p) \in Int
<1> SUFFICES ASSUME NEW p \in Position PROVE positionPnl(p) \in Int /\ Carry(p) \in Int
  OBVIOUS
<1>1. PricePnl(p.side, p.units, p.entry, p.mark) \in Int
  BY PricePnlType DEF Position
<1>2. positionPnl(p) \in Int
  BY <1>1, WholeCentFacts DEF positionPnl
<1> QED BY <1>2 DEF Carry, Position

-----------------------------------------------------------------------------
(* What a recompute does to the positions: sums over them. *)

\* Positions have ids of their own.
PositionsOK(S, n, t) ==
    /\ \A p \in S : PositionOK(p, n, t)
    /\ \A p, q \in S : p.id = q.id => p = q

FundingOf(S) == [p \in S |-> p.funding]
DueOf(S, prices, t) == [p \in S |-> FundingDue(p, prices, t)]
CarryOf(S) == [p \in S |-> Carry(p)]
PnlOf(T) == [c \in T |-> Pnl(c)]
ShareOf(T) == [c \in T |-> FundingShare(c)]
SlackOf(T) == [c \in T |-> CENT * Roundings(c)]

LEMMA PositionsFinite ==
    ASSUME NEW n, NEW t, NEW S, PositionsOK(S, n, t)
    PROVE  IsFiniteSet(S)
<1> DEFINE id == [p \in S |-> p.id]
<1>1. \A p \in S : p.id \in 1 .. MaxIntents
  BY DEF PositionsOK, PositionOK, Position
<1>2. id \in Injection(S, 1 .. MaxIntents)
  BY <1>1 DEF Injection, IsInjective, PositionsOK
<1>3. IsFiniteSet(1 .. MaxIntents)
  <2>1. 1 \in Int /\ MaxIntents \in Int
    BY EngineAssumption
  <2> QED BY <2>1, FS_Interval, Zenon
<1> QED BY <1>2, <1>3, FS_Injection

LEMMA PositionsSubset ==
    ASSUME NEW n, NEW t, NEW S, PositionsOK(S, n, t), NEW R \in SUBSET S
    PROVE  PositionsOK(R, n, t)
BY DEF PositionsOK

LEMMA FundingIsInt ==
    ASSUME NEW n, NEW t, NEW S, PositionsOK(S, n, t)
    PROVE  /\ \A p \in S : p.funding \in Int
           /\ SumFunctionOnSet(FundingOf(S), S) \in Int
<1>1. \A p \in S : p.funding \in Int
  BY DEF PositionsOK, PositionOK, Position
<1>2. PICK f : f = FundingOf(S)
  OBVIOUS
<1>3. \A p \in S : f[p] \in Int
  BY <1>1, <1>2 DEF FundingOf
<1>4. SumFunctionOnSet(f, S) \in Int
  BY <1>3, PositionsFinite, SumType
<1> QED BY <1>1, <1>2, <1>4

\* Funding and marking: the positions are the same ones, and what they are charged is what
\* was due.
LEMMA MarkedFacts ==
    ASSUME NEW n, NEW t \in Nat, NEW S, PositionsOK(S, n, t), NEW prices, PricesOK(prices),
           NEW M, M = FundedAndMarked(S, prices, t)
    PROVE  /\ PositionsOK(M, n, t)
           /\ \A q \in M : \E p \in S : q.id = p.id /\ q.units = p.units
           /\ SumFunctionOnSet(DueOf(S, prices, t), S) \in Int
           /\ SumFunctionOnSet(FundingOf(M), M)
                = SumFunctionOnSet(FundingOf(S), S) + SumFunctionOnSet(DueOf(S, prices, t), S)
<1>1. PICK m : m = [p \in S |-> Refreshed(p, prices, t)]
  OBVIOUS
<1>2. M = {m[p] : p \in S}
  BY <1>1 DEF FundedAndMarked, Refreshed
<1>3. ASSUME NEW p \in S
      PROVE  /\ PositionOK(m[p], n, t) /\ m[p].id = p.id /\ m[p].units = p.units
             /\ m[p].funding = p.funding + FundingDue(p, prices, t)
             /\ FundingDue(p, prices, t) \in Int /\ p.funding \in Int
  <2>1. PositionOK(p, n, t)
    BY DEF PositionsOK
  <2>2. p \in Position /\ p.funded <= t
    BY <2>1 DEF PositionOK
  <2>3. FundingDue(p, prices, t) \in Int
    BY <2>2, FundingDueType
  <2>4. p.funding \in Int
    BY <2>2 DEF Position
  <2>5. m[p] = Refreshed(p, prices, t)
    BY <1>1
  <2>6. /\ PositionOK(Refreshed(p, prices, t), n, t)
        /\ Refreshed(p, prices, t).id = p.id
        /\ Refreshed(p, prices, t).units = p.units
        /\ Refreshed(p, prices, t).funding = p.funding + FundingDue(p, prices, t)
    BY <2>1, RefreshedFacts
  <2> QED BY <2>3, <2>4, <2>5, <2>6
<1>4. \A p, q \in S : m[p].id = m[q].id => p = q
  BY <1>3 DEF PositionsOK
<1>5. PositionsOK(M, n, t)
  BY <1>2, <1>3, <1>4 DEF PositionsOK
<1>6. PICK f, d, h, g :
        /\ f = FundingOf(S) /\ d = DueOf(S, prices, t) /\ g = FundingOf(M)
        /\ h = [p \in S |-> p.funding + FundingDue(p, prices, t)]
  OBVIOUS
<1>7. IsFiniteSet(S)
  BY PositionsFinite
<1>8. /\ \A p \in S : f[p] = p.funding /\ d[p] = FundingDue(p, prices, t)
      /\ \A p \in S : h[p] = p.funding + FundingDue(p, prices, t)
      /\ \A q \in M : g[q] = q.funding
  BY <1>6 DEF FundingOf, DueOf
<1>9. SumFunctionOnSet(h, S) = SumFunctionOnSet(f, S) + SumFunctionOnSet(d, S)
  <2>1. \A p \in S : f[p] \in Int /\ d[p] \in Int /\ h[p] = f[p] + d[p]
    BY <1>3, <1>8
  <2> QED BY <1>7, <2>1, SumPlus
<1>10. SumFunctionOnSet(g, M) = SumFunctionOnSet(h, S)
  <2>1. \A p \in S : h[p] \in Int /\ g[m[p]] = h[p]
    <3> SUFFICES ASSUME NEW p \in S PROVE h[p] \in Int /\ g[m[p]] = h[p]
      OBVIOUS
    <3>1. m[p] \in M
      BY <1>2
    <3> QED BY <1>3, <1>8, <3>1
  <2>2. \A p, q \in S : m[p] = m[q] => p = q
    BY <1>4
  <2> QED BY <1>2, <1>7, <2>1, <2>2, SumImage
<1>11. SumFunctionOnSet(d, S) \in Int
  <2>1. \A p \in S : d[p] \in Int
    BY <1>3, <1>8
  <2> QED BY <1>7, <2>1, SumType
<1>12. \A q \in M : \E p \in S : q.id = p.id /\ q.units = p.units
  BY <1>2, <1>3
<1> QED BY <1>5, <1>6, <1>9, <1>10, <1>11, <1>12

Closes(D, fill, by) == {WholeClose(p, fill[p], by[p]) : p \in D}

\* Forced closes: one trade for each position, with all its funding but for the rounding.
LEMMA ClosesFacts ==
    ASSUME NEW n, NEW t, NEW D, PositionsOK(D, n, t), NEW fill \in [D -> Nat],
           NEW by \in [D -> {"liquidation", "tp", "sl"}],
           NEW C, C = Closes(D, fill, by)
    PROVE  /\ C \subseteq CloseTrade /\ IsFiniteSet(C)
           /\ \A c \in C : c.left = 0 /\ \E p \in D : c.position = p.id
           /\ Within(SumFunctionOnSet(ShareOf(C), C) - SumFunctionOnSet(FundingOf(D), D),
                     SumFunctionOnSet(SlackOf(C), C))
<1>1. PICK m : m = [p \in D |-> WholeClose(p, fill[p], by[p])]
  OBVIOUS
<1>2. C = {m[p] : p \in D}
  BY <1>1 DEF Closes
<1>3. ASSUME NEW p \in D
      PROVE  /\ m[p] \in CloseTrade /\ m[p].position = p.id /\ m[p].left = 0
             /\ FundingShare(m[p]) \in Int
             /\ Within(FundingShare(m[p]) - p.funding, 2 * CENT)
  <2>1. PositionOK(p, n, t)
    BY DEF PositionsOK
  <2>2. fill[p] \in Nat /\ by[p] \in {"liquidation", "tp", "sl"}
    OBVIOUS
  <2> QED BY <1>1, <2>1, <2>2, WholeCloseFacts
<1>4. IsFiniteSet(D) /\ IsFiniteSet(C)
  BY <1>2, PositionsFinite, FiniteImage
<1>5. PICK f, s, k, g, h :
        /\ f = FundingOf(D) /\ g = ShareOf(C) /\ h = SlackOf(C)
        /\ s = [p \in D |-> FundingShare(m[p])] /\ k = [p \in D |-> 2 * CENT]
  OBVIOUS
<1>6. CENT \in Nat /\ 2 * CENT \in Int /\ CENT * 2 = 2 * CENT
  BY EngineAssumption
<1>7. ASSUME NEW p \in D
      PROVE  /\ f[p] \in Int /\ s[p] \in Int /\ k[p] \in Int /\ g[m[p]] = s[p] /\ h[m[p]] = k[p]
             /\ Within(s[p] - f[p], k[p])
  <2>1. m[p] \in C
    BY <1>2
  <2>2. g[m[p]] = FundingShare(m[p]) /\ h[m[p]] = CENT * 2
    BY <1>3, <1>5, <2>1 DEF ShareOf, SlackOf, Roundings
  <2>3. f[p] = p.funding /\ s[p] = FundingShare(m[p]) /\ k[p] = 2 * CENT
    BY <1>5 DEF FundingOf
  <2>4. p.funding \in Int
    BY FundingIsInt
  <2> QED BY <1>3, <1>6, <2>2, <2>3, <2>4
<1>8. \A p, q \in D : m[p] = m[q] => p = q
  BY <1>3 DEF PositionsOK
<1>9. SumFunctionOnSet(g, C) = SumFunctionOnSet(s, D)
  <2>1. \A p \in D : s[p] \in Int /\ g[m[p]] = s[p]
    BY <1>7
  <2> QED BY ONLY <1>2, <1>4, <1>8, <2>1, SumImage
<1>10. SumFunctionOnSet(h, C) = SumFunctionOnSet(k, D)
  <2>1. \A p \in D : k[p] \in Int /\ h[m[p]] = k[p]
    BY <1>7
  <2> QED BY ONLY <1>2, <1>4, <1>8, <2>1, SumImage
<1>11. /\ 2 * (SumFunctionOnSet(s, D) - SumFunctionOnSet(f, D)) <= SumFunctionOnSet(k, D)
       /\ 2 * (SumFunctionOnSet(f, D) - SumFunctionOnSet(s, D)) <= SumFunctionOnSet(k, D)
  <2>1. \A p \in D : /\ f[p] \in Int /\ s[p] \in Int /\ k[p] \in Int
                     /\ 2 * (s[p] - f[p]) <= k[p] /\ 2 * (f[p] - s[p]) <= k[p]
    BY <1>7 DEF Within
  <2> QED BY ONLY <1>4, <2>1, SumClose
<1>12. /\ SumFunctionOnSet(s, D) \in Int /\ SumFunctionOnSet(f, D) \in Int
       /\ SumFunctionOnSet(k, D) \in Int
  BY <1>4, <1>7, SumType
<1>13. Within(SumFunctionOnSet(s, D) - SumFunctionOnSet(f, D), SumFunctionOnSet(k, D))
  BY <1>11, <1>12 DEF Within
<1> QED BY <1>2, <1>3, <1>4, <1>5, <1>9, <1>10, <1>13

\* The brackets that expired are dropped from what stays open.
Undated(p, t) == IF Expired(p, t) THEN DropBracket(p) ELSE p

AllUndated(R, t) == {Undated(p, t) : p \in R}

LEMMA UndatedFacts ==
    ASSUME NEW n, NEW t, NEW R, PositionsOK(R, n, t), NEW K, K = AllUndated(R, t)
    PROVE  /\ PositionsOK(K, n, t)
           /\ \A q \in K : \E p \in R : q.id = p.id /\ q.units = p.units
           /\ SumFunctionOnSet(FundingOf(K), K) = SumFunctionOnSet(FundingOf(R), R)
<1>1. PICK m : m = [p \in R |-> Undated(p, t)]
  OBVIOUS
<1>2. K = {m[p] : p \in R}
  BY <1>1 DEF AllUndated
<1>3. ASSUME NEW p \in R
      PROVE  /\ PositionOK(m[p], n, t) /\ m[p].id = p.id /\ m[p].units = p.units
             /\ m[p].funding = p.funding
  <2>1. PositionOK(p, n, t) /\ m[p] = Undated(p, t)
    BY <1>1 DEF PositionsOK
  <2>2. CASE Expired(p, t)
    <3>1. m[p] = DropBracket(p)
      BY <2>1, <2>2 DEF Undated
    <3> QED BY <2>1, <3>1, DropBracketFacts
  <2>3. CASE ~ Expired(p, t)
    BY <2>1, <2>3 DEF Undated
  <2> QED BY <2>2, <2>3
<1>4. \A p, q \in R : m[p].id = m[q].id => p = q
  BY <1>3 DEF PositionsOK
<1>5. PositionsOK(K, n, t)
  BY <1>2, <1>3, <1>4 DEF PositionsOK
<1>6. PICK f, g : f = FundingOf(R) /\ g = FundingOf(K)
  OBVIOUS
<1>7. \A p \in R : f[p] \in Int /\ g[m[p]] = f[p]
  <2> SUFFICES ASSUME NEW p \in R PROVE f[p] \in Int /\ g[m[p]] = f[p]
    OBVIOUS
  <2>1. m[p] \in K
    BY <1>2
  <2>2. g[m[p]] = m[p].funding /\ f[p] = p.funding
    BY <1>6, <2>1 DEF FundingOf
  <2> QED BY <1>3, <2>2, FundingIsInt
<1>8. SumFunctionOnSet(g, K) = SumFunctionOnSet(f, R)
  <2>1. \A p, q \in R : m[p] = m[q] => p = q
    BY <1>4
  <2> QED BY <1>2, <1>7, <2>1, PositionsFinite, SumImage
<1>9. \A q \in K : \E p \in R : q.id = p.id /\ q.units = p.units
  BY <1>2, <1>3
<1> QED BY <1>5, <1>6, <1>8, <1>9

LEMMA FundingSplits ==
    ASSUME NEW n, NEW t, NEW M, PositionsOK(M, n, t), NEW D \in SUBSET M, NEW R, R = M \ D
    PROVE  SumFunctionOnSet(FundingOf(M), M)
             = SumFunctionOnSet(FundingOf(D), D) + SumFunctionOnSet(FundingOf(R), R)
<1>1. PICK f, d, r : f = FundingOf(M) /\ d = FundingOf(D) /\ r = FundingOf(R)
  OBVIOUS
<1>2. IsFiniteSet(M) /\ IsFiniteSet(D) /\ IsFiniteSet(R)
  BY PositionsFinite, FS_Subset
<1>3. \A p \in M : f[p] \in Int
  BY <1>1, FundingIsInt DEF FundingOf
<1>4. (\A p \in D : d[p] = f[p]) /\ (\A p \in R : r[p] = f[p])
  BY <1>1 DEF FundingOf
<1>5. SumFunctionOnSet(f, D \cup R) = SumFunctionOnSet(f, D) + SumFunctionOnSet(f, R)
  BY <1>2, <1>3, SumUnion
<1>6. SumFunctionOnSet(d, D) = SumFunctionOnSet(f, D) /\ SumFunctionOnSet(r, R) = SumFunctionOnSet(f, R)
  BY <1>2, <1>4, SumSame
<1>7. D \cup R = M
  OBVIOUS
<1>8. SumFunctionOnSet(f, D \cup R) = SumFunctionOnSet(f, M)
  BY <1>7, Zenon
<1> QED BY <1>1, <1>5, <1>6, <1>8

-----------------------------------------------------------------------------
(* What a recompute does to the books. *)

\* A position still open has been closed in part only, down to no less than it has left.
TradesOK(T, S, n) ==
    /\ T \subseteq CloseTrade /\ IsFiniteSet(T)
    /\ \A c \in T : c.position <= n
    /\ \A c \in T, p \in S : c.position = p.id => c.left >= p.units

VaultOK(v, t) ==
    /\ PositionsOK(v.positions, v.intentCount, t)
    /\ TradesOK(v.trades, v.positions, v.intentCount)
    /\ v.intentCount \in 0 .. MaxIntents
    /\ v.equity \in Int /\ v.dailyAnchorEquity \in Int /\ v.dailyResetAt \in Nat
    /\ v.realizedTotal \in Int
    /\ v.realizedTotal = SumFunctionOnSet(PnlOf(v.trades), v.trades)

\* The funding the trades recognized and the positions still carry.
Recognized(v) ==
    SumFunctionOnSet(ShareOf(v.trades), v.trades)
    + SumFunctionOnSet(FundingOf(v.positions), v.positions)

\* The half cents the rounding of the trades may have cost or brought.
Slack(v) == SumFunctionOnSet(SlackOf(v.trades), v.trades)

\* The stages of a recompute: funded and marked, liquidated, fired, left open, kept.
IsRecomputed(w, v, prices, t, M, D, F, R, K, C) ==
    /\ M = FundedAndMarked(v.positions, prices, t)
    /\ D = Liquidated(M, computeEquity(v.realizedTotal, M))
    /\ F = Fired(M \ D, t)
    /\ R = (M \ D) \ F
    /\ K = AllUndated(R, t)
    /\ C = closeLiquidations(D) \cup fireBrackets(F)
    /\ w.positions = K
    /\ w.trades = v.trades \cup C
    /\ w.intentCount = v.intentCount
    /\ w.realizedTotal = v.realizedTotal + SumFunctionOnSet(PnlOf(C), C)
    /\ w.equity = computeEquity(w.realizedTotal, K)
    /\ w.dailyAnchorEquity = IF t >= v.dailyResetAt THEN v.equity ELSE v.dailyAnchorEquity
    /\ w.dailyResetAt = IF t >= v.dailyResetAt THEN nextUtcMidnight(t) ELSE v.dailyResetAt
    /\ w.status = detectOutcome(w.equity, w.dailyAnchorEquity).status
    /\ w.violatedRule = detectOutcome(w.equity, w.dailyAnchorEquity).violatedRule

LEMMA RecomputeStages ==
    ASSUME NEW v, NEW prices, NEW t, NEW w, w = recompute(v, prices, t)
    PROVE  \E M, D, F, R, K, C : IsRecomputed(w, v, prices, t, M, D, F, R, K, C)
<1> DEFINE rolls == t >= v.dailyResetAt
           anchor == IF rolls THEN v.equity ELSE v.dailyAnchorEquity
           marked == FundedAndMarked(v.positions, prices, t)
           liquidated == Liquidated(marked, computeEquity(v.realizedTotal, marked))
           survivors == marked \ liquidated
           fired == Fired(survivors, t)
           rest == survivors \ fired
           kept == {IF Expired(p, t) THEN DropBracket(p) ELSE p : p \in survivors \ fired}
           closes == closeLiquidations(liquidated) \cup fireBrackets(fired)
           realized == v.realizedTotal + SumOver(Pnl, closes)
           equity == computeEquity(realized, kept)
           outcome == detectOutcome(equity, anchor)
           trades == v.trades \cup closes
           reset == IF rolls THEN nextUtcMidnight(t) ELSE v.dailyResetAt
<1>1. w = [status |-> outcome.status, violatedRule |-> outcome.violatedRule,
           equity |-> equity, realizedTotal |-> realized,
           positions |-> kept, trades |-> trades, intentCount |-> v.intentCount,
           dailyAnchorEquity |-> anchor, dailyResetAt |-> reset]
  BY Zenon DEF recompute
<1>2. kept = AllUndated(rest, t)
  BY DEF AllUndated, Undated
<1>3. realized = v.realizedTotal + SumFunctionOnSet(PnlOf(closes), closes)
  BY Zenon DEF SumOver, PnlOf
<1>4. outcome = detectOutcome(equity, anchor) /\ equity = computeEquity(realized, kept)
  OBVIOUS
<1>5. /\ marked = FundedAndMarked(v.positions, prices, t)
      /\ liquidated = Liquidated(marked, computeEquity(v.realizedTotal, marked))
      /\ fired = Fired(marked \ liquidated, t)
      /\ rest = (marked \ liquidated) \ fired
      /\ closes = closeLiquidations(liquidated) \cup fireBrackets(fired)
      /\ trades = v.trades \cup closes
      /\ anchor = IF t >= v.dailyResetAt THEN v.equity ELSE v.dailyAnchorEquity
      /\ reset = IF t >= v.dailyResetAt THEN nextUtcMidnight(t) ELSE v.dailyResetAt
  OBVIOUS
<1> HIDE DEF rolls, anchor, marked, liquidated, survivors, fired, rest, kept, closes, realized,
             equity, outcome, trades, reset
<1>6. /\ w.status = outcome.status /\ w.violatedRule = outcome.violatedRule
      /\ w.equity = equity /\ w.realizedTotal = realized
      /\ w.positions = kept /\ w.trades = trades /\ w.intentCount = v.intentCount
      /\ w.dailyAnchorEquity = anchor /\ w.dailyResetAt = reset
  BY <1>1
<1>7. IsRecomputed(w, v, prices, t, marked, liquidated, fired, rest, kept, closes)
  BY <1>2, <1>3, <1>4, <1>5, <1>6 DEF IsRecomputed
<1> QED BY <1>7

LEMMA TradesAdd ==
    ASSUME NEW T, T \subseteq CloseTrade, IsFiniteSet(T), NEW C, C \subseteq CloseTrade,
           IsFiniteSet(C), T \cap C = {}, NEW U, U = T \cup C
    PROVE  /\ SumFunctionOnSet(ShareOf(T), T) \in Int /\ SumFunctionOnSet(PnlOf(T), T) \in Int
           /\ SumFunctionOnSet(SlackOf(T), T) \in Int
           /\ SumFunctionOnSet(ShareOf(U), U)
                = SumFunctionOnSet(ShareOf(T), T) + SumFunctionOnSet(ShareOf(C), C)
           /\ SumFunctionOnSet(SlackOf(U), U)
                = SumFunctionOnSet(SlackOf(T), T) + SumFunctionOnSet(SlackOf(C), C)
           /\ SumFunctionOnSet(PnlOf(U), U)
                = SumFunctionOnSet(PnlOf(T), T) + SumFunctionOnSet(PnlOf(C), C)
<1>1. \A c \in U : Pnl(c) \in Int /\ FundingShare(c) \in Int /\ CENT * Roundings(c) \in Int
  <2> SUFFICES ASSUME NEW c \in CloseTrade
               PROVE  Pnl(c) \in Int /\ FundingShare(c) \in Int /\ CENT * Roundings(c) \in Int
    OBVIOUS
  <2>1. c.pnl \in Int /\ c.units \in Nat /\ FEE \in Nat
    BY EngineAssumption DEF CloseTrade
  <2>2. PricePnl(c.side, c.units, c.entry, c.fill) \in Int
    BY PricePnlType DEF CloseTrade
  <2>3. 2 * FEE * c.units \in Int
    BY <2>1
  <2>4. CENT * Roundings(c) \in Int
    BY EngineAssumption DEF Roundings
  <2> QED BY <2>1, <2>2, <2>3, <2>4 DEF Pnl, FundingShare
<1>2. ASSUME NEW f, NEW g, NEW h, \A c \in U : h[c] \in Int,
             \A c \in T : f[c] = h[c], \A c \in C : g[c] = h[c]
      PROVE  /\ SumFunctionOnSet(f, T) \in Int
             /\ SumFunctionOnSet(h, U) = SumFunctionOnSet(f, T) + SumFunctionOnSet(g, C)
  <2>1. SumFunctionOnSet(h, T \cup C) = SumFunctionOnSet(h, T) + SumFunctionOnSet(h, C)
    BY <1>2, SumUnion
  <2>2. SumFunctionOnSet(f, T) = SumFunctionOnSet(h, T)
    BY <1>2, SumSame
  <2>3. SumFunctionOnSet(g, C) = SumFunctionOnSet(h, C)
    BY <1>2, SumSame
  <2>4. SumFunctionOnSet(h, T \cup C) = SumFunctionOnSet(h, U)
    BY Zenon
  <2>5. SumFunctionOnSet(h, T) \in Int
    BY <1>2, SumType
  <2> QED BY <2>1, <2>2, <2>3, <2>4, <2>5
<1>3. PICK f, g, h : f = ShareOf(T) /\ g = ShareOf(C) /\ h = ShareOf(U)
  OBVIOUS
<1>4. PICK x, y, z : x = PnlOf(T) /\ y = PnlOf(C) /\ z = PnlOf(U)
  OBVIOUS
<1>5. PICK k, l, o : k = SlackOf(T) /\ l = SlackOf(C) /\ o = SlackOf(U)
  OBVIOUS
<1>6. /\ \A c \in U : h[c] \in Int /\ z[c] \in Int /\ o[c] \in Int
      /\ \A c \in T : f[c] = h[c] /\ x[c] = z[c] /\ k[c] = o[c]
      /\ \A c \in C : g[c] = h[c] /\ y[c] = z[c] /\ l[c] = o[c]
  BY <1>1, <1>3, <1>4, <1>5 DEF ShareOf, PnlOf, SlackOf
<1>7. /\ SumFunctionOnSet(f, T) \in Int
      /\ SumFunctionOnSet(h, U) = SumFunctionOnSet(f, T) + SumFunctionOnSet(g, C)
  BY <1>2, <1>6
<1>8. /\ SumFunctionOnSet(x, T) \in Int
      /\ SumFunctionOnSet(z, U) = SumFunctionOnSet(x, T) + SumFunctionOnSet(y, C)
  BY <1>2, <1>6
<1>9. /\ SumFunctionOnSet(k, T) \in Int
      /\ SumFunctionOnSet(o, U) = SumFunctionOnSet(k, T) + SumFunctionOnSet(l, C)
  BY <1>2, <1>6
<1> QED BY <1>3, <1>4, <1>5, <1>7, <1>8, <1>9

\* A bracket that fires names its leg.
LEMMA TriggerType ==
    \A p : bracketTrigger(p) # "none" => bracketTrigger(p) \in {"tp", "sl"}
<1> SUFFICES ASSUME NEW p, bracketTrigger(p) # "none"
             PROVE  bracketTrigger(p) \in {"tp", "sl"}
  OBVIOUS
<1>1. CASE Reached(p.mark, p.sl, p.side = "short")
  BY <1>1 DEF bracketTrigger
<1>2. CASE ~ Reached(p.mark, p.sl, p.side = "short") /\ Reached(p.mark, p.tp, p.side = "long")
  BY <1>2 DEF bracketTrigger
<1>3. CASE ~ Reached(p.mark, p.sl, p.side = "short") /\ ~ Reached(p.mark, p.tp, p.side = "long")
  BY <1>3 DEF bracketTrigger
<1> QED BY <1>1, <1>2, <1>3

\* What the two kinds of forced closes book.
LEMMA ForcedFacts ==
    ASSUME NEW n, NEW t, NEW D, PositionsOK(D, n, t),
           NEW C, \/ C = closeLiquidations(D)
                  \/ C = fireBrackets(D) /\ \A p \in D : bracketTrigger(p) # "none"
    PROVE  /\ C \subseteq CloseTrade /\ IsFiniteSet(C)
           /\ \A c \in C : c.left = 0 /\ \E p \in D : c.position = p.id
           /\ Within(SumFunctionOnSet(ShareOf(C), C) - SumFunctionOnSet(FundingOf(D), D),
                     SumFunctionOnSet(SlackOf(C), C))
<1>1. \A p \in D : p.mark \in Nat /\ p.sl \in Nat /\ p.tp \in Nat
  BY DEF PositionsOK, PositionOK, Position
<1>2. CASE C = closeLiquidations(D)
  <2>1. PICK fill, by : fill = [p \in D |-> p.mark] /\ by = [p \in D |-> "liquidation"]
    OBVIOUS
  <2>2. fill \in [D -> Nat] /\ by \in [D -> {"liquidation", "tp", "sl"}]
    BY <1>1, <2>1
  <2>3. C = Closes(D, fill, by)
    BY <1>2, <2>1 DEF closeLiquidations, Closes
  <2> QED BY <2>2, <2>3, ClosesFacts
<1>3. CASE C = fireBrackets(D) /\ \A p \in D : bracketTrigger(p) # "none"
  <2>1. PICK fill, by :
          /\ fill = [p \in D |-> IF bracketTrigger(p) = "sl" THEN p.sl ELSE p.tp]
          /\ by = [p \in D |-> bracketTrigger(p)]
    OBVIOUS
  <2>2. fill \in [D -> Nat] /\ by \in [D -> {"liquidation", "tp", "sl"}]
    BY <1>1, <1>3, <2>1, TriggerType
  <2>3. C = Closes(D, fill, by)
    BY <1>3, <2>1 DEF fireBrackets, Closes
  <2> QED BY <2>2, <2>3, ClosesFacts
<1> QED BY <1>2, <1>3

LEMMA MidnightFacts ==
    ASSUME NEW t \in Nat
    PROVE  /\ nextUtcMidnight(t) \in Nat /\ nextUtcMidnight(t) > t
           /\ nextUtcMidnight(t) = (t \div DAY) * DAY + DAY
<1>1. DAY \in Nat \ {0}
  BY EngineAssumption
<1>2. t \div DAY \in Int /\ (t \div DAY) * DAY <= t /\ t < (t \div DAY) * DAY + DAY
  BY <1>1, DivFacts
<1> DEFINE q == (t \div DAY) * DAY
<1>3. q \in Int
  BY <1>1, <1>2
<1> HIDE DEF q
<1>4. q + DAY \in Nat /\ q + DAY > t
  BY <1>1, <1>2, <1>3 DEF q
<1> QED BY <1>4 DEF nextUtcMidnight, q

\* An equity is that of the booked total and the open positions, to the nearest cent.
LEMMA EquityType ==
    ASSUME NEW n, NEW t, NEW S, PositionsOK(S, n, t), NEW r \in Int
    PROVE  /\ SumFunctionOnSet(CarryOf(S), S) \in Int
           /\ computeEquity(r, S) = round2(START + r + SumFunctionOnSet(CarryOf(S), S), 1)
           /\ computeEquity(r, S) \in Int
           /\ Within(computeEquity(r, S) - (START + r + SumFunctionOnSet(CarryOf(S), S)), CENT)
<1>1. PICK f, x : f = CarryOf(S) /\ x = START + r + SumFunctionOnSet(f, S)
  OBVIOUS
<1>2. \A p \in S : f[p] \in Int
  BY <1>1, CarryType DEF CarryOf, PositionsOK, PositionOK
<1>3. SumFunctionOnSet(f, S) \in Int
  BY <1>2, PositionsFinite, SumType
<1>4. computeEquity(r, S) = round2(START + r + SumFunctionOnSet(CarryOf(S), S), 1)
  BY Zenon DEF computeEquity, SumOver, CarryOf
<1>5. x \in Int
  BY <1>1, <1>3, EngineAssumption
<1>6. round2(x, 1) \in Int /\ Within(round2(x, 1) - x, CENT)
  BY <1>5, WholeCentFacts
<1> QED BY <1>1, <1>3, <1>4, <1>6

\* The starting equity is one of whole cents.
LEMMA StartIsRounded == round2(START, 1) = START
<1>1. CENT \in Nat \ {0} /\ START \in Nat /\ START % CENT = 0
  BY EngineAssumption
<1>2. PICK k : k = START \div CENT
  OBVIOUS
<1>3. k \in Int /\ START = CENT * k
  BY <1>1, <1>2
<1>4. PICK x, d : x = 2 * START + CENT /\ d = 2 * CENT
  OBVIOUS
<1>5. x \in Int /\ d \in Nat \ {0} /\ k * d <= x /\ x < k * d + d
  <2>1. k * d = 2 * (CENT * k) /\ CENT * k \in Int
    BY <1>1, <1>3, <1>4
  <2> QED BY <1>1, <1>3, <1>4, <2>1
<1>6. x \div d = k
  BY <1>3, <1>5, DivIs
<1>7. Round(START, CENT) = x \div d
  BY <1>1, <1>4 DEF Round
<1>8. round2(START, 1) = CENT * Round(START, CENT)
  <2>1. 1 * CENT = CENT
    BY <1>1
  <2> QED BY <2>1 DEF round2
<1> QED BY <1>3, <1>6, <1>7, <1>8

\* The funding due is charged once, and nothing else is gained or lost but by rounding the
\* whole closes that are added to the trades.
LEMMA RecomputeBooks ==
    ASSUME NEW v, NEW prices, PricesOK(prices), NEW t \in Nat, VaultOK(v, t),
           NEW w, w = recompute(v, prices, t),
           NEW due, due = SumFunctionOnSet(DueOf(v.positions, prices, t), v.positions)
    PROVE  /\ VaultOK(w, t)
           /\ w.equity = computeEquity(w.realizedTotal, w.positions)
           /\ due \in Int
           /\ Within(Recognized(w) - Recognized(v) - due, Slack(w) - Slack(v))
<1>1. PICK M, D, F, R, K, C : IsRecomputed(w, v, prices, t, M, D, F, R, K, C)
  BY RecomputeStages
<1>2. PICK n, S, T : n = v.intentCount /\ S = v.positions /\ T = v.trades
  OBVIOUS
<1>3. /\ PositionsOK(S, n, t) /\ TradesOK(T, S, n) /\ n \in 0 .. MaxIntents
      /\ v.realizedTotal \in Int /\ v.realizedTotal = SumFunctionOnSet(PnlOf(T), T)
  BY <1>2 DEF VaultOK
<1>4. /\ PositionsOK(M, n, t)
      /\ \A q \in M : \E p \in S : q.id = p.id /\ q.units = p.units
      /\ SumFunctionOnSet(DueOf(S, prices, t), S) \in Int
      /\ SumFunctionOnSet(FundingOf(M), M)
           = SumFunctionOnSet(FundingOf(S), S) + SumFunctionOnSet(DueOf(S, prices, t), S)
  <2>1. M = FundedAndMarked(S, prices, t)
    BY <1>1, <1>2 DEF IsRecomputed
  <2> QED BY <1>3, <2>1, MarkedFacts
<1>5. PICK V : V = M \ D
  OBVIOUS
<1>6. /\ D \subseteq M /\ F \subseteq V /\ R = V \ F
      /\ \A p \in F : bracketTrigger(p) # "none"
  BY <1>1, <1>5 DEF IsRecomputed, Liquidated, Fired
<1>7. PositionsOK(D, n, t) /\ PositionsOK(V, n, t) /\ PositionsOK(F, n, t) /\ PositionsOK(R, n, t)
  BY <1>4, <1>5, <1>6, PositionsSubset
<1>8. PICK A, B : A = closeLiquidations(D) /\ B = fireBrackets(F) /\ C = A \cup B
  BY <1>1 DEF IsRecomputed
<1>9. /\ A \subseteq CloseTrade /\ IsFiniteSet(A)
      /\ \A c \in A : c.left = 0 /\ \E p \in D : c.position = p.id
      /\ Within(SumFunctionOnSet(ShareOf(A), A) - SumFunctionOnSet(FundingOf(D), D),
                SumFunctionOnSet(SlackOf(A), A))
  BY <1>7, <1>8, ForcedFacts
<1>10. /\ B \subseteq CloseTrade /\ IsFiniteSet(B)
       /\ \A c \in B : c.left = 0 /\ \E p \in F : c.position = p.id
       /\ Within(SumFunctionOnSet(ShareOf(B), B) - SumFunctionOnSet(FundingOf(F), F),
                 SumFunctionOnSet(SlackOf(B), B))
  BY <1>6, <1>7, <1>8, ForcedFacts
<1>11. /\ PositionsOK(K, n, t)
       /\ \A q \in K : \E p \in R : q.id = p.id /\ q.units = p.units
       /\ SumFunctionOnSet(FundingOf(K), K) = SumFunctionOnSet(FundingOf(R), R)
  <2>1. K = AllUndated(R, t)
    BY <1>1 DEF IsRecomputed
  <2> QED BY <1>7, <2>1, UndatedFacts
<1>12. \A c \in C : c.left = 0 /\ \E p \in M : (p \in D \/ p \in F) /\ c.position = p.id
  BY <1>5, <1>6, <1>8, <1>9, <1>10
<1>13. A \cap B = {}
  <2>1. \A p \in D, q \in F : p.id # q.id
    BY <1>4, <1>5, <1>6 DEF PositionsOK
  <2> QED BY <1>9, <1>10, <2>1
<1>14. T \cap C = {}
  <2>1. \A p \in S : p.units \in Nat \ {0}
    BY <1>3 DEF PositionsOK, PositionOK, Position
  <2>2. ASSUME NEW c \in C PROVE c \notin T
    <3>1. PICK q \in M : c.position = q.id
      BY <1>12
    <3>2. PICK p \in S : q.id = p.id
      BY <1>4
    <3>3. c.left = 0 /\ p.units \in Nat \ {0} /\ c.position = p.id
      BY <1>12, <2>1, <3>1, <3>2
    <3>4. ~ (c.left >= p.units)
      BY <3>3
    <3>5. \A d \in T, o \in S : d.position = o.id => d.left >= o.units
      BY <1>3 DEF TradesOK
    <3> QED BY <3>2, <3>3, <3>4, <3>5, Zenon
  <2> QED BY <2>2
<1>15. /\ C \subseteq CloseTrade /\ IsFiniteSet(C)
       /\ SumFunctionOnSet(ShareOf(C), C)
            = SumFunctionOnSet(ShareOf(A), A) + SumFunctionOnSet(ShareOf(B), B)
       /\ SumFunctionOnSet(SlackOf(C), C)
            = SumFunctionOnSet(SlackOf(A), A) + SumFunctionOnSet(SlackOf(B), B)
       /\ SumFunctionOnSet(ShareOf(A), A) \in Int /\ SumFunctionOnSet(SlackOf(A), A) \in Int
       /\ SumFunctionOnSet(ShareOf(B), B) \in Int /\ SumFunctionOnSet(SlackOf(B), B) \in Int
  <2>1. IsFiniteSet(A) /\ IsFiniteSet(B) /\ A \subseteq CloseTrade /\ B \subseteq CloseTrade
    BY <1>9, <1>10
  <2>2. A \cap B = {} /\ C = A \cup B
    BY <1>8, <1>13
  <2>3. C \subseteq CloseTrade /\ IsFiniteSet(C)
    BY <2>1, <2>2, FS_Union
  <2>4. B \cap A = {} /\ C = B \cup A
    BY <2>2
  <2>5. /\ SumFunctionOnSet(ShareOf(B), B) \in Int /\ SumFunctionOnSet(SlackOf(B), B) \in Int
    BY <2>1, <2>4, TradesAdd
  <2> QED BY <2>1, <2>2, <2>3, <2>5, TradesAdd
<1>16. PICK U : U = T \cup C
  OBVIOUS
<1>17. /\ SumFunctionOnSet(ShareOf(T), T) \in Int
       /\ SumFunctionOnSet(ShareOf(U), U)
            = SumFunctionOnSet(ShareOf(T), T) + SumFunctionOnSet(ShareOf(C), C)
       /\ SumFunctionOnSet(SlackOf(T), T) \in Int
       /\ SumFunctionOnSet(SlackOf(U), U)
            = SumFunctionOnSet(SlackOf(T), T) + SumFunctionOnSet(SlackOf(C), C)
       /\ SumFunctionOnSet(PnlOf(U), U)
            = SumFunctionOnSet(PnlOf(T), T) + SumFunctionOnSet(PnlOf(C), C)
       /\ SumFunctionOnSet(PnlOf(C), C) \in Int
  <2>1. T \subseteq CloseTrade /\ IsFiniteSet(T)
    BY <1>3 DEF TradesOK
  <2>2. C \cap T = {} /\ U = C \cup T
    BY <1>14, <1>16
  <2> QED BY <1>14, <1>15, <1>16, <2>1, <2>2, TradesAdd
<1>18. TradesOK(U, K, n)
  <2>1. U \subseteq CloseTrade /\ IsFiniteSet(U)
    BY <1>3, <1>15, <1>16, FS_Union DEF TradesOK
  <2>2. \A c \in U : c.position <= n
    BY <1>3, <1>4, <1>12, <1>16 DEF TradesOK, PositionsOK, PositionOK
  <2>3. ASSUME NEW c \in U, NEW q \in K, c.position = q.id PROVE c.left >= q.units
    <3>1. PICK r \in R : q.id = r.id /\ q.units = r.units
      BY <1>11
    <3>2. r \in M /\ r \notin D /\ r \notin F
      BY <1>5, <1>6
    <3>3. c \notin C
      BY <1>4, <1>12, <2>3, <3>1, <3>2 DEF PositionsOK
    <3>4. PICK p \in S : r.id = p.id /\ r.units = p.units
      BY <1>4, <3>2
    <3> QED BY <1>3, <1>16, <2>3, <3>1, <3>3, <3>4 DEF TradesOK
  <2> QED BY <2>1, <2>2, <2>3 DEF TradesOK
<1>19. /\ w.positions = K /\ w.trades = U /\ w.intentCount = n
       /\ w.realizedTotal = v.realizedTotal + SumFunctionOnSet(PnlOf(C), C)
       /\ w.equity = computeEquity(w.realizedTotal, K)
  BY <1>1, <1>2, <1>16 DEF IsRecomputed
<1>20. w.realizedTotal \in Int /\ w.realizedTotal = SumFunctionOnSet(PnlOf(U), U)
  BY <1>3, <1>17, <1>19
<1>21. w.equity \in Int
  BY <1>11, <1>19, <1>20, EquityType
<1>22. w.dailyAnchorEquity \in Int /\ w.dailyResetAt \in Nat
  BY <1>1, MidnightFacts DEF IsRecomputed, VaultOK
<1>23. VaultOK(w, t)
  BY <1>3, <1>11, <1>18, <1>19, <1>20, <1>21, <1>22, Zenon DEF VaultOK
<1>24. Within(Recognized(w) - Recognized(v) - due, Slack(w) - Slack(v))
  <2>1. SumFunctionOnSet(FundingOf(M), M)
          = SumFunctionOnSet(FundingOf(D), D) + SumFunctionOnSet(FundingOf(V), V)
    BY <1>4, <1>5, <1>6, FundingSplits
  <2>2. SumFunctionOnSet(FundingOf(V), V)
          = SumFunctionOnSet(FundingOf(F), F) + SumFunctionOnSet(FundingOf(R), R)
    BY <1>6, <1>7, FundingSplits
  <2>3. PICK share, shareA, shareB, sS, sM, sD, sV, sF, sR :
          /\ share = SumFunctionOnSet(ShareOf(T), T)
          /\ shareA = SumFunctionOnSet(ShareOf(A), A) /\ shareB = SumFunctionOnSet(ShareOf(B), B)
          /\ sS = SumFunctionOnSet(FundingOf(S), S) /\ sM = SumFunctionOnSet(FundingOf(M), M)
          /\ sD = SumFunctionOnSet(FundingOf(D), D) /\ sV = SumFunctionOnSet(FundingOf(V), V)
          /\ sF = SumFunctionOnSet(FundingOf(F), F) /\ sR = SumFunctionOnSet(FundingOf(R), R)
    OBVIOUS
  <2>4. PICK slack, slackA, slackB :
          /\ slack = SumFunctionOnSet(SlackOf(T), T)
          /\ slackA = SumFunctionOnSet(SlackOf(A), A) /\ slackB = SumFunctionOnSet(SlackOf(B), B)
    OBVIOUS
  <2>5. /\ sS \in Int /\ sD \in Int /\ sF \in Int /\ sR \in Int
        /\ share \in Int /\ shareA \in Int /\ shareB \in Int
        /\ slack \in Int /\ slackA \in Int /\ slackB \in Int /\ due \in Int
    BY <1>2, <1>3, <1>4, <1>7, <1>15, <1>17, <2>3, <2>4, FundingIsInt
  <2>6. Within(shareA - sD, slackA) /\ Within(shareB - sF, slackB)
    BY <1>9, <1>10, <2>3, <2>4
  <2>7. sS + due = sD + (sF + sR)
    BY <1>2, <1>4, <2>1, <2>2, <2>3
  <2>8. Recognized(w) = share + (shareA + shareB) + sR /\ Slack(w) = slack + (slackA + slackB)
    BY <1>11, <1>15, <1>17, <1>19, <2>3, <2>4 DEF Recognized, Slack
  <2>9. Recognized(v) = share + sS /\ Slack(v) = slack
    BY <1>2, <2>3, <2>4 DEF Recognized, Slack
  <2>10. PICK e : e = Recognized(w) - Recognized(v) - due
    OBVIOUS
  <2>11. e = (shareA - sD) + (shareB - sF)
    BY <2>5, <2>7, <2>8, <2>9, <2>10
  <2>12. PICK k : k = Slack(w) - Slack(v)
    OBVIOUS
  <2>13. k = slackA + slackB
    BY <2>5, <2>8, <2>9, <2>12
  <2>14. Within(e, k)
    BY <2>5, <2>6, <2>11, <2>13 DEF Within
  <2> QED BY <2>10, <2>12, <2>14
<1> QED BY <1>2, <1>4, <1>19, <1>23, <1>24

-----------------------------------------------------------------------------
(* What an order, a close and a bracket's edit do to the books before the  *)
(* recompute they end with.                                                *)

\* The funding recognized or still carried is what was charged, but for the rounding.
Booked(v, charged) == Within(Recognized(v) - charged, Slack(v))

\* Only the positions, the trades, the booked total and the count of intents differ.
SameDay(w, v) ==
    /\ w.equity = v.equity
    /\ w.dailyAnchorEquity = v.dailyAnchorEquity /\ w.dailyResetAt = v.dailyResetAt

LEMMA OpenedBooks ==
    ASSUME NEW v, NEW t \in Nat, VaultOK(v, t), v.intentCount < MaxIntents,
           NEW q, PositionOK(q, v.intentCount + 1, t), q.id = v.intentCount + 1, q.funding = 0,
           NEW w, SameDay(w, v), w.positions = v.positions \cup {q}, w.trades = v.trades,
           w.intentCount = v.intentCount + 1, w.realizedTotal = v.realizedTotal
    PROVE  VaultOK(w, t) /\ Recognized(w) = Recognized(v) /\ Slack(w) = Slack(v)
<1>1. PICK n, S, T, W : /\ n = v.intentCount /\ S = v.positions /\ T = v.trades
                        /\ W = S \cup {q}
  OBVIOUS
<1>2. PositionsOK(S, n, t) /\ TradesOK(T, S, n) /\ n \in 0 .. MaxIntents
  BY <1>1 DEF VaultOK
<1>3. MaxIntents \in Nat
  BY EngineAssumption
<1>4. \A p \in S : p.id \in Nat /\ p.id <= n
  BY <1>2 DEF PositionsOK, PositionOK, Position
<1>5. PositionsOK(W, n + 1, t)
  <2>1. \A p \in S : PositionOK(p, n + 1, t)
    BY <1>2, <1>4 DEF PositionsOK, PositionOK
  <2> QED BY <1>1, <1>2, <1>4, <2>1 DEF PositionsOK
<1>6. TradesOK(T, W, n + 1)
  <2>1. \A c \in T : c.position \in Nat /\ c.position <= n
    BY <1>2 DEF TradesOK, CloseTrade
  <2> QED BY <1>1, <1>2, <2>1 DEF TradesOK
<1>7. w.positions = W /\ w.trades = T /\ w.intentCount = n + 1
  BY <1>1
<1>8. VaultOK(w, t)
  BY <1>1, <1>2, <1>3, <1>5, <1>6, <1>7 DEF VaultOK, SameDay
<1>9. SumFunctionOnSet(FundingOf(W), W) = SumFunctionOnSet(FundingOf(S), S)
  <2>1. PICK f, g : f = FundingOf(S) /\ g = FundingOf(W)
    OBVIOUS
  <2>2. q \notin S
    BY <1>1, <1>2, <1>4
  <2>3. /\ \A p \in W : g[p] \in Int
        /\ \A p \in S : g[p] = f[p]
        /\ g[q] = 0
    BY <1>1, <1>5, <2>1, FundingIsInt DEF FundingOf
  <2>4. SumFunctionOnSet(g, S \cup {q}) = SumFunctionOnSet(g, S) + g[q]
    BY <1>1, <1>2, <2>2, <2>3, PositionsFinite, SumAddOne
  <2>5. SumFunctionOnSet(f, S) = SumFunctionOnSet(g, S)
    BY <1>2, <2>3, PositionsFinite, SumSame
  <2>6. SumFunctionOnSet(f, S) \in Int
    BY <1>2, <2>1, FundingIsInt
  <2>7. SumFunctionOnSet(g, W) = SumFunctionOnSet(g, S \cup {q})
    BY <1>1, Zenon
  <2> QED BY <2>1, <2>3, <2>4, <2>5, <2>6, <2>7
<1> QED BY <1>1, <1>7, <1>8, <1>9 DEF Recognized, Slack

\* The remainder of a close is the position with fewer units.
LEMMA RemainderFacts ==
    ASSUME NEW n, NEW t, NEW p, PositionOK(p, n, t), NEW left \in Nat,
           NEW q \in Remainder(p, left)
    PROVE  /\ left # 0 /\ PositionOK(q, n, t) /\ q.id = p.id /\ q.units = left
           /\ q.funding = round2(p.funding * left, p.units)
<1> DEFINE fee == FEE * left
           funding == round2(p.funding * left, p.units)
<1>1. p \in Position /\ p.funding \in Int /\ p.units \in Nat \ {0}
  BY DEF PositionOK, Position
<1>2. fee \in Nat
  BY EngineAssumption
<1>3. funding \in Int
  <2> DEFINE x == p.funding * left
  <2>1. x \in Int
    BY <1>1
  <2> HIDE DEF x
  <2>2. round2(x, p.units) \in Int
    BY <1>1, <2>1, CentFacts
  <2> QED BY <2>2 DEF x
<1>4. left # 0 /\ q = [p EXCEPT !.units = left, !.fee = fee, !.funding = funding]
  BY DEF Remainder
<1> HIDE DEF fee, funding
<1>5. q \in Position /\ q.id = p.id /\ q.units = left /\ q.fee = fee /\ q.funding = funding
      /\ q.funded = p.funded
  BY <1>1, <1>2, <1>3, <1>4 DEF Position
<1> QED BY <1>4, <1>5 DEF PositionOK, fee, funding

\* A close leaves no second position of the same id, its trade is a new one, and the funding
\* of the trade and of what stays is that of the position but for the rounding.
LEMMA ClosedBooks ==
    ASSUME NEW v, NEW t \in Nat, VaultOK(v, t), v.intentCount < MaxIntents,
           NEW p \in v.positions, NEW units \in 1 .. p.units,
           NEW c \in CloseTrade, c.position = p.id, c.left = p.units - units,
           FundingShare(c) \in Int,
           c.left = 0 => Within(FundingShare(c) - p.funding, 2 * CENT),
           Within(FundingShare(c) + round2(p.funding * c.left, p.units) - p.funding, 3 * CENT),
           NEW w, SameDay(w, v), w.positions = (v.positions \ {p}) \cup Remainder(p, c.left),
           w.trades = v.trades \cup {c}, w.intentCount = v.intentCount + 1,
           w.realizedTotal = v.realizedTotal + c.pnl
    PROVE  /\ VaultOK(w, t)
           /\ Recognized(v) \in Int /\ Recognized(w) \in Int
           /\ Slack(v) \in Int /\ Slack(w) \in Int
           /\ Within(Recognized(w) - Recognized(v), Slack(w) - Slack(v))
<1>1. PICK n, S, T, left, rest, W, U :
        /\ n = v.intentCount /\ S = v.positions /\ T = v.trades /\ left = c.left
        /\ rest = Remainder(p, left) /\ W = (S \ {p}) \cup rest /\ U = T \cup {c}
  OBVIOUS
<1>2. /\ PositionsOK(S, n, t) /\ TradesOK(T, S, n) /\ n \in 0 .. MaxIntents
      /\ v.realizedTotal \in Int /\ v.realizedTotal = SumFunctionOnSet(PnlOf(T), T)
  BY <1>1 DEF VaultOK
<1>3. p \in S /\ PositionOK(p, n, t)
  BY <1>1, <1>2 DEF PositionsOK
<1>4. p.units \in Nat \ {0} /\ p.funding \in Int /\ p.id \in Nat /\ p.id <= n
  BY <1>3 DEF PositionOK, Position
<1>5. left \in Nat /\ left < p.units /\ left = p.units - units
  BY <1>1, <1>4
<1>6. PICK share : share = FundingShare(c)
  OBVIOUS
<1>7. c \notin T
  <2>1. ~ (c.left >= p.units)
    BY <1>1, <1>4, <1>5
  <2> QED BY <1>2, <1>3, <2>1 DEF TradesOK
<1>8. \A q \in rest : /\ left # 0 /\ PositionOK(q, n, t) /\ q.id = p.id /\ q.units = left
                      /\ q.funding = round2(p.funding * left, p.units)
  <2> SUFFICES ASSUME NEW q \in rest
               PROVE  /\ left # 0 /\ PositionOK(q, n, t) /\ q.id = p.id /\ q.units = left
                      /\ q.funding = round2(p.funding * left, p.units)
    OBVIOUS
  <2>1. left \in Nat /\ q \in Remainder(p, left)
    BY <1>1, <1>5
  <2> QED BY ONLY <1>3, <2>1, RemainderFacts
<1>9. left = 0 => rest = {}
  BY <1>1 DEF Remainder
<1>10. left # 0 => \E q : rest = {q}
  BY <1>1, <1>5 DEF Remainder
<1>11. \A q, r \in rest : q = r
  BY <1>1 DEF Remainder
<1>12. \A q \in S \ {p} : q.id # p.id
  BY <1>2, <1>3 DEF PositionsOK
<1>13. PositionsOK(W, n + 1, t)
  <2>1. \A q \in W : PositionOK(q, n, t)
    BY <1>1, <1>2, <1>8 DEF PositionsOK
  <2>2. \A q \in W : PositionOK(q, n + 1, t)
    <3> SUFFICES ASSUME NEW q \in W PROVE PositionOK(q, n + 1, t)
      OBVIOUS
    <3>1. q.id \in Nat /\ q.id <= n
      BY <2>1 DEF PositionOK, Position
    <3> QED BY <1>2, <2>1, <3>1 DEF PositionOK
  <2>3. \A q, r \in W : q.id = r.id => q = r
    BY <1>1, <1>2, <1>8, <1>11, <1>12 DEF PositionsOK
  <2> QED BY <2>2, <2>3 DEF PositionsOK
<1>14. TradesOK(U, W, n + 1)
  <2>1. U \subseteq CloseTrade /\ IsFiniteSet(U)
    BY <1>1, <1>2, FS_AddElement DEF TradesOK
  <2>2. \A x \in U : x.position <= n + 1
    <3>1. \A x \in T : x.position \in Nat /\ x.position <= n
      BY <1>2 DEF TradesOK, CloseTrade
    <3> QED BY <1>1, <1>2, <1>4, <3>1
  <2>3. ASSUME NEW x \in U, NEW q \in W, x.position = q.id PROVE x.left >= q.units
    <3>1. CASE q \in S \ {p}
      <4>1. x \in T
        BY <1>1, <1>12, <2>3, <3>1
      <4> QED BY <1>2, <2>3, <3>1, <4>1 DEF TradesOK
    <3>2. CASE q \in rest
      <4>1. q.units = left /\ q.id = p.id
        BY <1>8, <3>2
      <4>2. CASE x \in T
        <5>1. x.left >= p.units
          BY <1>2, <1>3, <2>3, <4>1, <4>2 DEF TradesOK
        <5>2. x.left \in Nat
          BY <1>2, <4>2 DEF TradesOK, CloseTrade
        <5> QED BY <1>4, <1>5, <4>1, <5>1, <5>2
      <4>3. CASE x = c
        BY <1>1, <1>5, <4>1, <4>3
      <4> QED BY <1>1, <4>2, <4>3
    <3> QED BY <1>1, <3>1, <3>2
  <2> QED BY <2>1, <2>2, <2>3 DEF TradesOK
<1>15. /\ SumFunctionOnSet(ShareOf(T), T) \in Int
       /\ SumFunctionOnSet(ShareOf(U), U) = SumFunctionOnSet(ShareOf(T), T) + share
       /\ SumFunctionOnSet(SlackOf(T), T) \in Int
       /\ SumFunctionOnSet(SlackOf(U), U) = SumFunctionOnSet(SlackOf(T), T) + CENT * Roundings(c)
       /\ SumFunctionOnSet(PnlOf(U), U) = SumFunctionOnSet(PnlOf(T), T) + c.pnl
  <2>1. PICK C : C = {c}
    OBVIOUS
  <2>2. T \subseteq CloseTrade /\ IsFiniteSet(T) /\ C \subseteq CloseTrade /\ IsFiniteSet(C)
        /\ T \cap C = {} /\ U = T \cup C
    BY <1>1, <1>2, <1>7, <2>1, FS_Singleton DEF TradesOK
  <2>3. /\ SumFunctionOnSet(ShareOf(T), T) \in Int /\ SumFunctionOnSet(PnlOf(T), T) \in Int
        /\ SumFunctionOnSet(ShareOf(U), U)
             = SumFunctionOnSet(ShareOf(T), T) + SumFunctionOnSet(ShareOf(C), C)
        /\ SumFunctionOnSet(SlackOf(T), T) \in Int
        /\ SumFunctionOnSet(SlackOf(U), U)
             = SumFunctionOnSet(SlackOf(T), T) + SumFunctionOnSet(SlackOf(C), C)
        /\ SumFunctionOnSet(PnlOf(U), U)
             = SumFunctionOnSet(PnlOf(T), T) + SumFunctionOnSet(PnlOf(C), C)
    BY <2>2, TradesAdd
  <2>4. ASSUME NEW f, f[c] \in Int PROVE SumFunctionOnSet(f, C) = f[c]
    <3>1. SumFunctionOnSet(f, {} \cup {c}) = SumFunctionOnSet(f, {}) + f[c]
      <4>1. PICK S0 : S0 = {}
        OBVIOUS
      <4>2. IsFiniteSet(S0) /\ c \notin S0 /\ \A x \in S0 \cup {c} : f[x] \in Int
        BY <2>4, <4>1, FS_EmptySet
      <4>3. SumFunctionOnSet(f, S0 \cup {c}) = SumFunctionOnSet(f, S0) + f[c]
        BY ONLY <4>2, SumAddOne
      <4> QED BY <4>1, <4>3
    <3>2. SumFunctionOnSet(f, {}) = 0
      BY SumOfNothing
    <3>3. {} \cup {c} = C
      BY <2>1
    <3>4. SumFunctionOnSet(f, {} \cup {c}) = SumFunctionOnSet(f, C)
      BY <3>3, Zenon
    <3> QED BY <2>4, <3>1, <3>2, <3>4
  <2>5. PICK f, g, h : f = ShareOf(C) /\ g = PnlOf(C) /\ h = SlackOf(C)
    OBVIOUS
  <2>6. /\ f[c] = share /\ g[c] = c.pnl /\ h[c] = CENT * Roundings(c)
        /\ share \in Int /\ c.pnl \in Int /\ CENT * Roundings(c) \in Int
    <3>1. CENT * Roundings(c) \in Int
      BY EngineAssumption DEF Roundings
    <3> QED BY <1>6, <2>1, <2>5, <3>1 DEF ShareOf, PnlOf, SlackOf, Pnl, CloseTrade
  <2>7. /\ SumFunctionOnSet(f, C) = share /\ SumFunctionOnSet(g, C) = c.pnl
        /\ SumFunctionOnSet(h, C) = CENT * Roundings(c)
    BY <2>4, <2>6
  <2> QED BY <2>3, <2>5, <2>7
<1>16. /\ w.positions = W /\ w.trades = U /\ w.intentCount = n + 1
       /\ w.realizedTotal = v.realizedTotal + c.pnl
  BY <1>1
<1>17. VaultOK(w, t)
  <2>1. w.realizedTotal \in Int /\ w.realizedTotal = SumFunctionOnSet(PnlOf(U), U)
    BY <1>2, <1>15, <1>16 DEF CloseTrade
  <2>2. n + 1 \in 0 .. MaxIntents
    BY <1>1, <1>2, EngineAssumption
  <2>3. w.equity \in Int /\ w.dailyAnchorEquity \in Int /\ w.dailyResetAt \in Nat
    BY DEF VaultOK, SameDay
  <2> QED BY <1>13, <1>14, <1>16, <2>1, <2>2, <2>3, Zenon DEF VaultOK
<1>18. /\ SumFunctionOnSet(FundingOf(S), S) \in Int
       /\ left = 0 => SumFunctionOnSet(FundingOf(W), W)
                        = SumFunctionOnSet(FundingOf(S), S) - p.funding
       /\ left # 0 => SumFunctionOnSet(FundingOf(W), W)
                        = SumFunctionOnSet(FundingOf(S), S) - p.funding
                          + round2(p.funding * left, p.units)
  <2>1. PICK f, g : f = FundingOf(S) /\ g = FundingOf(W)
    OBVIOUS
  <2>2. IsFiniteSet(S) /\ (\A q \in S : f[q] \in Int) /\ SumFunctionOnSet(f, S) \in Int
        /\ f[p] = p.funding
    BY <1>2, <1>3, <2>1, PositionsFinite, FundingIsInt DEF FundingOf
  <2>3. \A q \in W : g[q] \in Int /\ g[q] = q.funding
    BY <1>13, <2>1, FundingIsInt DEF FundingOf
  <2>4. \A q \in S \ {p} : g[q] = f[q]
    BY <1>1, <2>1, <2>3 DEF FundingOf
  <2>5. ASSUME left = 0 PROVE SumFunctionOnSet(g, W) = SumFunctionOnSet(f, S) - p.funding
    <3>1. W = S \ {p} /\ \A q \in W : g[q] = f[q]
      BY <1>1, <1>9, <2>4, <2>5
    <3>2. SumFunctionOnSet(g, W) = SumFunctionOnSet(f, S) - f[p]
      <4>1. p \in S /\ IsFiniteSet(S) /\ \A q \in S : f[q] \in Int
        BY <1>3, <2>2
      <4>2. W = S \ {p} /\ \A q \in W : g[q] = f[q]
        BY <3>1
      <4>3. IsFiniteSet(W)
        BY <4>1, <4>2, FS_Subset
      <4>4. SumFunctionOnSet(f, S) = f[p] + SumFunctionOnSet(f, S \ {p})
        BY ONLY <4>1, SumTakeOut
      <4>5. SumFunctionOnSet(f, W) = SumFunctionOnSet(f, S \ {p})
        BY <4>2, Zenon
      <4>6. SumFunctionOnSet(f, W) = SumFunctionOnSet(g, W)
        BY ONLY <4>2, <4>3, SumSame
      <4>7. SumFunctionOnSet(f, W) \in Int /\ f[p] \in Int
        <5>1. \A q \in W : f[q] \in Int
          BY <4>1, <4>2
        <5> QED BY <4>1, <4>3, <5>1, SumType
      <4> QED BY ONLY <4>4, <4>5, <4>6, <4>7
    <3> QED BY <2>2, <3>2
  <2>6. ASSUME left # 0
        PROVE  SumFunctionOnSet(g, W)
                 = SumFunctionOnSet(f, S) - p.funding + round2(p.funding * left, p.units)
    <3>1. PICK q : rest = {q}
      BY <1>10, <2>6
    <3>2. /\ q.id = p.id /\ q.funding = round2(p.funding * left, p.units)
          /\ q \in W /\ W = (S \ {p}) \cup {q}
      BY <1>1, <1>8, <3>1
    <3>3. q \notin S \ {p}
      BY <1>12, <3>2
    <3>4. g[q] \in Int /\ g[q] = round2(p.funding * left, p.units)
      BY <2>3, <3>2
    <3>5. SumFunctionOnSet(g, W) = SumFunctionOnSet(f, S) - f[p] + g[q]
      BY <1>3, <2>2, <2>4, <3>2, <3>3, <3>4, SumReplace
    <3> QED BY <2>2, <3>4, <3>5
  <2> QED BY <2>1, <2>2, <2>5, <2>6
<1>19. PICK share0, s0, r, k0, s :
         /\ share0 = SumFunctionOnSet(ShareOf(T), T)
         /\ s0 = SumFunctionOnSet(FundingOf(S), S)
         /\ s = SumFunctionOnSet(FundingOf(W), W)
         /\ k0 = SumFunctionOnSet(SlackOf(T), T)
         /\ r = round2(p.funding * left, p.units)
  OBVIOUS
<1>20. r \in Int
  <2>1. p.funding * left \in Int
    BY <1>4, <1>5
  <2> QED BY <1>4, <1>19, <2>1, CentFacts
<1>21. /\ share0 \in Int /\ s0 \in Int /\ k0 \in Int /\ s \in Int /\ share \in Int
       /\ p.funding \in Int /\ CENT \in Nat
  BY <1>4, <1>6, <1>13, <1>15, <1>18, <1>19, FundingIsInt, EngineAssumption
<1>22. /\ Recognized(v) = share0 + s0 /\ Slack(v) = k0
       /\ Recognized(w) = (share0 + share) + s /\ Slack(w) = k0 + CENT * Roundings(c)
  BY <1>1, <1>15, <1>16, <1>19 DEF Recognized, Slack
<1>23. PICK e : e = Recognized(w) - Recognized(v)
  OBVIOUS
<1>24. Within(e, CENT * Roundings(c)) /\ CENT * Roundings(c) \in Int
  <2>1. CASE left = 0
    <3>1. s = s0 - p.funding
      BY <1>18, <1>19, <2>1
    <3>2. e = share - p.funding
      BY <1>21, <1>22, <1>23, <3>1
    <3>3. Roundings(c) = 2 /\ CENT * 2 = 2 * CENT /\ CENT * 2 \in Int
      BY <1>1, <1>21, <2>1 DEF Roundings
    <3> QED BY <1>1, <1>6, <2>1, <3>2, <3>3
  <2>2. CASE left # 0
    <3>1. s = s0 - p.funding + r
      BY <1>18, <1>19, <2>2
    <3>2. e = share + r - p.funding
      BY <1>20, <1>21, <1>22, <1>23, <3>1
    <3>3. Roundings(c) = 3 /\ CENT * 3 = 3 * CENT /\ CENT * 3 \in Int
      BY <1>1, <1>21, <2>2 DEF Roundings
    <3> QED BY <1>1, <1>6, <1>19, <3>2, <3>3
  <2> QED BY <2>1, <2>2
<1>25. Slack(w) - Slack(v) = CENT * Roundings(c) /\ Slack(w) \in Int /\ Slack(v) \in Int
  BY <1>21, <1>22, <1>24
<1>26. Recognized(v) \in Int /\ Recognized(w) \in Int
  BY <1>21, <1>22
<1> QED BY <1>17, <1>23, <1>24, <1>25, <1>26

\* w is v with position p replaced by q, a position with other brackets.
IsEdited(w, v, t, p, q) ==
    /\ p \in v.positions /\ PositionOK(q, v.intentCount, t)
    /\ q.id = p.id /\ q.units = p.units /\ q.funding = p.funding /\ Carry(q) = Carry(p)
    /\ SameDay(w, v) /\ w.positions = (v.positions \ {p}) \cup {q}
    /\ w.trades = v.trades /\ w.intentCount = v.intentCount
    /\ w.realizedTotal = v.realizedTotal

\* A bracket's edit moves no money.
LEMMA EditedBooks ==
    ASSUME NEW v, NEW t \in Nat, VaultOK(v, t), NEW w, NEW p, NEW q, IsEdited(w, v, t, p, q)
    PROVE  /\ VaultOK(w, t)
           /\ Recognized(w) = Recognized(v) /\ Slack(w) = Slack(v)
           /\ computeEquity(w.realizedTotal, w.positions)
                = computeEquity(v.realizedTotal, v.positions)
<1>1. PICK n, S, T, W :
        /\ n = v.intentCount /\ S = v.positions /\ T = v.trades /\ W = (S \ {p}) \cup {q}
  OBVIOUS
<1>2. PositionsOK(S, n, t) /\ TradesOK(T, S, n)
  BY <1>1 DEF VaultOK
<1>3. /\ PositionOK(q, n, t) /\ p \in S /\ SameDay(w, v)
      /\ q.id = p.id /\ q.units = p.units /\ q.funding = p.funding /\ Carry(q) = Carry(p)
      /\ w.positions = W /\ w.trades = T /\ w.intentCount = n
      /\ w.realizedTotal = v.realizedTotal
  BY <1>1 DEF IsEdited
<1>4. \A r \in S \ {p} : r.id # p.id
  BY <1>3, <1>2 DEF PositionsOK
<1>5. PositionsOK(W, n, t)
  BY <1>1, <1>2, <1>3, <1>4 DEF PositionsOK
<1>6. TradesOK(T, W, n)
  BY <1>1, <1>2, <1>3 DEF TradesOK
<1>7. VaultOK(w, t)
  BY <1>1, <1>3, <1>5, <1>6, Zenon DEF VaultOK, SameDay
<1>8. ASSUME NEW f, NEW g, \A r \in S : f[r] \in Int, \A r \in W : g[r] \in Int,
             \A r \in S \ {p} : g[r] = f[r], g[q] = f[p]
      PROVE  SumFunctionOnSet(g, W) = SumFunctionOnSet(f, S)
  <2>1. IsFiniteSet(S) /\ q \notin S \ {p} /\ W = (S \ {p}) \cup {q} /\ g[q] \in Int
    BY <1>1, <1>2, <1>3, <1>4, <1>8, PositionsFinite
  <2>2. SumFunctionOnSet(g, W) = SumFunctionOnSet(f, S) - f[p] + g[q]
    BY <1>2, <1>3, <1>8, <2>1, SumReplace
  <2>3. SumFunctionOnSet(f, S) \in Int /\ f[p] \in Int
    BY <1>2, <1>3, <1>8, <2>1, SumType
  <2> QED BY <1>8, <2>2, <2>3
<1>9. SumFunctionOnSet(FundingOf(W), W) = SumFunctionOnSet(FundingOf(S), S)
  <2>1. PICK f, g : f = FundingOf(S) /\ g = FundingOf(W)
    OBVIOUS
  <2>2. /\ \A r \in S : f[r] \in Int /\ f[r] = r.funding
        /\ \A r \in W : g[r] \in Int /\ g[r] = r.funding
    BY <1>2, <1>5, <2>1, FundingIsInt DEF FundingOf
  <2>3. g[q] = f[p] /\ \A r \in S \ {p} : g[r] = f[r]
    BY <1>1, <1>2, <1>3, <2>2
  <2> QED BY <1>8, <2>1, <2>2, <2>3
<1>10. SumFunctionOnSet(CarryOf(W), W) = SumFunctionOnSet(CarryOf(S), S)
  <2>1. PICK f, g : f = CarryOf(S) /\ g = CarryOf(W)
    OBVIOUS
  <2>2. /\ \A r \in S : f[r] \in Int /\ f[r] = Carry(r)
        /\ \A r \in W : g[r] \in Int /\ g[r] = Carry(r)
    BY <1>2, <1>5, <2>1, CarryType DEF CarryOf, PositionsOK, PositionOK
  <2>3. g[q] = f[p] /\ \A r \in S \ {p} : g[r] = f[r]
    BY <1>1, <1>2, <1>3, <2>2
  <2> QED BY <1>8, <2>1, <2>2, <2>3
<1>11. computeEquity(w.realizedTotal, W) = computeEquity(v.realizedTotal, S)
  <2>1. v.realizedTotal \in Int
    BY DEF VaultOK
  <2>2. PICK r : r = v.realizedTotal
    OBVIOUS
  <2>3. /\ computeEquity(r, W) = round2(START + r + SumFunctionOnSet(CarryOf(W), W), 1)
        /\ computeEquity(r, S) = round2(START + r + SumFunctionOnSet(CarryOf(S), S), 1)
    BY <1>2, <1>5, <2>1, <2>2, EquityType
  <2> QED BY <1>3, <1>10, <2>2, <2>3
<1> QED BY <1>1, <1>3, <1>7, <1>9, <1>11 DEF Recognized, Slack

-----------------------------------------------------------------------------
(* The books of an evaluation reconcile. *)

BooksOK(v, t, charged) ==
    /\ VaultOK(v, t)
    /\ v.equity = computeEquity(v.realizedTotal, v.positions)
    /\ Booked(v, charged)

VerdictTypes(v) ==
    v.status \in {"active", "passed", "failed", "inactive"} /\ v.violatedRule \in Rule

\* The inductive invariant.
PaperBooksInv ==
    /\ feed \in [Markets -> [px : Nat, rate : Int]] /\ PricesOK(feed)
    /\ live \subseteq Markets /\ now \in 0 .. MaxNow /\ funding_booked \in Int
    /\ ~ Exists => funding_booked = 0
    /\ Exists => BooksOK(vault, now, funding_booked) /\ VerdictTypes(vault)

LEMMA BooksAreInts ==
    ASSUME NEW v, NEW t, VaultOK(v, t)
    PROVE  Recognized(v) \in Int /\ Slack(v) \in Int
<1>1. PICK S, T, n : S = v.positions /\ T = v.trades /\ n = v.intentCount
  OBVIOUS
<1>2. PositionsOK(S, n, t) /\ T \subseteq CloseTrade /\ IsFiniteSet(T)
  BY <1>1 DEF VaultOK, TradesOK
<1>3. SumFunctionOnSet(ShareOf(T), T) \in Int /\ SumFunctionOnSet(SlackOf(T), T) \in Int
  <2>1. T \cap {} = {} /\ IsFiniteSet({}) /\ T = T \cup {}
    BY FS_EmptySet
  <2> QED BY <1>2, <2>1, TradesAdd
<1>4. SumFunctionOnSet(FundingOf(S), S) \in Int
  BY <1>2, FundingIsInt
<1> QED BY <1>1, <1>3, <1>4 DEF Recognized, Slack

LEMMA OutcomeType ==
    ASSUME NEW equity, NEW anchor
    PROVE  VerdictTypes(detectOutcome(equity, anchor))
<1>1. CASE Tripped("drawdown", equity, anchor)
  BY <1>1 DEF detectOutcome, VerdictTypes, Rule
<1>2. CASE ~ Tripped("drawdown", equity, anchor) /\ Tripped("dailyLoss", equity, anchor)
  BY <1>2 DEF detectOutcome, VerdictTypes, Rule
<1>3. CASE ~ Tripped("drawdown", equity, anchor) /\ ~ Tripped("dailyLoss", equity, anchor)
  BY <1>3 DEF detectOutcome, VerdictTypes, Rule
<1> QED BY <1>1, <1>2, <1>3

\* A recompute charges what is due and books it.
LEMMA RecomputedBooks ==
    ASSUME PaperBooksInv, NEW v, VaultOK(v, now), Booked(v, funding_booked),
           NEW prices, PricesOK(prices), Recompute(v, prices)
    PROVE  PaperBooksInv'
<1>1. PICK w, due, due0 :
        /\ w = recompute(v, prices, now)
        /\ due = SumFunctionOnSet(DueOf(v.positions, prices, now), v.positions)
        /\ due0 = SumOver(LAMBDA p : FundingDue(p, prices, now), v.positions)
  OBVIOUS
<1>2. due0 = due
  BY <1>1, Zenon DEF SumOver, DueOf
<1>3. now \in Nat /\ now \in 0 .. MaxNow /\ funding_booked \in Int
  BY EngineAssumption DEF PaperBooksInv
<1>4. /\ VaultOK(w, now) /\ w.equity = computeEquity(w.realizedTotal, w.positions)
      /\ due \in Int /\ Within(Recognized(w) - Recognized(v) - due, Slack(w) - Slack(v))
  BY <1>1, <1>3, RecomputeBooks
<1>5. Booked(w, funding_booked + due)
  <2>1. PICK a, b, k, l : /\ a = Recognized(v) /\ b = Recognized(w)
                          /\ k = Slack(v) /\ l = Slack(w)
    OBVIOUS
  <2>2. a \in Int /\ b \in Int /\ k \in Int /\ l \in Int
    BY <1>4, <2>1, BooksAreInts
  <2>3. Within(b - a - due, l - k) /\ Within(a - funding_booked, k)
    BY <1>4, <2>1 DEF Booked
  <2>4. Within(b - (funding_booked + due), l)
    BY <1>3, <1>4, <2>2, <2>3 DEF Within
  <2> QED BY <2>1, <2>4 DEF Booked
<1>6. VerdictTypes(w)
  <2>1. PICK M, D, F, R, K, C : IsRecomputed(w, v, prices, now, M, D, F, R, K, C)
    BY <1>1, RecomputeStages
  <2>2. /\ w.status = detectOutcome(w.equity, w.dailyAnchorEquity).status
        /\ w.violatedRule = detectOutcome(w.equity, w.dailyAnchorEquity).violatedRule
    BY <2>1 DEF IsRecomputed
  <2> QED BY <2>2, OutcomeType DEF VerdictTypes
<1>7. /\ vault' = w /\ funding_booked' = funding_booked + due
      /\ UNCHANGED <<feed, live, now>>
  BY <1>1, <1>2 DEF Recompute
<1>8. w # NoVault
  <2>1. JudgedVault(w)
    BY <1>1, RecomputeJudges
  <2> QED BY <2>1 DEF JudgedVault, NoVault
<1> QED BY <1>3, <1>4, <1>5, <1>6, <1>7, <1>8 DEF PaperBooksInv, BooksOK, Exists

\* The position an order opens.
LEMMA OpenedFacts ==
    ASSUME PaperBooksInv, vault # NoVault, vault.intentCount < MaxIntents,
           NEW o \in Order, Quoted(o.market)
    PROVE  /\ PositionOK(Opened(o), vault.intentCount + 1, now)
           /\ Opened(o).id = vault.intentCount + 1 /\ Opened(o).funding = 0
<1>1. PICK px, n, entry, fee, mode :
        /\ px = feed[o.market].px /\ n = vault.intentCount
        /\ entry = Fill(o.side, o.units, px) /\ fee = FEE * o.units
        /\ mode = IF o.market \in OnlyIsolated THEN "isolated" ELSE o.mode
  OBVIOUS
<1>2. /\ o.market \in Markets /\ o.side \in Side /\ o.units \in Nat \ {0} /\ o.mode \in Mode
      /\ o.leverage \in Nat \ {0} /\ o.tp \in Nat /\ o.sl \in Nat
  BY DEF Order
<1>3. px \in Nat /\ px > SLIP_CAP
  BY <1>1, <1>2 DEF PaperBooksInv, PricesOK, Quoted
<1>4. entry \in Nat \ {0}
  BY <1>1, <1>2, <1>3, FillType
<1>5. fee \in Nat /\ MaxIntents \in Nat
  BY <1>1, <1>2, EngineAssumption
<1>6. n \in 0 .. MaxIntents /\ now \in Nat /\ n + 1 \in 1 .. MaxIntents
  BY <1>1, <1>5, EngineAssumption DEF PaperBooksInv, Exists, BooksOK, VaultOK
<1>7. mode \in Mode
  BY <1>1, <1>2 DEF Mode
<1>8. Opened(o) =
        [id |-> n + 1, market |-> o.market, side |-> o.side, units |-> o.units,
         entry |-> entry, mark |-> px, mode |-> mode, leverage |-> o.leverage,
         fee |-> fee, funding |-> 0, funded |-> now, tp |-> o.tp, sl |-> o.sl,
         expires |-> 0]
  BY <1>1 DEF Opened
<1>9. Opened(o) \in Position
  BY <1>2, <1>3, <1>4, <1>5, <1>6, <1>7, <1>8 DEF Position
<1>10. /\ Opened(o).id = n + 1 /\ Opened(o).funding = 0 /\ Opened(o).fee = FEE * Opened(o).units
       /\ Opened(o).funded = now
  BY <1>1, <1>8
<1> QED BY <1>1, <1>6, <1>9, <1>10 DEF PositionOK

\* A request for more units than there are closes them all.
LEMMA CloseSizeFacts ==
    ASSUME NEW p \in Position, NEW requested \in Nat \ {0}
    PROVE  resolveCloseSize(p, requested) \in 1 .. p.units
<1>1. PICK a, b : a = requested /\ b = p.units
  OBVIOUS
<1>2. a \in Nat \ {0} /\ b \in Nat \ {0}
  BY <1>1 DEF Position
<1>3. Min({a, b}) \in {a, b} /\ Min({a, b}) <= b
  BY <1>2, MinOfTwo
<1> QED BY <1>1, <1>2, <1>3 DEF resolveCloseSize

\* The trade of a manual close, and what it and the remainder make of the funding.
LEMMA PartialCloseFacts ==
    ASSUME PaperBooksInv, NEW n, NEW p, PositionOK(p, n, now), Quoted(p.market),
           NEW units \in 1 .. p.units, NEW c, c = PartialClose(p, units)
    PROVE  /\ c \in CloseTrade /\ c.position = p.id /\ c.left = p.units - units
           /\ FundingShare(c) \in Int
           /\ c.left = 0 => Within(FundingShare(c) - p.funding, 2 * CENT)
           /\ Within(FundingShare(c) + round2(p.funding * c.left, p.units) - p.funding, 3 * CENT)
<1>1. PICK px, fill, priced, r, fees, left, d, k :
        /\ px = feed[p.market].px /\ fill = closeFill(p, px, units)
        /\ priced = PricePnl(p.side, units, p.entry, fill) /\ r = round2(priced, 1)
        /\ fees = FEE * units /\ left = p.units - units /\ d = p.units /\ k = p.funding
  OBVIOUS
<1>2. p \in Position /\ d \in Nat \ {0} /\ k \in Int /\ units \in 1 .. d /\ units \in Nat \ {0}
  BY <1>1 DEF PositionOK, Position
<1>3. px \in Nat /\ px > SLIP_CAP
  BY <1>1, <1>2 DEF PaperBooksInv, PricesOK, Quoted, Position
<1>4. fill \in Nat
  BY <1>1, <1>2, <1>3, FillType DEF closeFill
<1>5. priced \in Int
  BY <1>1, <1>2, <1>4, PricePnlType DEF Position
<1>6. fees \in Nat /\ 2 * FEE * units = 2 * fees /\ left \in Nat /\ left = d - units
  BY <1>1, <1>2, EngineAssumption
<1>7. r \in Int /\ Within(r - priced, CENT)
  BY <1>1, <1>5, WholeCentFacts
<1>8. PICK a, pnl, rest : /\ a = r - fees - fees /\ pnl = round2(a * d + k * units, d)
                          /\ rest = round2(k * (d - units), d)
  OBVIOUS
<1>9. a \in Int
  BY <1>6, <1>7, <1>8
<1>10. /\ pnl \in Int /\ rest \in Int
       /\ units = d => Within(pnl - a - k, CENT)
       /\ Within(pnl + rest - a - k, 2 * CENT)
  <2>1. k \in Int /\ d \in Nat \ {0} /\ units \in 1 .. d
    BY <1>2
  <2>2. pnl = ClosedPart(a, k, d, units) /\ rest = OpenPart(k, d, units)
    BY <1>8 DEF ClosedPart, OpenPart
  <2> QED BY ONLY <1>9, <2>1, <2>2, SplitIsClose
<1>11. c = [position |-> p.id, side |-> p.side, units |-> units, left |-> left,
            entry |-> p.entry, fill |-> fill, by |-> "manual", pnl |-> pnl]
  BY <1>1, <1>8, Zenon DEF PartialClose, realizedOnClose
<1>12. c \in CloseTrade
  BY <1>1, <1>2, <1>4, <1>6, <1>10, <1>11 DEF CloseTrade, Position
<1>13. PICK share : share = FundingShare(c)
  OBVIOUS
<1>14. share = pnl - priced + 2 * fees
  BY <1>1, <1>6, <1>11, <1>13 DEF FundingShare
<1>15. share \in Int /\ CENT \in Nat
  BY <1>5, <1>6, <1>10, <1>14, EngineAssumption
<1>16. ASSUME left = 0 PROVE Within(share - k, 2 * CENT)
  <2>1. Within(pnl - a - k, CENT)
    BY <1>2, <1>6, <1>10, <1>16
  <2>2. PICK e : e = share - k
    OBVIOUS
  <2>3. e = (pnl - a - k) + (r - priced)
    BY <1>2, <1>5, <1>6, <1>7, <1>8, <1>10, <1>14, <2>2
  <2>4. Within(e, 2 * CENT)
    BY <1>2, <1>5, <1>7, <1>9, <1>10, <1>15, <2>1, <2>3 DEF Within
  <2> QED BY <2>2, <2>4
<1>17. Within(share + rest - k, 3 * CENT)
  <2>1. PICK e : e = share + rest - k
    OBVIOUS
  <2>2. e = (pnl + rest - a - k) + (r - priced)
    BY <1>2, <1>5, <1>6, <1>7, <1>8, <1>10, <1>14, <2>1
  <2>3. Within(e, 3 * CENT)
    BY <1>2, <1>5, <1>7, <1>9, <1>10, <1>15, <2>2 DEF Within
  <2> QED BY <2>1, <2>3
<1>18. c.position = p.id /\ c.left = left /\ rest = round2(k * left, d)
  BY <1>6, <1>8, <1>11
<1> QED BY <1>1, <1>12, <1>13, <1>15, <1>16, <1>17, <1>18

LEMMA InitBooks == PaperInit => PaperBooksInv
<1> SUFFICES ASSUME PaperInit PROVE PaperBooksInv
  OBVIOUS
<1>1. \A m \in Markets : SeedPrices[m] \in Nat /\ (SeedPrices[m] = 0 \/ SeedPrices[m] > SLIP_CAP)
  BY EngineAssumption
<1>2. feed \in [Markets -> [px : Nat, rate : Int]] /\ PricesOK(feed)
  BY <1>1 DEF PaperInit, INITIAL_PRICES, PricesOK
<1>3. 0 \in 0 .. MaxNow
  BY EngineAssumption
<1> QED BY <1>2, <1>3 DEF PaperInit, PaperBooksInv, Exists

LEMMA FreshBooks ==
    ASSUME PaperBooksInv, vault' = freshVault, funding_booked' = 0,
           UNCHANGED <<feed, live, now>>
    PROVE  PaperBooksInv'
<1>1. now \in Nat /\ START \in Nat /\ MaxIntents \in Nat
  BY EngineAssumption DEF PaperBooksInv
<1>2. PICK w, reset : w = freshVault /\ reset = nextUtcMidnight(now)
  OBVIOUS
<1>3. w = [status |-> "active", violatedRule |-> "none", equity |-> START,
           realizedTotal |-> 0, positions |-> {}, trades |-> {}, intentCount |-> 0,
           dailyAnchorEquity |-> START, dailyResetAt |-> reset]
  BY <1>2 DEF freshVault
<1>4. reset \in Nat
  BY <1>1, <1>2, MidnightFacts
<1>5. /\ w.positions = {} /\ w.trades = {} /\ w.intentCount = 0 /\ w.realizedTotal = 0
      /\ w.equity = START /\ w.dailyAnchorEquity = START /\ w.dailyResetAt = reset
      /\ w.status = "active" /\ w.violatedRule = "none"
  BY <1>3
<1>6. PositionsOK({}, 0, now) /\ TradesOK({}, {}, 0)
  BY FS_EmptySet DEF PositionsOK, TradesOK
<1>7. \A f : SumFunctionOnSet(f, {}) = 0
  BY SumOfNothing
<1>8. VaultOK(w, now)
  BY <1>1, <1>4, <1>5, <1>6, <1>7 DEF VaultOK
<1>9. w.equity = computeEquity(w.realizedTotal, w.positions)
  <2>1. computeEquity(0, {}) = round2(START + 0 + SumFunctionOnSet(CarryOf({}), {}), 1)
    BY <1>6, EquityType
  <2>2. START + 0 + SumFunctionOnSet(CarryOf({}), {}) = START
    BY <1>1, <1>7
  <2>3. computeEquity(0, {}) = START
    BY <2>1, <2>2, StartIsRounded
  <2> QED BY <1>5, <2>3
<1>10. Booked(w, 0)
  <2>1. /\ SumFunctionOnSet(ShareOf({}), {}) = 0 /\ SumFunctionOnSet(FundingOf({}), {}) = 0
        /\ SumFunctionOnSet(SlackOf({}), {}) = 0
    BY <1>7
  <2>2. Recognized(w) = 0 /\ Slack(w) = 0
    BY <1>5, <2>1 DEF Recognized, Slack
  <2> QED BY <2>2 DEF Booked, Within
<1>11. VerdictTypes(w)
  BY <1>5 DEF VerdictTypes, Rule
<1>12. w # NoVault
  BY <1>3 DEF NoVault
<1> QED BY <1>2, <1>8, <1>9, <1>10, <1>11, <1>12 DEF PaperBooksInv, BooksOK, Exists

LEMMA SubmitBooks ==
    ASSUME PaperBooksInv, PaperInv, NEW o \in Order, submitOrder(o)
    PROVE  PaperBooksInv'
<1>1. /\ vault # NoVault /\ vault.intentCount < MaxIntents /\ Quoted(o.market)
      /\ Recompute([vault EXCEPT !.positions = @ \cup {Opened(o)}, !.intentCount = @ + 1], feed)
  BY DEF submitOrder, Active, NoVault
<1>2. VaultOK(vault, now) /\ Booked(vault, funding_booked) /\ JudgedVault(vault)
  BY <1>1 DEF PaperBooksInv, BooksOK, Exists, PaperInv
<1>3. PricesOK(feed) /\ now \in Nat
  BY EngineAssumption DEF PaperBooksInv
<1>4. PICK q : q = Opened(o)
  OBVIOUS
<1>5. PositionOK(q, vault.intentCount + 1, now) /\ q.id = vault.intentCount + 1 /\ q.funding = 0
  BY <1>1, <1>4, OpenedFacts
<1>6. PICK X, k : X = vault.positions \cup {q} /\ k = vault.intentCount + 1
  OBVIOUS
<1>7. PICK w : w = [vault EXCEPT !.positions = X, !.intentCount = k]
  OBVIOUS
<1>8. /\ w.positions = X /\ w.trades = vault.trades /\ w.realizedTotal = vault.realizedTotal
      /\ w.intentCount = k /\ SameDay(w, vault)
  BY <1>2, <1>7 DEF JudgedVault, SameDay
<1>9. Recompute(w, feed)
  BY <1>1, <1>4, <1>6, <1>7
<1>10. VaultOK(w, now) /\ Recognized(w) = Recognized(vault) /\ Slack(w) = Slack(vault)
  BY <1>1, <1>2, <1>3, <1>5, <1>6, <1>8, OpenedBooks
<1>11. Booked(w, funding_booked)
  BY <1>2, <1>10 DEF Booked
<1> QED BY <1>3, <1>9, <1>10, <1>11, RecomputedBooks

LEMMA CloseBooks ==
    ASSUME PaperBooksInv, PaperInv, NEW p, NEW requested \in Nat \ {0}, closePosition(p, requested)
    PROVE  PaperBooksInv'
<1>1. PICK units, c : units = resolveCloseSize(p, requested) /\ c = PartialClose(p, units)
  OBVIOUS
<1>2. /\ vault # NoVault /\ vault.intentCount < MaxIntents /\ p \in vault.positions
      /\ Quoted(p.market)
  BY DEF closePosition, Active, NoVault
<1>3. VaultOK(vault, now) /\ Booked(vault, funding_booked) /\ JudgedVault(vault)
  BY <1>2 DEF PaperBooksInv, BooksOK, Exists, PaperInv
<1>4. PricesOK(feed) /\ now \in Nat /\ funding_booked \in Int
  BY EngineAssumption DEF PaperBooksInv
<1>5. PositionOK(p, vault.intentCount, now)
  BY <1>2, <1>3 DEF VaultOK, PositionsOK
<1>6. units \in 1 .. p.units
  BY <1>1, <1>5, CloseSizeFacts DEF PositionOK
<1>7. /\ c \in CloseTrade /\ c.position = p.id /\ c.left = p.units - units
      /\ FundingShare(c) \in Int
      /\ c.left = 0 => Within(FundingShare(c) - p.funding, 2 * CENT)
      /\ Within(FundingShare(c) + round2(p.funding * c.left, p.units) - p.funding, 3 * CENT)
  BY <1>1, <1>2, <1>5, <1>6, PartialCloseFacts
<1>8. PICK X, T, r, k :
        /\ X = (vault.positions \ {p}) \cup Remainder(p, c.left)
        /\ T = vault.trades \cup {c} /\ r = vault.realizedTotal + c.pnl
        /\ k = vault.intentCount + 1
  OBVIOUS
<1>9. PICK w : w = [vault EXCEPT !.positions = X, !.trades = T, !.realizedTotal = r,
                                 !.intentCount = k]
  OBVIOUS
<1>10. /\ w.positions = X /\ w.trades = T /\ w.realizedTotal = r
       /\ w.intentCount = k /\ SameDay(w, vault)
  BY <1>3, <1>9 DEF JudgedVault, SameDay
<1>11. Recompute(w, feed)
  BY <1>1, <1>8, <1>9 DEF closePosition
<1>12. /\ VaultOK(w, now)
       /\ Recognized(vault) \in Int /\ Recognized(w) \in Int
       /\ Slack(vault) \in Int /\ Slack(w) \in Int
       /\ Within(Recognized(w) - Recognized(vault), Slack(w) - Slack(vault))
  <2>1. PICK v, t : v = vault /\ t = now
    OBVIOUS
  <2>2. /\ t \in Nat /\ VaultOK(v, t) /\ v.intentCount < MaxIntents /\ p \in v.positions
        /\ SameDay(w, v) /\ w.positions = (v.positions \ {p}) \cup Remainder(p, c.left)
        /\ w.trades = v.trades \cup {c} /\ w.intentCount = v.intentCount + 1
        /\ w.realizedTotal = v.realizedTotal + c.pnl
    BY <1>2, <1>3, <1>4, <1>8, <1>10, <2>1
  <2>3. /\ VaultOK(w, t)
        /\ Recognized(v) \in Int /\ Recognized(w) \in Int
        /\ Slack(v) \in Int /\ Slack(w) \in Int
        /\ Within(Recognized(w) - Recognized(v), Slack(w) - Slack(v))
    BY ONLY <1>6, <1>7, <2>2, ClosedBooks, Zenon
  <2> QED BY <2>1, <2>3
<1>13. Booked(w, funding_booked)
  <2>1. PICK a, b, x, y : /\ a = Recognized(vault) /\ b = Recognized(w)
                          /\ x = Slack(vault) /\ y = Slack(w)
    OBVIOUS
  <2>2. /\ a \in Int /\ b \in Int /\ x \in Int /\ y \in Int
        /\ Within(b - a, y - x) /\ Within(a - funding_booked, x)
    BY <1>3, <1>12, <2>1 DEF Booked
  <2>3. Within(b - funding_booked, y)
    BY <1>4, <2>2 DEF Within
  <2> QED BY <2>1, <2>3 DEF Booked
<1> QED BY <1>4, <1>11, <1>12, <1>13, RecomputedBooks

LEMMA BracketBooks ==
    ASSUME PaperBooksInv, PaperInv, NEW p, NEW tp \in Nat, NEW sl \in Nat, NEW expires \in Nat,
           EditBracket(p, tp, sl, expires)
    PROVE  PaperBooksInv'
<1>1. PICK q : q = [p EXCEPT !.tp = tp, !.sl = sl, !.expires = expires]
  OBVIOUS
<1>2. PICK X : X = (vault.positions \ {p}) \cup {q}
  OBVIOUS
<1>3. PICK w : w = [vault EXCEPT !.positions = X]
  OBVIOUS
<1>4. /\ vault # NoVault /\ p \in vault.positions
      /\ vault' = w /\ UNCHANGED <<feed, live, now, funding_booked>>
  BY <1>1, <1>2, <1>3 DEF EditBracket, Active, NoVault
<1>5. BooksOK(vault, now, funding_booked) /\ VerdictTypes(vault) /\ JudgedVault(vault)
  BY <1>4 DEF PaperBooksInv, Exists, PaperInv
<1>6. /\ w.positions = X /\ w.trades = vault.trades
      /\ w.realizedTotal = vault.realizedTotal /\ w.intentCount = vault.intentCount
      /\ w.status = vault.status /\ w.violatedRule = vault.violatedRule
      /\ SameDay(w, vault)
  BY <1>3, <1>5 DEF JudgedVault, SameDay
<1>7. PositionOK(p, vault.intentCount, now) /\ now \in Nat
  BY <1>4, <1>5, EngineAssumption DEF BooksOK, VaultOK, PositionsOK, PaperBooksInv
<1>8. /\ PositionOK(q, vault.intentCount, now) /\ q.id = p.id /\ q.units = p.units
      /\ q.funding = p.funding /\ Carry(q) = Carry(p)
  BY <1>1, <1>7 DEF PositionOK, Position, Carry, positionPnl
<1>9. /\ VaultOK(w, now) /\ Recognized(w) = Recognized(vault) /\ Slack(w) = Slack(vault)
      /\ computeEquity(w.realizedTotal, w.positions)
           = computeEquity(vault.realizedTotal, vault.positions)
  <2>1. VaultOK(vault, now) /\ p \in vault.positions /\ now \in Nat
    BY <1>4, <1>5, <1>7 DEF BooksOK
  <2>2. IsEdited(w, vault, now, p, q)
    BY <1>2, <1>6, <1>8, <2>1 DEF IsEdited
  <2> QED BY <2>1, <2>2, EditedBooks
<1>10. BooksOK(w, now, funding_booked)
  BY <1>5, <1>6, <1>9 DEF BooksOK, Booked, SameDay
<1>11. VerdictTypes(w)
  BY <1>5, <1>6 DEF VerdictTypes
<1>12. w # NoVault
  BY <1>11 DEF VerdictTypes, NoVault
<1> QED BY <1>4, <1>10, <1>11, <1>12 DEF PaperBooksInv, Exists, PricesOK

\* Pausing and resuming only change the status.
LEMMA StatusBooks ==
    ASSUME NEW v, JudgedVault(v), NEW t, NEW charged, BooksOK(v, t, charged), NEW status
    PROVE  BooksOK([v EXCEPT !.status = status], t, charged)
<1>1. PICK w : w = [v EXCEPT !.status = status]
  OBVIOUS
<1>2. /\ w.positions = v.positions /\ w.trades = v.trades
      /\ w.realizedTotal = v.realizedTotal /\ w.intentCount = v.intentCount
      /\ SameDay(w, v)
  BY <1>1 DEF JudgedVault, SameDay
<1>3. BooksOK(w, t, charged)
  BY <1>2 DEF BooksOK, VaultOK, Booked, Recognized, Slack, SameDay
<1> QED BY <1>1, <1>3

LEMMA PaperBooksStep ==
    PaperBooksInv /\ PaperInv /\ [PaperNext]_paper_vars => PaperBooksInv'
<1> SUFFICES ASSUME PaperBooksInv, PaperInv, [PaperNext]_paper_vars PROVE PaperBooksInv'
  OBVIOUS
<1>1. Active => vault # NoVault
  BY DEF Active, NoVault
<1>2. vault # NoVault =>
        /\ BooksOK(vault, now, funding_booked) /\ VerdictTypes(vault) /\ JudgedVault(vault)
        /\ VaultOK(vault, now) /\ Booked(vault, funding_booked)
  BY DEF PaperBooksInv, PaperInv, Exists, BooksOK
<1>3. PricesOK(feed) /\ feed \in [Markets -> [px : Nat, rate : Int]]
      /\ now \in Nat /\ now \in 0 .. MaxNow /\ live \subseteq Markets
  BY EngineAssumption DEF PaperBooksInv
<1>4. CASE startEvaluation
  BY <1>4, FreshBooks DEF startEvaluation, PaperBooksInv, Exists
<1>5. CASE resetEvaluation
  BY <1>5, FreshBooks DEF resetEvaluation
<1>6. ASSUME NEW o \in Orders, submitOrder(o) PROVE PaperBooksInv'
  <2>1. o \in Order
    BY EngineAssumption
  <2> QED BY <1>6, <2>1, SubmitBooks
<1>7. ASSUME NEW p \in vault.positions, Active, NEW requested \in 1 .. p.units + 1,
             closePosition(p, requested)
      PROVE  PaperBooksInv'
  <2>1. p.units \in Nat
    BY <1>1, <1>2, <1>7 DEF VaultOK, PositionsOK, PositionOK, Position
  <2>2. requested \in Nat \ {0}
    BY <2>1
  <2> QED BY <1>7, <2>2, CloseBooks
<1>8. ASSUME NEW p \in vault.positions, Active, setBracket(p) \/ cancelBracket(p)
      PROVE  PaperBooksInv'
  <2>1. p.tp \in Nat /\ p.sl \in Nat /\ p.expires \in Nat
    BY <1>1, <1>2, <1>8 DEF VaultOK, PositionsOK, PositionOK, Position
  <2>2. \E tp \in Nat, sl \in Nat, expires \in Nat : EditBracket(p, tp, sl, expires)
    <3>1. CASE setBracket(p)
      <4>1. PICK tp \in BracketPrices \cup {0, p.tp}, sl \in BracketPrices \cup {0, p.sl},
                 expires \in {0, p.expires, now + 1} : EditBracket(p, tp, sl, expires)
        BY <3>1 DEF setBracket
      <4>2. tp \in Nat /\ sl \in Nat /\ expires \in Nat
        BY <1>3, <2>1, EngineAssumption
      <4> QED BY <4>1, <4>2
    <3>2. CASE cancelBracket(p)
      BY <2>1, <3>2 DEF cancelBracket
    <3> QED BY <1>8, <3>1, <3>2
  <2> QED BY <2>2, BracketBooks
<1>9. CASE tick
  <2>1. vault # NoVault /\ Recompute(vault, feed)
    BY <1>1, <1>9 DEF tick
  <2> QED BY <1>2, <1>3, <2>1, RecomputedBooks
<1>10. CASE pauseEvaluation
  <2>1. /\ vault # NoVault /\ vault' = [vault EXCEPT !.status = "inactive"]
        /\ UNCHANGED <<feed, live, now, funding_booked>>
    BY <1>1, <1>10 DEF pauseEvaluation
  <2>2. BooksOK(vault', now, funding_booked)
    BY <1>2, <2>1, StatusBooks
  <2>3. vault'.status = "inactive" /\ vault'.violatedRule = vault.violatedRule
    BY <1>2, <2>1 DEF JudgedVault
  <2>4. VerdictTypes(vault')
    BY <1>2, <2>1, <2>3 DEF VerdictTypes
  <2>5. vault' # NoVault
    BY <2>3 DEF NoVault
  <2> QED BY <2>1, <2>2, <2>4, <2>5 DEF PaperBooksInv, Exists, PricesOK
<1>11. CASE resumeEvaluation
  <2>1. vault # NoVault /\ Recompute([vault EXCEPT !.status = "active"], NoPrices)
    BY <1>11 DEF resumeEvaluation, NoVault
  <2>2. BooksOK([vault EXCEPT !.status = "active"], now, funding_booked)
    BY <1>2, <2>1, StatusBooks
  <2>3. PricesOK(NoPrices)
    BY DEF PricesOK, NoPrices
  <2> QED BY <2>1, <2>2, <2>3, RecomputedBooks DEF BooksOK
<1>12. ASSUME NEW m \in Markets, NEW px \in Prices, NEW rate \in Rates, mergeMarks(m, px, rate)
       PROVE  PaperBooksInv'
  <2>1. px \in Nat /\ px > SLIP_CAP /\ rate \in Int
    BY EngineAssumption
  <2>2. /\ feed' = [feed EXCEPT ![m] = [px |-> px, rate |-> rate]]
        /\ live' = live \cup {m} /\ UNCHANGED <<vault, now, funding_booked>>
    BY <1>12 DEF mergeMarks
  <2>3. feed' \in [Markets -> [px : Nat, rate : Int]] /\ PricesOK(feed')
    BY <1>3, <2>1, <2>2 DEF PricesOK
  <2> QED BY <2>2, <2>3 DEF PaperBooksInv, Exists, PricesOK
<1>13. CASE page_reloads
  <2>1. INITIAL_PRICES \in [Markets -> [px : Nat, rate : Int]] /\ PricesOK(INITIAL_PRICES)
    <3>1. \A m \in Markets : SeedPrices[m] \in Nat
                             /\ (SeedPrices[m] = 0 \/ SeedPrices[m] > SLIP_CAP)
      BY EngineAssumption
    <3> QED BY <3>1 DEF INITIAL_PRICES, PricesOK
  <2> QED BY <1>13, <2>1 DEF page_reloads, PaperBooksInv, Exists, PricesOK
<1>14. CASE clock_advances
  <2>1. now' = now + 1 /\ now' \in 0 .. MaxNow /\ UNCHANGED <<vault, feed, live, funding_booked>>
    BY <1>3, <1>14, EngineAssumption DEF clock_advances
  <2>2. ASSUME vault # NoVault PROVE BooksOK(vault, now + 1, funding_booked)
    <3>1. \A p : PositionOK(p, vault.intentCount, now) => PositionOK(p, vault.intentCount, now + 1)
      BY <1>3 DEF PositionOK, Position
    <3>2. PositionsOK(vault.positions, vault.intentCount, now + 1)
      BY <1>2, <2>2, <3>1 DEF VaultOK, PositionsOK
    <3> QED BY <1>2, <2>2, <3>2 DEF BooksOK, VaultOK
  <2> QED BY <2>1, <2>2 DEF PaperBooksInv, Exists, PricesOK
<1>15. CASE UNCHANGED paper_vars
  BY <1>15 DEF paper_vars, PaperBooksInv, Exists, PricesOK
<1> QED BY <1>4, <1>5, <1>6, <1>7, <1>8, <1>9, <1>10, <1>11, <1>12, <1>13, <1>14, <1>15
        DEF PaperNext, PositionStep

LEMMA PaperBooksInvariant == PaperSpec => [](PaperBooksInv /\ PaperInv)
<1>1. PaperInit => PaperInv
  BY DEF PaperInit, PaperInv
<1> QED BY <1>1, InitBooks, PaperStep, PaperBooksStep, PTL DEF PaperSpec
-----------------------------------------------------------------------------
(* What the books say. *)

\* A record of the fields of a vault, each of its type.
LEMMA VaultIsTyped ==
    ASSUME NEW v, JudgedVault(v), NEW t, VaultOK(v, t), VerdictTypes(v)
    PROVE  v \in SimVault
<1>1. v.positions \subseteq Position /\ v.trades \subseteq CloseTrade
  BY DEF VaultOK, PositionsOK, PositionOK, TradesOK
<1>2. /\ v.equity \in Int /\ v.realizedTotal \in Int /\ v.intentCount \in 0 .. MaxIntents
      /\ v.dailyAnchorEquity \in Int /\ v.dailyResetAt \in Nat
  BY DEF VaultOK
<1> QED BY <1>1, <1>2 DEF JudgedVault, VerdictTypes, SimVault

\* Whatever is traded and however the prices move, the vault, the page's prices and the
\* funding booked stay of their types: no amount leaves the integers, no position is empty,
\* and no intent is counted past the bound.
THEOREM PaperTypesHold == PaperSpec => []PaperTypeOK
<1>1. PaperBooksInv /\ PaperInv => PaperTypeOK
  BY VaultIsTyped DEF PaperBooksInv, PaperInv, PaperTypeOK, Exists, BooksOK
<1> QED BY <1>1, PaperBooksInvariant, PTL

PricedOf(T) ==
    [c \in T |-> PricePnl(c.side, c.units, c.entry, c.fill) - 2 * FEE * c.units]

OpenOf(S) == [p \in S |-> PricePnl(p.side, p.units, p.entry, p.mark) - FEE * p.units]

\* What was realized is what the fills brought and the funding recognized.
LEMMA PnlSplits ==
    ASSUME NEW T, T \subseteq CloseTrade, IsFiniteSet(T)
    PROVE  /\ SumFunctionOnSet(PricedOf(T), T) \in Int
           /\ SumFunctionOnSet(ShareOf(T), T) \in Int
           /\ SumFunctionOnSet(PnlOf(T), T)
                = SumFunctionOnSet(PricedOf(T), T) + SumFunctionOnSet(ShareOf(T), T)
<1>1. PICK f, g, h : f = PricedOf(T) /\ g = ShareOf(T) /\ h = PnlOf(T)
  OBVIOUS
<1>2. ASSUME NEW c \in T PROVE f[c] \in Int /\ g[c] \in Int /\ h[c] = f[c] + g[c]
  <2>1. PICK priced, fees : /\ priced = PricePnl(c.side, c.units, c.entry, c.fill)
                            /\ fees = 2 * FEE * c.units
    OBVIOUS
  <2>2. priced \in Int
    BY <2>1, PricePnlType DEF CloseTrade
  <2>3. fees \in Int /\ c.pnl \in Int
    <3>1. FEE \in Nat /\ c.units \in Nat /\ c.pnl \in Int
      BY EngineAssumption DEF CloseTrade
    <3> QED BY <2>1, <3>1
  <2>4. f[c] = priced - fees /\ g[c] = c.pnl - priced + fees /\ h[c] = c.pnl
    BY <1>1, <2>1 DEF PricedOf, ShareOf, PnlOf, Pnl, FundingShare
  <2> QED BY <2>2, <2>3, <2>4
<1>3. SumFunctionOnSet(h, T) = SumFunctionOnSet(f, T) + SumFunctionOnSet(g, T)
  BY <1>2, SumPlus
<1>4. SumFunctionOnSet(f, T) \in Int /\ SumFunctionOnSet(g, T) \in Int
  BY <1>2, SumType
<1> QED BY <1>1, <1>3, <1>4

\* What is open is worth what its marks bring and the funding it carries, but for half a cent
\* of each position.
LEMMA CarrySplits ==
    ASSUME NEW n, NEW t, NEW S, PositionsOK(S, n, t)
    PROVE  /\ SumFunctionOnSet(OpenOf(S), S) \in Int
           /\ SumFunctionOnSet(FundingOf(S), S) \in Int
           /\ Cardinality(S) \in Nat
           /\ Within(SumFunctionOnSet(CarryOf(S), S)
                       - (SumFunctionOnSet(OpenOf(S), S) + SumFunctionOnSet(FundingOf(S), S)),
                     CENT * Cardinality(S))
<1>1. PICK f, g, h, e, k :
        /\ f = OpenOf(S) /\ g = FundingOf(S) /\ h = CarryOf(S)
        /\ e = [p \in S |-> f[p] + g[p]] /\ k = [p \in S |-> CENT]
  OBVIOUS
<1>2. ASSUME NEW p \in S
      PROVE  /\ f[p] \in Int /\ g[p] \in Int /\ h[p] \in Int
             /\ e[p] \in Int /\ e[p] = f[p] + g[p] /\ k[p] = CENT
             /\ Within(h[p] - e[p], CENT)
  <2>1. PICK priced, r, fees :
          /\ priced = PricePnl(p.side, p.units, p.entry, p.mark) /\ r = round2(priced, 1)
          /\ fees = FEE * p.units
    OBVIOUS
  <2>2. p \in Position /\ p.fee = fees
    BY <2>1 DEF PositionsOK, PositionOK
  <2>3. priced \in Int
    BY <2>1, <2>2, PricePnlType DEF Position
  <2>4. r \in Int /\ Within(r - priced, CENT)
    BY <2>1, <2>3, WholeCentFacts
  <2>5. fees \in Int /\ p.funding \in Int
    BY <2>2 DEF Position
  <2>6. f[p] = priced - fees /\ g[p] = p.funding /\ h[p] = r - fees + p.funding
    BY <1>1, <2>1, <2>2 DEF OpenOf, FundingOf, CarryOf, Carry, positionPnl
  <2>7. e[p] = f[p] + g[p] /\ k[p] = CENT
    BY <1>1
  <2>8. h[p] - e[p] = r - priced
    BY <2>3, <2>4, <2>5, <2>6, <2>7
  <2> QED BY <2>3, <2>4, <2>5, <2>6, <2>7, <2>8
<1>3. IsFiniteSet(S) /\ Cardinality(S) \in Nat /\ CENT \in Int
  BY PositionsFinite, FS_CardinalityType, EngineAssumption
<1>4. SumFunctionOnSet(e, S) = SumFunctionOnSet(f, S) + SumFunctionOnSet(g, S)
  BY <1>2, <1>3, SumPlus
<1>5. /\ SumFunctionOnSet(f, S) \in Int /\ SumFunctionOnSet(g, S) \in Int
      /\ SumFunctionOnSet(h, S) \in Int
  BY <1>2, <1>3, SumType
<1>6. SumFunctionOnSet(k, S) = CENT * Cardinality(S)
  BY <1>2, <1>3, SumOfSame
<1>7. /\ 2 * (SumFunctionOnSet(h, S) - SumFunctionOnSet(e, S)) <= SumFunctionOnSet(k, S)
      /\ 2 * (SumFunctionOnSet(e, S) - SumFunctionOnSet(h, S)) <= SumFunctionOnSet(k, S)
  <2>1. \A p \in S : /\ e[p] \in Int /\ h[p] \in Int /\ k[p] \in Int
                     /\ 2 * (h[p] - e[p]) <= k[p] /\ 2 * (e[p] - h[p]) <= k[p]
    BY <1>2, <1>3 DEF Within
  <2> QED BY ONLY <1>3, <2>1, SumClose
<1>8. Within(SumFunctionOnSet(h, S) - (SumFunctionOnSet(f, S) + SumFunctionOnSet(g, S)),
             CENT * Cardinality(S))
  BY <1>3, <1>4, <1>5, <1>6, <1>7 DEF Within
<1> QED BY <1>1, <1>3, <1>5, <1>8

LEMMA BooksSay ==
    ASSUME PaperBooksInv, Exists
    PROVE  /\ vault.realizedTotal = SumOver(Pnl, vault.trades)
           /\ 2 * Abs(vault.equity - ExactEquity)
                <= CENT * (SumOver(Roundings, vault.trades) + Cardinality(vault.positions) + 1)
<1>1. PICK v, S, T, n : /\ v = vault /\ S = vault.positions /\ T = vault.trades
                        /\ n = vault.intentCount
  OBVIOUS
<1>2. /\ PositionsOK(S, n, now) /\ T \subseteq CloseTrade /\ IsFiniteSet(T)
      /\ v.realizedTotal \in Int /\ v.realizedTotal = SumFunctionOnSet(PnlOf(T), T)
      /\ v.equity = computeEquity(v.realizedTotal, S)
      /\ Booked(v, funding_booked) /\ VaultOK(v, now)
  BY <1>1 DEF PaperBooksInv, BooksOK, VaultOK, TradesOK
<1>3. vault.realizedTotal = SumOver(Pnl, vault.trades)
  <2>1. SumOver(Pnl, T) = SumFunctionOnSet(PnlOf(T), T)
    BY Zenon DEF SumOver, PnlOf
  <2> QED BY <1>1, <1>2, <2>1
<1>4. PICK priced, share, open, funding, carry :
        /\ priced = SumFunctionOnSet(PricedOf(T), T) /\ share = SumFunctionOnSet(ShareOf(T), T)
        /\ open = SumFunctionOnSet(OpenOf(S), S) /\ funding = SumFunctionOnSet(FundingOf(S), S)
        /\ carry = SumFunctionOnSet(CarryOf(S), S)
  OBVIOUS
<1>5. /\ priced \in Int /\ share \in Int /\ v.realizedTotal = priced + share
  BY <1>2, <1>4, PnlSplits
<1>6. PICK k, l : k = Cardinality(S) /\ l = SumOver(Roundings, T)
  OBVIOUS
<1>7. /\ open \in Int /\ funding \in Int /\ k \in Nat
      /\ Within(carry - (open + funding), CENT * k)
      /\ carry \in Int /\ v.equity \in Int
      /\ Within(v.equity - (START + v.realizedTotal + carry), CENT)
  BY <1>2, <1>4, <1>6, CarrySplits, EquityType
<1>8. ExactEquity = START + funding_booked + priced + open
  <2>1. SumOver(LAMBDA c : PricePnl(c.side, c.units, c.entry, c.fill) - 2 * FEE * c.units, T)
          = SumFunctionOnSet(PricedOf(T), T)
    BY Zenon DEF SumOver, PricedOf
  <2>2. SumOver(LAMBDA p : PricePnl(p.side, p.units, p.entry, p.mark) - FEE * p.units, S)
          = SumFunctionOnSet(OpenOf(S), S)
    BY Zenon DEF SumOver, OpenOf
  <2> QED BY <1>1, <1>4, <2>1, <2>2, Zenon DEF ExactEquity
<1>9. l \in Int /\ Slack(v) = CENT * l
  <2>1. PICK f, g : f = [c \in T |-> Roundings(c)] /\ g = SlackOf(T)
    OBVIOUS
  <2>2. \A c \in T : f[c] \in Int /\ g[c] = CENT * f[c]
    BY <2>1 DEF Roundings, SlackOf
  <2>3. SumFunctionOnSet(g, T) = CENT * SumFunctionOnSet(f, T)
    BY <1>2, <2>2, EngineAssumption, SumScale
  <2>4. SumFunctionOnSet(f, T) \in Int
    BY <1>2, <2>2, SumType
  <2>5. l = SumFunctionOnSet(f, T)
    BY <1>6, <2>1, Zenon DEF SumOver
  <2> QED BY <1>1, <2>1, <2>3, <2>4, <2>5 DEF Slack
<1>10. Within((share + funding) - funding_booked, CENT * l)
  BY <1>1, <1>2, <1>4, <1>9 DEF Booked, Recognized
<1>11. START \in Int /\ funding_booked \in Int /\ CENT \in Int
  BY EngineAssumption DEF PaperBooksInv
<1>12. PICK e, ck, cl : e = v.equity - ExactEquity /\ ck = CENT * k /\ cl = CENT * l
  OBVIOUS
<1>13. ck \in Int /\ cl \in Int /\ CENT * (l + k + 1) = cl + ck + CENT
  BY <1>7, <1>9, <1>11, <1>12
<1>14. e \in Int /\ e = (v.equity - (START + v.realizedTotal + carry))
                       + (carry - (open + funding)) + ((share + funding) - funding_booked)
  BY <1>5, <1>7, <1>8, <1>11, <1>12
<1>15. Within(e, cl + ck + CENT)
  <2>1. PICK x, y, z : /\ x = v.equity - (START + v.realizedTotal + carry)
                       /\ y = carry - (open + funding) /\ z = (share + funding) - funding_booked
    OBVIOUS
  <2>2. x \in Int /\ y \in Int /\ z \in Int
    <3>1. v.realizedTotal \in Int /\ START \in Int /\ funding_booked \in Int
      BY <1>2, <1>11
    <3>2. v.equity \in Int /\ carry \in Int /\ open \in Int /\ funding \in Int /\ share \in Int
      BY <1>5, <1>7
    <3> QED BY ONLY <2>1, <3>1, <3>2
  <2>3. Within(x, CENT) /\ Within(y, ck) /\ Within(z, cl) /\ e = x + y + z
    BY <1>7, <1>10, <1>12, <1>14, <2>1
  <2>4. CENT \in Int /\ ck \in Int /\ cl \in Int
    BY <1>11, <1>13
  <2> QED BY ONLY <2>2, <2>3, <2>4 DEF Within
<1>16. 2 * Abs(e) <= CENT * (l + k + 1)
  BY <1>13, <1>14, <1>15 DEF Within, Abs
<1> QED BY <1>1, <1>3, <1>6, <1>12, <1>16

\* The books of an evaluation reconcile, for any markets, prices, rates and orders: its
\* booked total is that of its close trades, and its equity is what its fills add up to,
\* every fee and all the funding counted once, but for half a cent each time the code rounds.
THEOREM BooksReconcileHolds == PaperSpec => []BooksReconcile
<1>1. PaperBooksInv => BooksReconcile
  BY BooksSay DEF BooksReconcile
<1> QED BY <1>1, PaperBooksInvariant, PTL

-----------------------------------------------------------------------------
(* The browser and the executor. *)

LEMMA MaintenanceType ==
    \A p \in Position : maintenanceMargin(p) \in Nat
<1> SUFFICES ASSUME NEW p \in Position PROVE maintenanceMargin(p) \in Nat
  OBVIOUS
<1> DEFINE x == SizeUsd(p) * SCALE
           d == 2 * MaxLeverage[p.market]
<1>1. x \in Nat
  <2>1. p.units \in Nat /\ p.entry \in Nat /\ SCALE \in Nat
    BY EngineAssumption DEF Position
  <2>2. SizeUsd(p) \in Nat
    BY <2>1 DEF SizeUsd
  <2> QED BY <2>1, <2>2
<1>2. d \in Nat \ {0}
  <2>1. MaxLeverage[p.market] \in Nat \ {0}
    BY EngineAssumption DEF Position
  <2> QED BY <2>1
<1>3. maintenanceMargin(p) = x \div d
  BY DEF maintenanceMargin
<1> HIDE DEF x, d
<1>4. 0 \div d = 0
  BY <1>2, DivIs
<1>5. 0 \div d <= x \div d
  BY <1>1, <1>2, DivMonotone
<1>6. x \div d \in Int
  BY <1>1, <1>2, DivFacts
<1> QED BY <1>3, <1>4, <1>5, <1>6

LEMMA InitialMarginType ==
    \A p \in Position : InitialMargin(p) \in Int
<1> SUFFICES ASSUME NEW p \in Position PROVE InitialMargin(p) \in Int
  OBVIOUS
<1>1. PICK x, d : x = SizeUsd(p) * SCALE /\ d = p.leverage
  OBVIOUS
<1>2. x \in Int /\ d \in Nat \ {0}
  <2>1. p.units \in Nat /\ p.entry \in Nat /\ SCALE \in Nat /\ p.leverage \in Nat \ {0}
    BY EngineAssumption DEF Position
  <2>2. SizeUsd(p) \in Nat
    BY <2>1 DEF SizeUsd
  <2> QED BY <1>1, <2>1, <2>2
<1> QED BY <1>1, <1>2, DivFacts DEF InitialMargin

\* A position's own maintenance is no more than that of all of them.
LEMMA SummedMaintFacts ==
    ASSUME NEW n, NEW t, NEW S, PositionsOK(S, n, t), NEW p \in S
    PROVE  /\ maintenanceMargin(p) \in Nat /\ SummedMaint(S) \in Nat
           /\ maintenanceMargin(p) <= SummedMaint(S)
<1>1. PICK f : f = [q \in S |-> maintenanceMargin(q)]
  OBVIOUS
<1>2. \A q \in S : f[q] = maintenanceMargin(q) /\ f[q] \in Nat
  BY <1>1, MaintenanceType DEF PositionsOK, PositionOK
<1>3. SummedMaint(S) = SumFunctionOnSet(f, S)
  BY <1>1, Zenon DEF SummedMaint, SumOver
<1>4. SumFunctionOnSet(f, S) \in Nat /\ \A q \in S : f[q] <= SumFunctionOnSet(f, S)
  BY <1>2, PositionsFinite, SumOfNats
<1> QED BY <1>2, <1>3, <1>4

\* The factor of a liquidation price is a whole number, as SCALE is a multiple of twice
\* every leverage, and not zero.
LEMMA LiquidationUnitType ==
    ASSUME NEW p \in Position
    PROVE  LiquidationUnit(p) \in Nat \ {0}
<1>1. PICK d, q, dir, n :
        /\ d = 2 * MaxLeverage[p.market] /\ q = SCALE \div d /\ dir = Dir(p.side)
        /\ n = (d - dir) * SCALE
  OBVIOUS
<1>2. p.market \in Markets /\ p.units \in Nat \ {0}
  BY DEF Position
<1>3. d \in Nat \ {0} /\ d >= 2 /\ SCALE \in Nat \ {0} /\ SCALE % d = 0
  <2>1. MaxLeverage[p.market] \in Nat \ {0}
    BY <1>2, EngineAssumption
  <2> QED BY <1>1, <1>2, <2>1, EngineAssumption
<1>4. q \in Int /\ SCALE = d * q
  BY <1>1, <1>3
<1>5. q >= 1
  <2>1. ASSUME q <= 0 PROVE FALSE
    <3>1. d * q <= d * 0
      BY <1>3, <1>4, <2>1
    <3> QED BY <1>3, <1>4, <3>1
  <2> QED BY <1>4, <2>1
<1>6. dir \in {1, -1} /\ d - dir >= 1 /\ d - dir \in Int
  BY <1>1, <1>3, DirType
<1>7. PICK m : m = (d - dir) * q
  OBVIOUS
<1>8. m \in Int /\ m >= 1
  <2>1. (d - dir) * q >= 1 * q
    BY <1>4, <1>5, <1>6
  <2> QED BY <1>4, <1>5, <1>6, <1>7, <2>1
<1>9. n \in Int /\ n = m * d
  BY <1>1, <1>3, <1>4, <1>6, <1>7
<1>10. n \div d = m
  BY <1>3, <1>8, <1>9, DivIs
<1>11. LiquidationPart(p) = m
  BY <1>1, <1>10 DEF LiquidationPart
<1> QED BY <1>2, <1>8, <1>11 DEF LiquidationUnit

\* What has crossed a liquidation price with more available has crossed the one with less,
\* whose mark is then within half a cent when it has not crossed the rounded one.
LEMMA CrossedWithLess ==
    ASSUME NEW p \in Position, NEW more \in Int, NEW less \in Int, less <= more,
           NEW k, k = LiquidationUnit(p), NEW a, a = liquidationPrice(p, less),
           NEW s, s = round2(a, k), s > 0,
           CrossedLiquidation(p, liquidationPrice(p, more), k), ~ isLiquidated(p, s)
    PROVE  HalfACentFrom(p, a, k)
<1>1. k \in Nat \ {0} /\ p.entry \in Nat /\ p.mark \in Nat /\ CENT \in Nat
  BY LiquidationUnitType, EngineAssumption DEF Position
<1>2. PICK base, mark, dir : base = p.entry * k /\ mark = p.mark * k /\ dir = Dir(p.side)
  OBVIOUS
<1>3. base \in Int /\ mark \in Int /\ dir \in {1, -1} /\ k * CENT \in Int
  BY <1>1, <1>2, DirType
<1>4. a = base - dir * less /\ liquidationPrice(p, more) = base - dir * more
  BY <1>2 DEF liquidationPrice
<1>5. a \in Int
  BY <1>3, <1>4
<1>6. s \in Int /\ Within(k * s - a, k * CENT) /\ k * s \in Int
  BY <1>1, <1>5, CentFacts
<1>7. CENT * k = k * CENT /\ p.mark * 1 = p.mark
  BY <1>1
<1>8. CASE p.side = "long"
  <2>1. dir = 1
    BY <1>2, <1>8 DEF Dir
  <2>2. mark <= base - more
    BY <1>2, <1>4, <1>8, <2>1 DEF CrossedLiquidation
  <2>3. s < p.mark
    BY <1>1, <1>6, <1>7, <1>8 DEF isLiquidated, CrossedLiquidation
  <2>4. k * s <= mark
    <3>1. k * s <= k * p.mark
      BY <1>1, <1>6, <2>3
    <3> QED BY <1>1, <1>2, <3>1
  <2>5. 2 * Abs(mark - a) <= k * CENT
    BY <1>3, <1>4, <1>5, <1>6, <2>1, <2>2, <2>4 DEF Abs, Within
  <2> QED BY <1>2, <1>7, <2>5 DEF HalfACentFrom
<1>9. CASE p.side # "long"
  <2>1. dir = -1
    BY <1>2, <1>9 DEF Dir
  <2>2. mark >= base + more
    BY <1>2, <1>4, <1>9, <2>1 DEF CrossedLiquidation
  <2>3. p.mark < s
    BY <1>1, <1>6, <1>7, <1>9 DEF isLiquidated, CrossedLiquidation
  <2>4. mark <= k * s
    <3>1. k * p.mark <= k * s
      BY <1>1, <1>6, <2>3
    <3> QED BY <1>1, <1>2, <3>1
  <2>5. 2 * Abs(mark - a) <= k * CENT
    BY <1>3, <1>4, <1>5, <1>6, <2>1, <2>2, <2>4 DEF Abs, Within
  <2> QED BY <1>2, <1>7, <2>5 DEF HalfACentFrom
<1> QED BY <1>8, <1>9

LEMMA ExecutorSays ==
    ASSUME PaperBooksInv, Exists, NEW w, w = recompute(vault, feed, now),
           NEW M, M = FundedAndMarked(vault.positions, feed, now),
           NEW equity, equity = computeEquity(vault.realizedTotal, M),
           NEW p \in M, NEW q \in w.positions, q.id = p.id
    PROVE  /\ ExecutorTrigger(p, equity) \in {"sl", "tp"} => Expired(p, now)
           /\ ExecutorTrigger(p, equity) = "liquidation" =>
                \/ attachLiquidation(p, M, equity) <= 0
                \/ HalfACentFrom(p, liquidationPrice(p, marginAvailable(p, equity, SummedMaint(M))),
                                 LiquidationUnit(p))
<1>1. PICK m, D, F, R, K, C : IsRecomputed(w, vault, feed, now, m, D, F, R, K, C)
  BY RecomputeStages
<1>2. PICK n, S : n = vault.intentCount /\ S = vault.positions
  OBVIOUS
<1>3. PositionsOK(S, n, now) /\ vault.realizedTotal \in Int /\ PricesOK(feed) /\ now \in Nat
  BY <1>2, EngineAssumption DEF PaperBooksInv, BooksOK, VaultOK
<1>4. PositionsOK(M, n, now)
  BY <1>2, <1>3, MarkedFacts
<1>5. /\ m = M /\ D = Liquidated(M, equity) /\ F = Fired(M \ D, now) /\ R = (M \ D) \ F
      /\ K = AllUndated(R, now) /\ w.positions = K
  BY <1>1 DEF IsRecomputed
<1>6. PositionsOK(R, n, now)
  BY <1>4, <1>5, PositionsSubset
<1>7. PICK r \in R : q.id = r.id
  <2>1. PICK t : t = now
    OBVIOUS
  <2>2. PositionsOK(R, n, t) /\ K = AllUndated(R, t)
    BY <1>5, <1>6, <2>1
  <2>3. /\ PositionsOK(K, n, t)
        /\ \A x \in K : \E y \in R : x.id = y.id /\ x.units = y.units
        /\ SumFunctionOnSet(FundingOf(K), K) = SumFunctionOnSet(FundingOf(R), R)
    BY <2>2, UndatedFacts
  <2>4. q \in K
    BY <1>5
  <2> QED BY ONLY <2>3, <2>4
<1>8. p \in R
  BY <1>4, <1>5, <1>7 DEF PositionsOK
<1>9. ~ isLiquidated(p, attachLiquidation(p, M, equity))
      /\ (bracketTrigger(p) # "none" => Expired(p, now))
  BY <1>5, <1>8 DEF Liquidated, Fired
<1>10. ExecutorTrigger(p, equity) \in {"sl", "tp"} => bracketTrigger(p) # "none"
  BY DEF ExecutorTrigger
<1>11. PICK all, available, a, k, s :
         /\ all = SummedMaint(M) /\ available = marginAvailable(p, equity, all)
         /\ a = liquidationPrice(p, available) /\ k = LiquidationUnit(p) /\ s = round2(a, k)
  OBVIOUS
<1>12. s = attachLiquidation(p, M, equity)
  BY <1>11 DEF attachLiquidation
<1>13. ASSUME ExecutorTrigger(p, equity) = "liquidation"
       PROVE  s <= 0 \/ HalfACentFrom(p, a, k)
  <2>1. PICK own, less, more :
          /\ own = maintenanceMargin(p) /\ more = marginAvailable(p, equity, own)
          /\ less = available
    OBVIOUS
  <2>2. CrossedLiquidation(p, liquidationPrice(p, more), k)
    <3>1. ~ (bracketTrigger(p) # "none")
      BY <1>13, TriggerType DEF ExecutorTrigger
    <3> QED BY <1>11, <1>13, <2>1, <3>1 DEF ExecutorTrigger
  <2>3. own \in Nat /\ all \in Nat /\ own <= all
    BY <1>4, <1>11, <2>1, SummedMaintFacts
  <2>4. equity \in Int /\ SCALE * equity \in Int /\ p \in Position
    <3>1. equity \in Int
      BY <1>3, <1>4, EquityType
    <3>2. SCALE \in Int
      BY EngineAssumption
    <3> QED BY <1>4, <3>1, <3>2 DEF PositionsOK, PositionOK
  <2>5. more \in Int /\ less \in Int /\ less <= more
    <3>1. CASE p.mode = "cross"
      <4>1. more = SCALE * equity - own /\ less = SCALE * equity - all
        BY <1>11, <2>1, <3>1 DEF marginAvailable
      <4> QED BY <2>3, <2>4, <4>1
    <3>2. CASE p.mode # "cross"
      <4>1. more = InitialMargin(p) - maintenanceMargin(p) /\ less = more
        BY <1>11, <2>1, <3>2 DEF marginAvailable
      <4> QED BY <2>4, <4>1, MaintenanceType, InitialMarginType
    <3> QED BY <3>1, <3>2
  <2>6. s \in Int
    <3>1. k \in Nat \ {0} /\ p.entry \in Int /\ Dir(p.side) \in Int
      BY <1>11, <2>4, LiquidationUnitType, DirType DEF Position
    <3>2. a \in Int
      BY <1>11, <2>1, <2>5, <3>1 DEF liquidationPrice
    <3> QED BY <1>11, <3>1, <3>2, CentFacts
  <2>7. ASSUME s > 0 PROVE HalfACentFrom(p, a, k)
    <3>1. a = liquidationPrice(p, less) /\ ~ isLiquidated(p, s)
      BY <1>9, <1>11, <1>12, <2>1
    <3> QED BY ONLY <1>11, <2>2, <2>4, <2>5, <2>7, <3>1, CrossedWithLess
  <2> QED BY <2>6, <2>7
<1> QED BY <1>9, <1>10, <1>11, <1>12, <1>13

\* The executor closes nothing the browser's next tick would leave open, but for a bracket
\* the browser knows to have expired, a position it has no positive price to liquidate at,
\* and a mark within half a cent of the price the browser rounds: for any positions, marks
\* and leverages.
THEOREM ExecutorIsNoStricterHolds == PaperSpec => []ExecutorIsNoStricter
<1>1. PaperBooksInv => ExecutorIsNoStricter
  <2> SUFFICES ASSUME PaperBooksInv, Exists, Active PROVE ExecutorIsNoStricter
    BY DEF ExecutorIsNoStricter
  <2>1. PICK w, M, equity, kept :
          /\ w = recompute(vault, feed, now)
          /\ M = FundedAndMarked(vault.positions, feed, now)
          /\ equity = computeEquity(vault.realizedTotal, M)
          /\ kept = {q.id : q \in w.positions}
    OBVIOUS
  <2>2. ASSUME NEW p \in M
        PROVE  /\ ExecutorTrigger(p, equity) \in {"sl", "tp"} =>
                    p.id \notin kept \/ Expired(p, now)
               /\ ExecutorTrigger(p, equity) = "liquidation" =>
                    \/ p.id \notin kept
                    \/ attachLiquidation(p, M, equity) <= 0
                    \/ HalfACentFrom(p, liquidationPrice(p, marginAvailable(p, equity, SummedMaint(M))),
                                     LiquidationUnit(p))
    <3>1. CASE p.id \notin kept
      BY <3>1
    <3>2. CASE p.id \in kept
      <4>1. PICK q \in w.positions : q.id = p.id
        BY <2>1, <3>2
      <4> QED BY <2>1, <4>1, ExecutorSays
    <3> QED BY <3>1, <3>2
  <2> QED BY <2>1, <2>2, Zenon DEF ExecutorIsNoStricter
<1> QED BY <1>1, PaperBooksInvariant, PTL

-----------------------------------------------------------------------------
(* The anchor of the daily loss. *)

IsMidnight(t) == \E k \in Int : t = k * DAY

\* The vault is reset at the midnight that comes, or has come since its last recompute; the
\* anchor is what the equity was at the last one.
DayInv ==
    /\ ~ Exists => day_open = START
    /\ Exists =>
         /\ IsMidnight(vault.dailyResetAt) /\ vault.dailyResetAt <= nextUtcMidnight(now)
         /\ IF vault.dailyResetAt > now
            THEN vault.dailyAnchorEquity = day_open
            ELSE vault.equity = day_open

LEMMA MidnightIsOne ==
    ASSUME NEW t \in Nat
    PROVE  /\ IsMidnight(nextUtcMidnight(t))
           /\ nextUtcMidnight(t) <= nextUtcMidnight(t + 1)
<1>1. DAY \in Nat \ {0}
  BY EngineAssumption
<1>2. PICK a, b : a = t \div DAY /\ b = (t + 1) \div DAY
  OBVIOUS
<1>3. a \in Int /\ b \in Int
  BY <1>1, <1>2, DivFacts
<1>4. a <= b
  BY <1>1, <1>2, DivMonotone
<1>5. nextUtcMidnight(t) = a * DAY + DAY /\ nextUtcMidnight(t + 1) = b * DAY + DAY
  BY <1>2 DEF nextUtcMidnight
<1>6. a * DAY + DAY = (a + 1) * DAY /\ a + 1 \in Int
  BY <1>1, <1>3
<1>7. a * DAY <= b * DAY
  BY <1>1, <1>3, <1>4
<1> QED BY <1>1, <1>3, <1>5, <1>6, <1>7 DEF IsMidnight

\* A midnight is what the day begins at.
LEMMA MidnightIsZero ==
    ASSUME NEW t \in Nat
    PROVE  IsMidnight(t) <=> t % DAY = 0
<1>1. DAY \in Nat \ {0}
  BY EngineAssumption
<1>2. t = (t \div DAY) * DAY + (t % DAY) /\ t \div DAY \in Int
  BY <1>1
<1>3. ASSUME NEW k \in Int, t = k * DAY PROVE t % DAY = 0
  <2>1. k * DAY <= t /\ t < k * DAY + DAY
    BY <1>1, <1>3
  <2>2. t \div DAY = k
    BY <1>1, <2>1, DivIs
  <2> QED BY <1>1, <1>2, <1>3, <2>2
<1>4. t % DAY = 0 => t = (t \div DAY) * DAY
  BY <1>1, <1>2
<1> QED BY <1>2, <1>3, <1>4 DEF IsMidnight

\* If the day begins within a step of the clock, the reset has come too.
LEMMA DayBeginsAtReset ==
    ASSUME NEW t \in Nat, NEW reset \in Nat, reset <= nextUtcMidnight(t), IsMidnight(t + 1)
    PROVE  reset <= t + 1
<1>1. DAY \in Nat \ {0}
  BY EngineAssumption
<1>2. PICK k \in Int : t + 1 = k * DAY
  BY DEF IsMidnight
<1>3. PICK q \in Int : q = k - 1
  OBVIOUS
<1>4. q * DAY = k * DAY - DAY
  BY <1>1, <1>3
<1>5. q * DAY <= t /\ t < q * DAY + DAY
  BY <1>1, <1>2, <1>3, <1>4
<1>6. t \div DAY = q
  BY <1>1, <1>5, DivIs
<1>7. nextUtcMidnight(t) = t + 1
  <2>1. nextUtcMidnight(t) = q * DAY + DAY
    BY <1>6 DEF nextUtcMidnight
  <2> QED BY <1>1, <1>2, <1>4, <2>1
<1> QED BY <1>7

\* What a recompute of the same day's vault leaves of the anchor.
LEMMA RecomputedDay ==
    ASSUME PaperBooksInv, DayInv, Exists, Exists', NEW v, SameDay(v, vault), NEW prices,
           Recompute(v, prices), UNCHANGED day_open
    PROVE  DayInv'
<1>1. PICK w : w = recompute(v, prices, now)
  OBVIOUS
<1>2. PICK M, D, F, R, K, C : IsRecomputed(w, v, prices, now, M, D, F, R, K, C)
  BY <1>1, RecomputeStages
<1>3. /\ w.dailyAnchorEquity
           = IF now >= vault.dailyResetAt THEN vault.equity ELSE vault.dailyAnchorEquity
      /\ w.dailyResetAt
           = IF now >= vault.dailyResetAt THEN nextUtcMidnight(now) ELSE vault.dailyResetAt
  BY <1>2 DEF IsRecomputed, SameDay
<1>4. vault' = w /\ now' = now
  BY <1>1 DEF Recompute
<1>5. now \in Nat /\ vault.dailyResetAt \in Nat
  BY EngineAssumption DEF PaperBooksInv, BooksOK, VaultOK
<1>6. /\ nextUtcMidnight(now) \in Nat /\ nextUtcMidnight(now) > now
      /\ IsMidnight(nextUtcMidnight(now))
  BY <1>5, MidnightFacts, MidnightIsOne
<1>7. /\ IsMidnight(w.dailyResetAt) /\ w.dailyResetAt <= nextUtcMidnight(now)
      /\ w.dailyResetAt > now /\ w.dailyAnchorEquity = day_open
  <2>1. CASE now >= vault.dailyResetAt
    BY <1>3, <1>5, <1>6, <2>1 DEF DayInv
  <2>2. CASE ~ (now >= vault.dailyResetAt)
    BY <1>3, <1>5, <1>6, <2>2 DEF DayInv
  <2> QED BY <2>1, <2>2
<1> QED BY <1>4, <1>7 DEF DayInv

\* A step of another kind that leaves the day's equity, anchor and reset alone.
LEMMA QuietDay ==
    ASSUME DayInv, Exists, Exists', SameDay(vault', vault), now' = now, UNCHANGED day_open
    PROVE  DayInv'
BY DEF DayInv, SameDay
LEMMA FreshDay ==
    ASSUME PaperBooksInv, vault' = freshVault, now' = now, day_open' = START
    PROVE  DayInv'
<1>1. now \in Nat
  BY EngineAssumption DEF PaperBooksInv
<1>2. PICK reset : reset = nextUtcMidnight(now)
  OBVIOUS
<1>3. reset \in Nat /\ reset > now /\ IsMidnight(reset)
  BY <1>1, <1>2, MidnightFacts, MidnightIsOne
<1>4. vault'.dailyResetAt = reset /\ vault'.dailyAnchorEquity = START
  BY <1>2 DEF freshVault
<1> QED BY <1>1, <1>2, <1>3, <1>4 DEF DayInv

LEMMA ClockDay ==
    ASSUME PaperBooksInv, DayInv, Exists, vault' = vault, now' = now + 1,
           day_open' = IF DayBegins THEN vault.equity ELSE day_open
    PROVE  DayInv'
<1>1. now \in Nat /\ now + 1 \in Nat /\ vault.dailyResetAt \in Nat
  BY EngineAssumption DEF PaperBooksInv, BooksOK, VaultOK
<1>2. PICK reset, t : reset = vault.dailyResetAt /\ t = now
  OBVIOUS
<1>3. /\ reset \in Nat /\ t \in Nat /\ IsMidnight(reset) /\ reset <= nextUtcMidnight(t)
      /\ IF reset > t THEN vault.dailyAnchorEquity = day_open ELSE vault.equity = day_open
  BY <1>1, <1>2 DEF DayInv
<1>4. DayBegins <=> IsMidnight(t + 1)
  BY <1>1, <1>2, MidnightIsZero DEF DayBegins
<1>5. reset <= nextUtcMidnight(t + 1)
  BY <1>1, <1>3, MidnightIsOne, MidnightFacts
<1>6. IF reset > t + 1 THEN vault.dailyAnchorEquity = day_open'
                       ELSE vault.equity = day_open'
  <2>1. CASE reset > t + 1
    <3>1. ~ IsMidnight(t + 1)
      BY <1>3, <2>1, DayBeginsAtReset
    <3> QED BY <1>3, <1>4, <2>1, <3>1
  <2>2. CASE reset = t + 1
    BY <1>3, <1>4, <2>2
  <2>3. CASE reset <= t
    BY <1>3, <2>3
  <2> QED BY <1>3, <2>1, <2>2, <2>3
<1> QED BY <1>2, <1>3, <1>5, <1>6 DEF DayInv, Exists

LEMMA PaperDayStep ==
    PaperBooksInv /\ PaperInv /\ DayInv
      /\ [PaperHistoryNext]_paper_history_vars => DayInv'
<1> SUFFICES ASSUME PaperBooksInv, PaperInv, DayInv, [PaperHistoryNext]_paper_history_vars
             PROVE  DayInv'
  OBVIOUS
<1>1. CASE UNCHANGED paper_history_vars
  BY <1>1 DEF paper_history_vars, paper_vars, DayInv, Exists
<1>2. CASE PaperNext /\ DayOpens /\ (~ Exists \/ resetEvaluation)
  <2>1. day_open' = START
    BY <1>2 DEF DayOpens
  <2>2. (vault' = freshVault /\ now' = now) \/ vault' = NoVault
    BY <1>2 DEF PaperNext, startEvaluation, resetEvaluation, PositionStep, tick,
                pauseEvaluation, resumeEvaluation, mergeMarks, page_reloads, clock_advances,
                Exists, Active, NoVault
  <2> QED BY <2>1, <2>2, FreshDay DEF DayInv, Exists
<1>3. CASE PaperNext /\ DayOpens /\ Exists /\ ~ resetEvaluation
  <2>1. day_open' = IF DayBegins THEN vault.equity ELSE day_open
    BY <1>3 DEF DayOpens
  <2>2. now' = now => day_open' = day_open
    BY <2>1 DEF DayBegins
  <2>3. JudgedVault(vault) /\ vault # NoVault /\ Exists
    BY <1>3 DEF PaperInv, Exists
  <2>4. ASSUME NEW v, SameDay(v, vault), NEW prices, Recompute(v, prices) PROVE DayInv'
    <3>1. JudgedVault(vault') /\ now' = now
      BY <2>4, RecomputeJudges DEF Recompute
    <3>2. Exists'
      BY <3>1 DEF JudgedVault, Exists, NoVault
    <3> QED BY <2>2, <2>3, <2>4, <3>1, <3>2, RecomputedDay
  <2>5. ASSUME NEW o, submitOrder(o) PROVE DayInv'
    <3>1. PICK w : w = [vault EXCEPT !.positions = @ \cup {Opened(o)}, !.intentCount = @ + 1]
      OBVIOUS
    <3>2. SameDay(w, vault)
      BY <2>3, <3>1 DEF JudgedVault, SameDay
    <3> QED BY <2>4, <2>5, <3>1, <3>2 DEF submitOrder
  <2>6. ASSUME NEW p, NEW requested, closePosition(p, requested) PROVE DayInv'
    <3>1. PICK c, X, T, r, k :
            /\ c = PartialClose(p, resolveCloseSize(p, requested))
            /\ X = (vault.positions \ {p}) \cup Remainder(p, c.left)
            /\ T = vault.trades \cup {c} /\ r = vault.realizedTotal + c.pnl
            /\ k = vault.intentCount + 1
      OBVIOUS
    <3>2. PICK w : w = [vault EXCEPT !.positions = X, !.trades = T, !.realizedTotal = r,
                                     !.intentCount = k]
      OBVIOUS
    <3>3. Recompute(w, feed)
      BY <2>6, <3>1, <3>2 DEF closePosition
    <3>4. SameDay(w, vault)
      BY <2>3, <3>2 DEF JudgedVault, SameDay
    <3> QED BY <2>4, <3>3, <3>4
  <2>7. ASSUME SameDay(vault', vault), vault' # NoVault, now' = now PROVE DayInv'
    BY <2>2, <2>3, <2>7, QuietDay DEF Exists
  <2>8. ASSUME NEW p, NEW tp, NEW sl, NEW expires, EditBracket(p, tp, sl, expires)
        PROVE  DayInv'
    <3>1. PICK X : vault' = [vault EXCEPT !.positions = X] /\ now' = now
      BY <2>8 DEF EditBracket
    <3>2. SameDay(vault', vault) /\ vault'.status = vault.status
      BY <2>3, <3>1 DEF JudgedVault, SameDay
    <3>3. vault' # NoVault
      BY <2>8, <3>2 DEF EditBracket, Active, NoVault
    <3> QED BY <2>7, <3>1, <3>2, <3>3
  <2>9. CASE pauseEvaluation
    <3>1. vault' = [vault EXCEPT !.status = "inactive"] /\ now' = now
      BY <2>9 DEF pauseEvaluation
    <3>2. SameDay(vault', vault) /\ vault'.status = "inactive"
      BY <2>3, <3>1 DEF JudgedVault, SameDay
    <3> QED BY <2>7, <3>1, <3>2 DEF NoVault
  <2>10. CASE tick
    <3>1. SameDay(vault, vault)
      BY DEF SameDay
    <3> QED BY <2>4, <2>10, <3>1 DEF tick
  <2>11. CASE resumeEvaluation
    <3>1. PICK w : w = [vault EXCEPT !.status = "active"]
      OBVIOUS
    <3>2. SameDay(w, vault)
      BY <2>3, <3>1 DEF JudgedVault, SameDay
    <3> QED BY <2>4, <2>11, <3>1, <3>2 DEF resumeEvaluation
  <2>12. ASSUME NEW p, setBracket(p) \/ cancelBracket(p) PROVE DayInv'
    BY <2>8, <2>12 DEF setBracket, cancelBracket
  <2>13. CASE \/ \E m \in Markets, px \in Prices, rate \in Rates : mergeMarks(m, px, rate)
              \/ page_reloads
    <3>1. vault' = vault /\ now' = now
      BY <2>13 DEF mergeMarks, page_reloads
    <3> QED BY <2>3, <2>7, <3>1 DEF SameDay
  <2>14. CASE clock_advances
    BY <2>1, <2>3, <2>14, ClockDay DEF clock_advances
  <2>15. ~ startEvaluation
    BY <2>3 DEF startEvaluation
  <2> QED BY <1>3, <2>5, <2>6, <2>9, <2>10, <2>11, <2>12, <2>13, <2>14, <2>15
          DEF PaperNext, PositionStep
<1> QED BY <1>1, <1>2, <1>3 DEF PaperHistoryNext

\* The daily loss is measured from the equity at 00:00 UTC, whatever the day's length, the
\* prices and the orders, and however late the first recompute of a day comes.
THEOREM DailyAnchorHolds == PaperHistorySpec => []DailyAnchor
<1>1. PaperHistoryInit => PaperBooksInv /\ PaperInv /\ DayInv
  BY InitBooks DEF PaperHistoryInit, PaperInit, PaperInv, DayInv, Exists
<1>2. [PaperHistoryNext]_paper_history_vars => [PaperNext]_paper_vars
  BY DEF PaperHistoryNext, paper_history_vars
<1>3. DayInv => DailyAnchor
  BY DEF DayInv, DailyAnchor
<1> QED BY <1>1, <1>2, <1>3, PaperStep, PaperBooksStep, PaperDayStep, PTL
        DEF PaperHistorySpec

=============================================================================
