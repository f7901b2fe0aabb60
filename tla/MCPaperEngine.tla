---------------------------- MODULE MCPaperEngine ----------------------------
(***************************************************************************)
(* A small instance of PaperEngine and its history for TLC.                *)
(***************************************************************************)
EXTENDS PaperEngineHistory, TLC

CONSTANTS BTC, ISO    \* model values: the markets of the instance

AnOrder(m, side, units, mode, leverage, tp, sl) ==
    [market |-> m, side |-> side, units |-> units, mode |-> mode,
     leverage |-> leverage, tp |-> tp, sl |-> sl]

MCMarkets == {BTC, ISO}

MCMaxLeverage == (BTC :> 4) @@ (ISO :> 2)

\* One market is in the fixtures, the other is not.
MCSeedPrices == (BTC :> 200) @@ (ISO :> 0)

MCOrders ==
    { AnOrder(BTC, "long", 3, "cross", 4, 0, 0),
      AnOrder(BTC, "short", 2, "isolated", 4, 164, 0),
      AnOrder(ISO, "short", 2, "cross", 2, 0, 220) }

\* paper_scene: a behaviour is about the positions it opens and closes, or about the
\* brackets of one or two of them, with feeds that go silent.
VARIABLE paper_scene

mc_paper_vars == <<paper_history_vars, paper_scene>>

MCPaperInit == PaperHistoryInit /\ paper_scene \in {"book", "brackets"}

\* Orders and closes, of one unit or of all there is, of an evaluation that starts with the
\* feed up.  The prices stand still once it stopped, when nothing reads them.
BookStep ==
    /\ \/ live = Markets /\ (startEvaluation \/ resetEvaluation)
       \/ \E o \in Orders : submitOrder(o)
       \/ Active /\ \E p \in vault.positions : \E requested \in {1, 3} : closePosition(p, requested)
       \/ Active /\ tick
       \/ /\ Exists => Active
          /\ \E m \in Markets, px \in Prices, rate \in Rates : mergeMarks(m, px, rate)
       \/ clock_advances
    /\ Exists => \A p \in vault'.positions : p.mode = "cross" \/ p.market = ISO

BracketStep ==
    /\ PaperNext
    /\ Exists => vault'.intentCount <= 1 /\ Cardinality(vault'.positions) <= 1
    /\ Exists => \A p \in vault'.positions : p.mode = "isolated"

MCPaperNext ==
    /\ \/ paper_scene = "book" /\ BookStep
       \/ paper_scene = "brackets" /\ BracketStep
    /\ feed'[ISO].px # 161
    /\ UNCHANGED paper_scene
    /\ DayOpens

MCPaperSpec == MCPaperInit /\ [][MCPaperNext]_mc_paper_vars

=============================================================================
