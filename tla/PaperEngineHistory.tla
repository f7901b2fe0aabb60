------------------------- MODULE PaperEngineHistory -------------------------
(***************************************************************************)
(* PaperEngine with a history variable that says what the equity was when  *)
(* the day began, and what it is for: the anchor of the daily loss.        *)
(***************************************************************************)
EXTENDS PaperEngine

\* day_open: the equity the vault had at 00:00 UTC, or a fresh one today.
VARIABLE day_open

paper_history_vars == <<paper_vars, day_open>>

PaperHistoryInit == PaperInit /\ day_open = START

DayBegins == now' # now /\ now' % DAY = 0

DayOpens ==
    day_open' = CASE ~ Exists \/ resetEvaluation -> START
                  [] Exists /\ ~ resetEvaluation /\ DayBegins -> vault.equity
                  [] OTHER -> day_open

PaperHistoryNext == PaperNext /\ DayOpens

PaperHistorySpec == PaperHistoryInit /\ [][PaperHistoryNext]_paper_history_vars

\* The daily loss is measured from the equity at 00:00 UTC, however late the first
\* recompute of the day comes and whatever happened to the marks meanwhile.
DailyAnchor ==
    Exists =>
      IF vault.dailyResetAt > now
      THEN vault.dailyAnchorEquity = day_open
      ELSE vault.equity = day_open

=============================================================================
