--------------------------- MODULE MCTradeBooking ---------------------------
(***************************************************************************)
(* Small instances of TradeBooking for TLC.  The bridge waits for one      *)
(* request at a time and a lost connection or a reload orphans it, so with *)
(* n such faults no more than n + 1 requests are ever in flight.           *)
(***************************************************************************)
EXTENDS TradeBooking, TLC

CONSTANT pos1    \* model value: a position id

=============================================================================
