---------------------------- MODULE TradeBooking ----------------------------
(***************************************************************************)
(* How the closed paper positions of one account reach log_trade, by two   *)
(* paths that share the ledger database:                                   *)
(*                                                                         *)
(*  - the browser closes a position and its bridge (useOnchainBridge.ts)   *)
(*    posts it to /api/trades/close, after it posted the open position to  *)
(*    /api/positions/open;                                                 *)
(*  - the executor service (settlement.ts) closes the ledger's open rows   *)
(*    whose mark has crossed a bracket or a liquidation price.             *)
(*                                                                         *)
(* Every await is a step boundary.  Prices, fees, funding and the pass or  *)
(* fail that may follow a close are left out: a position is a size, a mark *)
(* has crossed or not.  What may go wrong (a call that fails, a connection *)
(* lost, a page reload, a server cold start, an executor restart) costs a  *)
(* fault, and a behaviour has at most MaxFaults of them.                   *)
(***************************************************************************)
EXTENDS Integers, Sequences, FiniteSets

CONSTANTS
    Positions,    \* ids the browser gives its positions (clientTradeId)
    Size,         \* the size a position opens with; it closes in units of 1
    MaxInFlight,  \* bound: requests the app server handles at once
    MaxFaults     \* bound: faults in one behaviour

ASSUME BookingAssumption ==
    /\ IsFiniteSet(Positions)
    /\ Size \in Nat \ {0}
    /\ MaxInFlight \in Nat \ {0}
    /\ MaxFaults \in Nat

VARIABLES
    held,          \* browser: what is left of each position
    opened,        \* browser: the positions opened so far
    trades,        \* browser: the close trades, oldest first
    sentTrades,    \* browser: the trades the bridge knows committed
    intaked,       \* browser, this session: positions posted to the ledger
    awaiting,      \* browser, this session: the request the pump waits for, or 0
    handler,       \* app server: the requests being handled
    loggedCloses,  \* app server: trades logged without the database
    rows,          \* database: the positions table
    keys,          \* database: the idempotency keys, by trade
    settling,      \* executor: a pass is running
    pass,          \* executor: open rows the pass read and has not looked at yet
    booking,       \* executor: the row being booked and how far, or NotBooking
    crossed,       \* market: positions whose exit condition holds at the mark
    on_chain,      \* chain: the log_trade calls that committed
    faults

browser_vars == <<held, opened, trades, sentTrades, intaked, awaiting>>
server_vars == <<handler, loggedCloses>>
db_vars == <<rows, keys>>
executor_vars == <<settling, pass, booking>>
booking_vars == <<browser_vars, server_vars, db_vars, executor_vars, crossed, on_chain, faults>>

Handlers == 1 .. MaxInFlight

TradeIds == 1 .. Cardinality(Positions) * Size

Idle == [kind |-> "idle"]

OpenRequest == [kind : {"open"}, pc : {"find", "insert"},
                position : Positions, size : 1 .. Size]

\* ledger: the handler reaches the database, lost it after claiming the key, or
\* never reached it.  row: the ledger row found for the position, or 0.
CloseRequest == [kind : {"close"}, trade : TradeIds, row : Nat,
                 pc : {"claim", "verify", "lookup", "log", "close_row", "complete"},
                 ledger : {"up", "lost", "down"}]

Row == [position : Positions, size : 1 .. Size, status : {"open", "closed"},
        closeReason : {"none", "manual", "auto"}, digest : BOOLEAN]

NotBooking == [row |-> 0, pc |-> "none"]

Booking == [by : {"route", "executor"}, trade : TradeIds \cup {0}, row : Nat,
            size : 1 .. Size, durable : BOOLEAN]

BookingTypeOK ==
    /\ held \in [Positions -> 0 .. Size]
    /\ opened \subseteq Positions
    /\ trades \in Seq([position : Positions, size : 1 .. Size])
    /\ sentTrades \subseteq DOMAIN trades
    /\ intaked \subseteq opened
    /\ awaiting \in Handlers \cup {0}
    /\ handler \in [Handlers -> {Idle} \cup OpenRequest \cup CloseRequest]
    /\ loggedCloses \subseteq DOMAIN trades
    /\ rows \in Seq(Row)
    /\ DOMAIN keys \subseteq TradeIds
    /\ \A t \in DOMAIN keys : keys[t] \in {"claimed", "completed"}
    /\ settling \in BOOLEAN
    /\ pass \subseteq DOMAIN rows
    /\ booking \in {NotBooking} \cup [row : DOMAIN rows, pc : {"log", "digest"}]
    /\ crossed \subseteq opened
    /\ on_chain \in Seq(Booking)
    /\ faults \in 0 .. MaxFaults

BookingInit ==
    /\ held = [p \in Positions |-> 0]
    /\ opened = {} /\ trades = <<>> /\ sentTrades = {}
    /\ intaked = {} /\ awaiting = 0
    /\ handler = [h \in Handlers |-> Idle] /\ loggedCloses = {}
    /\ rows = <<>> /\ keys = [t \in {} |-> "claimed"]
    /\ settling = FALSE /\ pass = {} /\ booking = NotBooking
    /\ crossed = {} /\ on_chain = <<>> /\ faults = 0

Fault == faults < MaxFaults /\ faults' = faults + 1
NoFault == UNCHANGED faults

OpenRows == {r \in DOMAIN rows : rows[r].status = "open"}
OpenRowsOf(p) == {r \in OpenRows : rows[r].position = p}

\* log_trade committed on chain.
Commit(entry) == on_chain' = Append(on_chain, entry)

-----------------------------------------------------------------------------
(* The browser: the paper engine and the bridge's pump. *)

open_position(p) ==
    /\ p \notin opened
    /\ opened' = opened \cup {p}
    /\ held' = [held EXCEPT ![p] = Size]
    /\ UNCHANGED <<trades, sentTrades, intaked, awaiting>>
    /\ UNCHANGED <<server_vars, db_vars, executor_vars, crossed, on_chain, faults>>

\* A mutant of closes_in_store: the size closed is not capped at what is held.
closes_in_store_uncapped(p, n) ==
    /\ held[p] > 0
    /\ held' = [held EXCEPT ![p] = @ - n]
    /\ trades' = Append(trades, [position |-> p, size |-> n])
    /\ UNCHANGED <<opened, sentTrades, intaked, awaiting>>
    /\ UNCHANGED <<server_vars, db_vars, executor_vars, crossed, on_chain, faults>>

\* A manual close of n, or a bracket or liquidation of the whole position: the
\* browser fires those from its own feed, whatever the executor does.
closes_in_store(p, n) ==
    /\ n <= held[p]
    /\ held' = [held EXCEPT ![p] = @ - n]
    /\ trades' = Append(trades, [position |-> p, size |-> n])
    /\ UNCHANGED <<opened, sentTrades, intaked, awaiting>>
    /\ UNCHANGED <<server_vars, db_vars, executor_vars, crossed, on_chain, faults>>

\* The pump sends one request at a time and waits for its reply.
Send(request) ==
    /\ awaiting = 0
    /\ \E h \in Handlers :
        /\ handler[h] = Idle
        /\ \A g \in Handlers : handler[g] = Idle => h <= g
        /\ handler' = [handler EXCEPT ![h] = request]
        /\ awaiting' = h

Unintaked == {p \in Positions : held[p] > 0 /\ p \notin intaked}

Unsent == DOMAIN trades \ sentTrades

postOpen(p) ==
    /\ p \in Unintaked
    /\ intaked' = intaked \cup {p}
    /\ Send([kind |-> "open", pc |-> "find", position |-> p, size |-> held[p]])
    /\ UNCHANGED <<held, opened, trades, sentTrades, loggedCloses>>
    /\ UNCHANGED <<db_vars, executor_vars, crossed, on_chain, faults>>

\* The oldest unsent close, once every open position has been posted.
postClose ==
    /\ Unintaked = {}
    /\ \E t \in Unsent :
         /\ \A u \in Unsent : t <= u
         /\ Send([kind |-> "close", pc |-> "claim", trade |-> t, row |-> 0, ledger |-> "up"])
    /\ UNCHANGED <<held, opened, trades, sentTrades, intaked, loggedCloses>>
    /\ UNCHANGED <<db_vars, executor_vars, crossed, on_chain, faults>>

\* The request fails for the browser while the server goes on with it.
connection_lost ==
    /\ awaiting # 0
    /\ Fault
    /\ awaiting' = 0
    /\ UNCHANGED <<held, opened, trades, sentTrades, intaked>>
    /\ UNCHANGED <<server_vars, db_vars, executor_vars, crossed, on_chain>>

\* The page reloads: the vault and sentTrades persist, the session does not.
reload ==
    /\ Fault
    /\ awaiting' = 0 /\ intaked' = {}
    /\ UNCHANGED <<held, opened, trades, sentTrades>>
    /\ UNCHANGED <<server_vars, db_vars, executor_vars, crossed, on_chain>>

-----------------------------------------------------------------------------
(* The app server: what every handler shares. *)

At(h, kind, pc) == handler[h].kind = kind /\ handler[h].pc = pc

GoTo(h, pc) == handler' = [handler EXCEPT ![h].pc = pc]

\* A mutant of Reply: after a failed request the pump stays marked as running.
Reply_wedges(h, ok) ==
    /\ handler' = [handler EXCEPT ![h] = Idle]
    /\ awaiting' = IF awaiting = h /\ ok THEN 0 ELSE awaiting
    /\ sentTrades' = IF ok /\ awaiting = h /\ handler[h].kind = "close"
                     THEN sentTrades \cup {handler[h].trade}
                     ELSE sentTrades

\* The reply reaches the pump if it still waits for it; a close is then sent, on
\* success, and otherwise retried.
Reply(h, ok) ==
    /\ handler' = [handler EXCEPT ![h] = Idle]
    /\ awaiting' = IF awaiting = h THEN 0 ELSE awaiting
    /\ sentTrades' = IF ok /\ awaiting = h /\ handler[h].kind = "close"
                     THEN sentTrades \cup {handler[h].trade}
                     ELSE sentTrades

NoReply == UNCHANGED <<awaiting, sentTrades>>

\* Close a row that is still open, and only then.
CloseRow(r, reason, digest) ==
    rows' = IF rows[r].status = "open"
            THEN [rows EXCEPT ![r].status = "closed", ![r].closeReason = reason,
                              ![r].digest = digest]
            ELSE rows

ServerStep == UNCHANGED <<held, opened, trades, intaked, executor_vars, crossed>>

\* A redeploy or a crash of the instance: every request dies where it is.
cold_start ==
    /\ Fault
    /\ handler' = [h \in Handlers |-> Idle]
    /\ loggedCloses' = {}
    /\ awaiting' = 0
    /\ UNCHANGED <<held, opened, trades, sentTrades, intaked>>
    /\ UNCHANGED <<db_vars, executor_vars, crossed, on_chain>>

-----------------------------------------------------------------------------
(* POST /api/positions/open. *)

find_existing(h) ==
    /\ At(h, "open", "find")
    /\ IF OpenRowsOf(handler[h].position) # {}
       THEN Reply(h, TRUE)
       ELSE GoTo(h, "insert") /\ NoReply
    /\ NoFault
    /\ UNCHANGED <<loggedCloses, db_vars, on_chain>>
    /\ ServerStep

insertOpenPosition(h) ==
    /\ At(h, "open", "insert")
    /\ rows' = Append(rows, [position |-> handler[h].position, size |-> handler[h].size,
                             status |-> "open", closeReason |-> "none",
                             digest |-> FALSE])
    /\ Reply(h, TRUE)
    /\ NoFault
    /\ UNCHANGED <<loggedCloses, keys, on_chain>>
    /\ ServerStep

\* The account, the mark or the database could not be read: nothing is inserted.
open_fails(h) ==
    /\ handler[h].kind = "open"
    /\ Fault
    /\ Reply(h, FALSE)
    /\ UNCHANGED <<loggedCloses, db_vars, on_chain>>
    /\ ServerStep

-----------------------------------------------------------------------------
(* POST /api/trades/close. *)

\* The insert of a key that is not in the table.
ClaimKey(t) ==
    /\ t \notin DOMAIN keys
    /\ keys' = [u \in DOMAIN keys \cup {t} |-> IF u = t THEN "claimed" ELSE keys[u]]

\* A mutant of claimIdempotency: the key is read now and written at the end.
claimIdempotency_reads(h) ==
    LET t == handler[h].trade
    IN  /\ At(h, "close", "claim")
        /\ IF t \notin DOMAIN keys THEN GoTo(h, "verify") /\ NoReply ELSE Reply(h, TRUE)
        /\ NoFault
        /\ UNCHANGED <<loggedCloses, db_vars, on_chain>>
        /\ ServerStep

\* A duplicate key is answered as a success, whatever became of the first claim.
claimIdempotency(h) ==
    LET t == handler[h].trade
    IN  /\ At(h, "close", "claim")
        /\ \/ ClaimKey(t) /\ GoTo(h, "verify") /\ NoReply
           \/ t \in DOMAIN keys /\ Reply(h, TRUE) /\ UNCHANGED keys
        /\ NoFault
        /\ UNCHANGED <<loggedCloses, rows, on_chain>>
        /\ ServerStep

\* The database is out: the in-process set takes over.  The insert that failed may
\* still have claimed the key.
claim_without_db(h) ==
    /\ At(h, "close", "claim")
    /\ Fault
    /\ IF handler[h].trade \in loggedCloses
       THEN Reply(h, TRUE)
       ELSE /\ handler' = [handler EXCEPT ![h].pc = "verify", ![h].ledger = "down"]
            /\ NoReply
    /\ UNCHANGED keys \/ ClaimKey(handler[h].trade)
    /\ UNCHANGED <<loggedCloses, rows, on_chain>>
    /\ ServerStep

verify_exit(h) ==
    /\ At(h, "close", "verify")
    /\ GoTo(h, IF handler[h].ledger = "up" THEN "lookup" ELSE "log")
    /\ NoReply /\ NoFault
    /\ UNCHANGED <<loggedCloses, db_vars, on_chain>>
    /\ ServerStep

RejectExit(h) ==
    /\ At(h, "close", "verify")
    /\ Reply(h, FALSE)
    /\ UNCHANGED <<loggedCloses, db_vars, on_chain>>
    /\ ServerStep

\* 502: the mark could not be fetched.
mark_unavailable(h) == RejectExit(h) /\ Fault

\* 400: the exit is too far from the live mark.  No call failed: it may be answered
\* to any request, and to every retry whose key the database does not hold.
exit_too_far(h) == RejectExit(h) /\ NoFault

\* The position's open row, if there is one; without the database, none.
findOpenPosition(h) ==
    LET found == OpenRowsOf(trades[handler[h].trade].position)
    IN  /\ At(h, "close", "lookup")
        /\ \/ /\ NoFault
              /\ \E r \in (IF found = {} THEN {0} ELSE found) :
                    handler' = [handler EXCEPT ![h].pc = "log", ![h].row = r]
           \/ /\ Fault
              /\ handler' = [handler EXCEPT ![h].pc = "log", ![h].ledger = "lost"]
        /\ NoReply
        /\ UNCHANGED <<loggedCloses, db_vars, on_chain>>
        /\ ServerStep

\* What is logged: the size of the ledger row, or of the trade when there is none.
RouteBooking(h) ==
    LET c == handler[h]
    IN  [by |-> "route", trade |-> c.trade, row |-> c.row,
         size |-> IF c.row # 0 THEN rows[c.row].size ELSE trades[c.trade].size,
         durable |-> c.ledger # "down"]

log_trade(h) ==
    /\ At(h, "close", "log")
    /\ Commit(RouteBooking(h))
    /\ NoFault
    /\ IF handler[h].ledger = "up"
       THEN /\ GoTo(h, IF handler[h].row # 0 THEN "close_row" ELSE "complete")
            /\ NoReply
            /\ UNCHANGED loggedCloses
       ELSE /\ loggedCloses' = loggedCloses \cup {handler[h].trade}
            /\ Reply(h, TRUE)
    /\ UNCHANGED db_vars
    /\ ServerStep

\* A mutant of log_trade_fails: the row is closed although the call failed.
log_trade_fails_closes(h) ==
    /\ At(h, "close", "log")
    /\ Fault
    /\ handler[h].row # 0 /\ CloseRow(handler[h].row, "manual", FALSE)
    /\ Reply(h, FALSE)
    /\ UNCHANGED <<loggedCloses, keys, on_chain>>
    /\ ServerStep

\* The call fails: it aborted, it never left, or it committed and the answer is lost.
log_trade_fails(h) ==
    /\ At(h, "close", "log")
    /\ Fault
    /\ Commit(RouteBooking(h)) \/ UNCHANGED on_chain
    /\ Reply(h, FALSE)
    /\ UNCHANGED <<loggedCloses, db_vars>>
    /\ ServerStep

closeOpenPosition(h) ==
    /\ At(h, "close", "close_row")
    /\ CloseRow(handler[h].row, "manual", TRUE)
    /\ GoTo(h, "complete")
    /\ NoReply /\ NoFault
    /\ UNCHANGED <<loggedCloses, keys, on_chain>>
    /\ ServerStep

completeIdempotency(h) ==
    /\ At(h, "close", "complete")
    /\ keys' = [keys EXCEPT ![handler[h].trade] = "completed"]
    /\ Reply(h, TRUE)
    /\ NoFault
    /\ UNCHANGED <<loggedCloses, rows, on_chain>>
    /\ ServerStep

\* The bookkeeping is best-effort: the close is a success without it.
bookkeeping_fails(h) ==
    /\ At(h, "close", "close_row") \/ At(h, "close", "complete")
    /\ Fault
    /\ Reply(h, TRUE)
    /\ UNCHANGED <<loggedCloses, db_vars, on_chain>>
    /\ ServerStep

-----------------------------------------------------------------------------
(* The executor: settleOnce walks the open rows it read when it began. *)

ExecutorOnly == UNCHANGED <<browser_vars, server_vars, keys, crossed>>

Triggers(r) == rows[r].position \in crossed

\* A mutant of settleOnce: a row that has crossed already is taken for settled.
settleOnce_edge_triggered ==
    /\ ~ settling
    /\ OpenRows # {}
    /\ settling' = TRUE
    /\ pass' = {r \in OpenRows : ~ Triggers(r)}
    /\ UNCHANGED <<booking, rows, on_chain, faults>>
    /\ ExecutorOnly

settleOnce ==
    /\ ~ settling
    /\ OpenRows # {}
    /\ settling' = TRUE
    /\ pass' = OpenRows
    /\ UNCHANGED <<booking, rows, on_chain, faults>>
    /\ ExecutorOnly

leave_open(r) ==
    /\ booking = NotBooking
    /\ r \in pass /\ ~ Triggers(r)
    /\ pass' = pass \ {r}
    /\ UNCHANGED <<settling, booking, rows, on_chain, faults>>
    /\ ExecutorOnly

\* A mutant of settle: the row is booked as the pass read it, open or not.
settle_unguarded(r) ==
    /\ booking = NotBooking
    /\ r \in pass /\ Triggers(r)
    /\ pass' = pass \ {r}
    /\ rows' = [rows EXCEPT ![r].status = "closed", ![r].closeReason = "auto"]
    /\ booking' = [row |-> r, pc |-> "log"]
    /\ UNCHANGED <<settling, on_chain, faults>>
    /\ ExecutorOnly

\* A mutant of settle: the row is not claimed before it is booked.
settle_unclaimed(r) ==
    /\ booking = NotBooking
    /\ r \in pass /\ Triggers(r)
    /\ pass' = pass \ {r}
    /\ booking' = IF rows[r].status = "open" THEN [row |-> r, pc |-> "log"] ELSE booking
    /\ UNCHANGED <<settling, rows, on_chain, faults>>
    /\ ExecutorOnly

\* The atomic claim of the row; one that was closed meanwhile is passed over.
settle(r) ==
    /\ booking = NotBooking
    /\ r \in pass /\ Triggers(r)
    /\ pass' = pass \ {r}
    /\ CloseRow(r, "auto", FALSE)
    /\ booking' = IF rows[r].status = "open" THEN [row |-> r, pc |-> "log"] ELSE booking
    /\ UNCHANGED <<settling, on_chain, faults>>
    /\ ExecutorOnly

ExecutorBooking == [by |-> "executor", trade |-> 0, row |-> booking.row,
                    size |-> rows[booking.row].size, durable |-> TRUE]

log_settled ==
    /\ booking.pc = "log"
    /\ Commit(ExecutorBooking)
    /\ booking' = [booking EXCEPT !.pc = "digest"]
    /\ UNCHANGED <<settling, pass, rows, faults>>
    /\ ExecutorOnly

store_digest ==
    /\ booking.pc = "digest"
    /\ rows' = [rows EXCEPT ![booking.row].digest = TRUE]
    /\ booking' = NotBooking
    /\ UNCHANGED <<settling, pass, on_chain, faults>>
    /\ ExecutorOnly

end_pass ==
    /\ settling /\ pass = {} /\ booking = NotBooking
    /\ settling' = FALSE
    /\ UNCHANGED <<pass, booking, rows, on_chain, faults>>
    /\ ExecutorOnly

\* A database or chain call threw, or the service restarted: the rest of the pass
\* is dropped, and a row claimed but not yet booked stays closed.  A log_trade that
\* failed may have committed.
pass_interrupted ==
    /\ settling
    /\ Fault
    /\ settling' = FALSE /\ pass' = {} /\ booking' = NotBooking
    /\ \/ UNCHANGED on_chain
       \/ booking.pc = "log" /\ Commit(ExecutorBooking)
    /\ UNCHANGED rows
    /\ ExecutorOnly

-----------------------------------------------------------------------------

\* The market: a mark crosses an exit condition, or comes back.
mark_moves(p) ==
    /\ p \in opened
    /\ crossed' = IF p \in crossed THEN crossed \ {p} ELSE crossed \cup {p}
    /\ UNCHANGED <<browser_vars, server_vars, db_vars, executor_vars, on_chain, faults>>

TraderStep ==
    \E p \in Positions :
        open_position(p) \/ (\E n \in 1 .. Size : closes_in_store(p, n))

PumpStep == postClose \/ (\E p \in Positions : postOpen(p))

HandlerStep(h) ==
    \/ find_existing(h) \/ insertOpenPosition(h)
    \/ claimIdempotency(h) \/ verify_exit(h) \/ exit_too_far(h) \/ findOpenPosition(h)
    \/ log_trade(h) \/ closeOpenPosition(h) \/ completeIdempotency(h)

HandlerFault(h) ==
    \/ open_fails(h) \/ claim_without_db(h) \/ mark_unavailable(h)
    \/ log_trade_fails(h) \/ bookkeeping_fails(h)

SettlementStep ==
    \/ settleOnce \/ log_settled \/ store_digest \/ end_pass
    \/ \E r \in DOMAIN rows : leave_open(r) \/ settle(r)

BookingNext ==
    \/ TraderStep \/ PumpStep \/ SettlementStep
    \/ \E h \in Handlers : HandlerStep(h) \/ HandlerFault(h)
    \/ connection_lost \/ reload \/ cold_start \/ pass_interrupted
    \/ \E p \in Positions : mark_moves(p)

BookingSpec == BookingInit /\ [][BookingNext]_booking_vars

-----------------------------------------------------------------------------
(* Properties. *)

BookedBy(who) == {i \in DOMAIN on_chain : on_chain[i].by = who}

\* "Durable, cross-instance dedup": however a close is retried, by this session or
\* after a reload or a cold start, the requests that claim its key in the database
\* log it at most once between them.
KeyBooksOnce ==
    \A i, j \in BookedBy("route") :
        /\ on_chain[i].durable /\ on_chain[j].durable
        /\ on_chain[i].trade = on_chain[j].trade
        => i = j

\* The executor logs a ledger row at most once, even if it is interrupted between
\* the claim, log_trade and the digest.
RowBooksOnce ==
    \A i, j \in BookedBy("executor") :
        on_chain[i].row = on_chain[j].row => i = j

\* A row the ledger says was closed by hand was logged by the route against that
\* very row, and a digest is only stored for a call that committed.
LedgerIsBooked ==
    \A r \in DOMAIN rows :
        /\ rows[r].closeReason = "manual" =>
             \E i \in BookedBy("route") : on_chain[i].row = r
        /\ rows[r].closeReason = "auto" /\ rows[r].digest =>
             \E i \in BookedBy("executor") : on_chain[i].row = r

\* A closed row keeps its reason: the route and the executor, each with a row it
\* read while open, never overwrite each other's close.
ClosedRowsStay ==
    [][\A r \in DOMAIN rows :
          rows[r].status = "closed" =>
            rows'[r] = [rows[r] EXCEPT !.digest = rows'[r].digest]]_rows

\* "closes one the moment its ... fires": an open row whose mark stays across its
\* exit condition is closed in the end, whatever interrupts the passes and with no
\* browser open.
CrossedRowIsSettled ==
    \A r \in 1 .. Cardinality(Positions) * (MaxFaults + 1) :
        []<>~ (r \in OpenRows /\ Triggers(r))

\* Every close the browser makes is reported sent in the end, with a database that is
\* only out for a while: no failed or refused request, reload or cold start leaves the
\* pump stuck, nor an older close block a newer.
EveryCloseIsSent == \A t \in TradeIds : t \in DOMAIN trades ~> t \in sentTrades

-----------------------------------------------------------------------------
(* What the code's comments say and the code does not do. *)

\* "atomically claim the ledger row (so the manual-close route and this loop never
\* double-book)": no position is logged by both.
NeverDoubleBooked ==
    \A i \in BookedBy("executor"), j \in BookedBy("route") :
        rows[on_chain[i].row].position # trades[on_chain[j].trade].position

\* "A send is only recorded once the route confirms success, so a transient failure
\* is retried ... rather than silently dropped": a close reported sent was logged,
\* or the executor had logged its position.
SentCloseIsBooked ==
    \A t \in sentTrades :
        \/ \E j \in BookedBy("route") : on_chain[j].trade = t
        \/ \E i \in BookedBy("executor") :
              rows[on_chain[i].row].position = trades[t].position

\* "Idempotent on (accountId, clientTradeId)": a position has one row.
OneRowPerPosition ==
    \A r, s \in DOMAIN rows : rows[r].position = rows[s].position => r = s

\* "on-chain log_trade reconciles with equity": what is logged for a close is what
\* the browser closed.
BooksWhatClosed ==
    \A j \in BookedBy("route") : on_chain[j].size = trades[on_chain[j].trade].size

=============================================================================
