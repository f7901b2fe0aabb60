---------------------------- MODULE BookingProofs ----------------------------
(***************************************************************************)
(* What the ledger database guarantees of the two paths to log_trade, for  *)
(* any positions, sizes, requests in flight and faults: each path books    *)
(* what it claimed at most once, a closed row says truly who booked it,    *)
(* and it stays closed as it was.                                          *)
(*                                                                         *)
(* A request of the route that claimed its key in the database is the only *)
(* one to hold it, and nothing was logged for that key as long as the      *)
(* request has not reached log_trade.  A row is closed before the executor *)
(* logs it, and only an open row is ever claimed.                          *)
(*                                                                         *)
(* The types rest on StoreInv: what each actor remembers exists where it   *)
(* will look for it, and each close trade takes at least one unit of what  *)
(* was opened, so there are never more of them than units.                 *)
(***************************************************************************)
EXTENDS TradeBooking, SumLemmas

Trade == [position : Positions, size : 1 .. Size]

Close ==
    [kind : {"close"}, trade : Nat, row : Nat,
     pc : {"claim", "verify", "lookup", "log", "close_row", "complete"},
     ledger : {"up", "lost", "down"}]

Entry ==
    [by : {"route", "executor"}, trade : Nat, row : Nat, size : 1 .. Size, durable : BOOLEAN]

\* A request names a trade the browser made and a row of the ledger or none, and looks
\* for the row only with the database at hand.
InLedger(q) ==
    q.kind = "close" =>
        /\ q.trade \in DOMAIN trades
        /\ q.row # 0 => q.row \in DOMAIN rows
        /\ q.pc = "lookup" => q.ledger = "up"

BookingShape ==
    /\ held \in [Positions -> 0 .. Size]
    /\ trades \in Seq(Trade)
    /\ handler \in [Handlers -> {Idle} \cup OpenRequest \cup Close]
    /\ \A h \in Handlers : InLedger(handler[h])
    /\ rows \in Seq(Row)
    /\ booking \in {NotBooking} \cup [row : DOMAIN rows, pc : {"log", "digest"}]
    /\ on_chain \in Seq(Entry)

\* The request claimed its key in the database; and it has not logged anything yet.
Holds(q) == q.kind = "close" /\ q.pc # "claim" /\ q.ledger # "down"

Unlogged(q) == Holds(q) /\ q.pc \in {"verify", "lookup", "log"}

Durable(e) == e.by = "route" /\ e.durable

KeysAreHeldOnce ==
    /\ \A h \in Handlers : Holds(handler[h]) => handler[h].trade \in DOMAIN keys
    /\ \A g, h \in Handlers :
         /\ Holds(handler[g]) /\ Holds(handler[h])
         /\ handler[g].trade = handler[h].trade
         => g = h
    /\ \A h \in Handlers : \A i \in DOMAIN on_chain :
         Unlogged(handler[h]) /\ Durable(on_chain[i]) => on_chain[i].trade # handler[h].trade
    /\ \A i \in DOMAIN on_chain : Durable(on_chain[i]) => on_chain[i].trade \in DOMAIN keys
    /\ KeyBooksOnce

ClaimedRowsAreClosed ==
    /\ booking.pc = "log" =>
         /\ rows[booking.row].status = "closed"
         /\ \A i \in BookedBy("executor") : on_chain[i].row # booking.row
    /\ \A i \in BookedBy("executor") :
         on_chain[i].row \in DOMAIN rows /\ rows[on_chain[i].row].status = "closed"
    /\ RowBooksOnce

BookedBefore ==
    /\ \A h \in Handlers :
         handler[h].kind = "close" /\ handler[h].pc = "close_row" =>
           /\ handler[h].row # 0
           /\ \E i \in BookedBy("route") : on_chain[i].row = handler[h].row
    /\ booking.pc = "digest" =>
         \E i \in BookedBy("executor") : on_chain[i].row = booking.row
    /\ LedgerIsBooked

BookingInv ==
    BookingShape /\ KeysAreHeldOnce /\ ClaimedRowsAreClosed /\ BookedBefore

\* What ClosedRowsStay says of one step.
RowsStay ==
    \A r \in DOMAIN rows :
        rows[r].status = "closed" => rows'[r] = [rows[r] EXCEPT !.digest = rows'[r].digest]

LEMMA BookingInitInv == BookingInit => BookingInv
<1> SUFFICES ASSUME BookingInit PROVE BookingInv
  OBVIOUS
<1>1. /\ rows = <<>> /\ on_chain = <<>> /\ trades = <<>> /\ booking = NotBooking
      /\ handler = [h \in Handlers |-> Idle] /\ held = [p \in Positions |-> 0]
  BY DEF BookingInit
<1>2. BookingShape
  BY <1>1, BookingAssumption DEF BookingShape, InLedger, Idle
<1>3. KeysAreHeldOnce
  BY <1>1 DEF KeysAreHeldOnce, KeyBooksOnce, BookedBy, Holds, Unlogged, Idle
<1>4. ClaimedRowsAreClosed
  BY <1>1 DEF ClaimedRowsAreClosed, RowBooksOnce, BookedBy, NotBooking
<1>5. BookedBefore
  BY <1>1 DEF BookedBefore, LedgerIsBooked, BookedBy, NotBooking, Idle
<1> QED BY <1>2, <1>3, <1>4, <1>5 DEF BookingInv

LEMMA UntouchedRow == \A x \in Row : x = [x EXCEPT !.digest = x.digest]
BY DEF Row

LEMMA UntouchedRowsStay ==
    ASSUME BookingShape, UNCHANGED rows
    PROVE  RowsStay
<1>1. \A r \in DOMAIN rows : rows[r] \in Row
  BY DEF BookingShape
<1> QED BY <1>1, UntouchedRow DEF RowsStay

-----------------------------------------------------------------------------
(* The route. *)

\* A request that moves on, arrives or is answered with nothing logged: it holds its key
\* if it did before, or if it claims it now.
LEMMA KeysKeep ==
    ASSUME BookingInv, NEW h \in Handlers, NEW q,
           handler' = [handler EXCEPT ![h] = q],
           UNCHANGED on_chain, DOMAIN keys \subseteq DOMAIN keys',
           Holds(q) =>
             \/ q.trade \in DOMAIN keys' /\ q.trade \notin DOMAIN keys
             \/ /\ Holds(handler[h]) /\ q.trade = handler[h].trade
                /\ Unlogged(q) => Unlogged(handler[h])
    PROVE  KeysAreHeldOnce'
<1>1. handler'[h] = q /\ \A g \in Handlers : g # h => handler'[g] = handler[g]
  BY DEF BookingInv, BookingShape
<1>2. \A g \in Handlers : Holds(handler'[g]) => handler'[g].trade \in DOMAIN keys'
  BY <1>1 DEF BookingInv, KeysAreHeldOnce
<1>3. \A f, g \in Handlers :
        /\ Holds(handler'[f]) /\ Holds(handler'[g])
        /\ handler'[f].trade = handler'[g].trade
        => f = g
  BY <1>1 DEF BookingInv, KeysAreHeldOnce
<1>4. \A g \in Handlers : \A i \in DOMAIN on_chain :
        Unlogged(handler'[g]) /\ Durable(on_chain[i]) => on_chain[i].trade # handler'[g].trade
  BY <1>1 DEF BookingInv, KeysAreHeldOnce, Unlogged
<1> QED BY <1>2, <1>3, <1>4
        DEF BookingInv, KeysAreHeldOnce, KeyBooksOnce, BookedBy, Durable, Holds, Unlogged

\* The same, with the rows untouched.
LEMMA RequestKeeps ==
    ASSUME BookingInv, NEW h \in Handlers, NEW q \in {Idle} \cup OpenRequest \cup Close,
           handler' = [handler EXCEPT ![h] = q], InLedger(q),
           UNCHANGED <<held, trades, rows, booking, on_chain>>,
           DOMAIN keys \subseteq DOMAIN keys',
           Holds(q) =>
             \/ q.trade \in DOMAIN keys' /\ q.trade \notin DOMAIN keys
             \/ /\ Holds(handler[h]) /\ q.trade = handler[h].trade
                /\ Unlogged(q) => Unlogged(handler[h]),
           q.kind = "close" => q.pc # "close_row"
    PROVE  BookingInv' /\ RowsStay
<1>1. handler'[h] = q /\ \A g \in Handlers : g # h => handler'[g] = handler[g]
  BY DEF BookingInv, BookingShape
<1>2. BookingShape'
  BY <1>1 DEF BookingInv, BookingShape, InLedger
<1>3. KeysAreHeldOnce'
  BY KeysKeep
<1>4. ClaimedRowsAreClosed'
  BY DEF BookingInv, ClaimedRowsAreClosed, RowBooksOnce, BookedBy
<1>5. BookedBefore'
  BY <1>1 DEF BookingInv, BookedBefore, LedgerIsBooked, BookedBy
<1> QED BY <1>2, <1>3, <1>4, <1>5, UntouchedRowsStay DEF BookingInv

LEMMA Answered ==
    ASSUME BookingInv, NEW h \in Handlers, NEW ok, Reply(h, ok),
           UNCHANGED <<held, trades, rows, booking, on_chain>>,
           DOMAIN keys \subseteq DOMAIN keys'
    PROVE  BookingInv' /\ RowsStay
<1>1. InLedger(Idle) /\ ~ Holds(Idle) /\ Idle.kind # "close"
  BY DEF InLedger, Holds, Idle
<1> QED BY <1>1, RequestKeeps DEF Reply

\* log_trade commits for a request, which is then answered or goes on to its bookkeeping.
LEMMA RouteCommits ==
    ASSUME BookingInv, NEW h \in Handlers, At(h, "close", "log"), Commit(RouteBooking(h)),
           NEW q \in {Idle} \cup Close, handler' = [handler EXCEPT ![h] = q],
           \/ q = Idle
           \/ /\ q.trade = handler[h].trade /\ q.row = handler[h].row
              /\ q.ledger = handler[h].ledger /\ q.ledger = "up"
              /\ \/ q.pc = "close_row" /\ q.row # 0
                 \/ q.pc = "complete",
           UNCHANGED <<held, trades, rows, booking, keys>>
    PROVE  BookingInv' /\ RowsStay
<1> DEFINE c == handler[h]
           e == RouteBooking(h)
<1>1. c \in Close /\ c.pc = "log" /\ InLedger(c) /\ c.kind = "close"
  BY DEF At, BookingInv, BookingShape, Idle, OpenRequest, Close
<1>2. /\ e \in Entry /\ e.by = "route" /\ e.trade = c.trade /\ e.row = c.row
      /\ e.durable = (c.ledger # "down")
  <2> HIDE DEF c
  <2>1. c.row # 0 => rows[c.row].size \in 1 .. Size
    <3>1. c.row # 0 => c.row \in DOMAIN rows
      BY <1>1 DEF InLedger
    <3>2. \A r \in DOMAIN rows : rows[r] \in Row
      BY DEF BookingInv, BookingShape
    <3> QED BY <3>1, <3>2 DEF Row
  <2>2. trades[c.trade].size \in 1 .. Size
    <3>1. c.trade \in DOMAIN trades
      BY <1>1 DEF InLedger
    <3>2. \A t \in DOMAIN trades : trades[t] \in Trade
      BY DEF BookingInv, BookingShape
    <3> QED BY <3>1, <3>2 DEF Trade
  <2> USE DEF c
  <2> QED BY <1>1, <2>1, <2>2 DEF RouteBooking, Entry, Close
<1> HIDE DEF e
<1>3. on_chain' = Append(on_chain, e)
  BY DEF Commit, e
<1>4. PICK n \in Nat :
         /\ on_chain' \in Seq(Entry) /\ DOMAIN on_chain' = 1 .. n /\ n # 0
         /\ on_chain'[n] = e /\ DOMAIN on_chain = 1 .. (n - 1)
         /\ \A i \in DOMAIN on_chain : on_chain'[i] = on_chain[i]
  <2>1. on_chain \in Seq(Entry)
    BY DEF BookingInv, BookingShape
  <2> WITNESS Len(on_chain) + 1 \in Nat
  <2> QED BY <1>2, <1>3, <2>1
<1>5. \A i \in DOMAIN on_chain' : i \in DOMAIN on_chain \/ i = n
  BY <1>4
<1>6. handler'[h] = q /\ \A g \in Handlers : g # h => handler'[g] = handler[g]
  BY DEF BookingInv, BookingShape
<1>7. BookingShape'
  <2>1. InLedger(q)
    BY <1>1 DEF InLedger, Idle
  <2> QED BY <1>4, <1>6, <2>1 DEF BookingInv, BookingShape, InLedger
<1>8. c.ledger # "down" => Unlogged(c) /\ Holds(c)
  BY <1>1 DEF Unlogged, Holds
<1>9. /\ Holds(q) => Holds(c) /\ q.trade = c.trade
      /\ ~ Unlogged(q)
  BY <1>8 DEF Holds, Unlogged, Idle
<1>10. KeysAreHeldOnce'
  <2>1. \A g \in Handlers : Holds(handler'[g]) => Holds(handler[g]) /\ handler'[g].trade = handler[g].trade
    BY <1>6, <1>9
  <2>2. \A g \in Handlers : Unlogged(handler'[g]) => Unlogged(handler[g]) /\ g # h
    BY <1>6, <1>9
  <2>3. \A g \in Handlers : Unlogged(handler[g]) => Holds(handler[g])
    BY DEF Unlogged
  <2>4. \A i \in DOMAIN on_chain : Durable(on_chain'[i]) <=> Durable(on_chain[i])
    BY <1>4 DEF Durable
  <2>5. Durable(on_chain'[n]) => Holds(c) /\ Unlogged(c) /\ on_chain'[n].trade = c.trade
    BY <1>2, <1>4, <1>8 DEF Durable
  <2>6. \A g \in Handlers : Holds(handler'[g]) => handler'[g].trade \in DOMAIN keys
    BY <2>1 DEF BookingInv, KeysAreHeldOnce
  <2>7. \A f, g \in Handlers :
          /\ Holds(handler'[f]) /\ Holds(handler'[g])
          /\ handler'[f].trade = handler'[g].trade
          => f = g
    BY <2>1 DEF BookingInv, KeysAreHeldOnce
  <2>8. \A g \in Handlers : \A i \in DOMAIN on_chain' :
          Unlogged(handler'[g]) /\ Durable(on_chain'[i]) => on_chain'[i].trade # handler'[g].trade
    <3> SUFFICES ASSUME NEW g \in Handlers, NEW i \in DOMAIN on_chain',
                        Unlogged(handler'[g]), Durable(on_chain'[i])
                 PROVE  on_chain'[i].trade # handler'[g].trade
      OBVIOUS
    <3>1. g # h /\ handler'[g] = handler[g] /\ Unlogged(handler[g]) /\ Holds(handler[g])
      BY <1>6, <2>2, <2>3
    <3>2. CASE i \in DOMAIN on_chain
      BY <1>4, <2>4, <3>1, <3>2 DEF BookingInv, KeysAreHeldOnce
    <3>3. CASE i = n
      BY <2>5, <3>1, <3>3 DEF BookingInv, KeysAreHeldOnce
    <3> QED BY <1>5, <3>2, <3>3
  <2>9. \A i \in DOMAIN on_chain' : Durable(on_chain'[i]) => on_chain'[i].trade \in DOMAIN keys
    BY <1>4, <1>5, <2>4, <2>5 DEF BookingInv, KeysAreHeldOnce
  <2>10. \A i \in DOMAIN on_chain :
           Durable(on_chain'[n]) /\ Durable(on_chain[i]) => on_chain[i].trade # on_chain'[n].trade
    BY <2>5 DEF BookingInv, KeysAreHeldOnce
  <2>11. \A i, j \in DOMAIN on_chain' :
           Durable(on_chain'[i]) /\ Durable(on_chain'[j]) /\ on_chain'[i].trade = on_chain'[j].trade => i = j
    <3> SUFFICES ASSUME NEW i \in DOMAIN on_chain', NEW j \in DOMAIN on_chain',
                        Durable(on_chain'[i]), Durable(on_chain'[j]), on_chain'[i].trade = on_chain'[j].trade
                 PROVE  i = j
      OBVIOUS
    <3>1. CASE i \in DOMAIN on_chain /\ j \in DOMAIN on_chain
      BY <1>4, <2>4, <3>1 DEF BookingInv, KeysAreHeldOnce, KeyBooksOnce, BookedBy, Durable
    <3>2. CASE i = n \/ j = n
      BY <1>4, <1>5, <2>4, <2>10, <3>2
    <3> QED BY <1>5, <3>1, <3>2
  <2>12. KeyBooksOnce'
    BY <2>11 DEF KeyBooksOnce, BookedBy, Durable
  <2> QED BY <2>6, <2>7, <2>8, <2>9, <2>12 DEF KeysAreHeldOnce, Holds, Unlogged
<1>11. BookedBy("executor")' = BookedBy("executor")
  BY <1>2, <1>4, <1>5 DEF BookedBy
<1>12. BookedBy("executor") \subseteq DOMAIN on_chain
  BY DEF BookedBy
<1>13. ClaimedRowsAreClosed'
  BY <1>4, <1>11, <1>12 DEF BookingInv, ClaimedRowsAreClosed, RowBooksOnce
<1>14. n \in BookedBy("route")' /\ BookedBy("route") \subseteq BookedBy("route")'
  BY <1>2, <1>4 DEF BookedBy
<1>15. \A i \in BookedBy("route") : on_chain'[i] = on_chain[i]
  BY <1>4 DEF BookedBy
<1>16. BookedBefore'
  <2>1. \A g \in Handlers :
          handler'[g].kind = "close" /\ handler'[g].pc = "close_row" =>
            /\ handler'[g].row # 0
            /\ \E i \in BookedBy("route")' : on_chain'[i].row = handler'[g].row
    <3> SUFFICES ASSUME NEW g \in Handlers,
                        handler'[g].kind = "close", handler'[g].pc = "close_row"
                 PROVE  /\ handler'[g].row # 0
                        /\ \E i \in BookedBy("route")' : on_chain'[i].row = handler'[g].row
      OBVIOUS
    <3>1. CASE g = h
      BY <1>2, <1>4, <1>6, <1>14, <3>1 DEF Idle
    <3>2. CASE g # h
      BY <1>6, <1>14, <1>15, <3>2 DEF BookingInv, BookedBefore
    <3> QED BY <3>1, <3>2
  <2>2. booking.pc = "digest" =>
          \E i \in BookedBy("executor")' : on_chain'[i].row = booking.row
    BY <1>4, <1>11, <1>12 DEF BookingInv, BookedBefore
  <2>3. LedgerIsBooked'
    <3>1. \A i \in BookedBy("executor") : on_chain'[i] = on_chain[i]
      BY <1>4, <1>12
    <3>2. LedgerIsBooked /\ rows' = rows
      BY DEF BookingInv, BookedBefore
    <3> SUFFICES ASSUME NEW r \in DOMAIN rows
                 PROVE  /\ rows[r].closeReason = "manual" =>
                             \E i \in BookedBy("route")' : on_chain'[i].row = r
                        /\ rows[r].closeReason = "auto" /\ rows[r].digest =>
                             \E i \in BookedBy("executor")' : on_chain'[i].row = r
      BY <3>2 DEF LedgerIsBooked
    <3>3. /\ rows[r].closeReason = "manual" =>
                 \E i \in BookedBy("route") : on_chain[i].row = r
          /\ rows[r].closeReason = "auto" /\ rows[r].digest =>
                 \E i \in BookedBy("executor") : on_chain[i].row = r
      BY <3>2 DEF LedgerIsBooked
    <3> QED BY <1>11, <1>14, <1>15, <3>1, <3>3
  <2> QED BY <2>1, <2>2, <2>3 DEF BookedBefore
<1> QED BY <1>7, <1>10, <1>13, <1>16, UntouchedRowsStay DEF BookingInv

-----------------------------------------------------------------------------
(* The steps that change the rows, and the executor. *)

\* A row is closed if it was open, and is left alone if it was not.
LEMMA CloseRowKeeps ==
    ASSUME BookingInv, NEW r \in DOMAIN rows, NEW reason \in {"manual", "auto"},
           NEW digest \in BOOLEAN, CloseRow(r, reason, digest)
    PROVE  /\ rows' \in Seq(Row) /\ DOMAIN rows' = DOMAIN rows /\ RowsStay
           /\ \A s \in DOMAIN rows : s # r => rows'[s] = rows[s]
           /\ rows'[r].status = "closed"
           /\ rows[r].status = "closed" => rows' = rows
           /\ rows[r].status = "open" =>
                rows'[r].closeReason = reason /\ rows'[r].digest = digest
<1>1. rows \in Seq(Row) /\ rows[r] \in Row
  BY DEF BookingInv, BookingShape
<1>2. CASE rows[r].status = "closed"
  <2>1. rows' = rows
    BY <1>2 DEF CloseRow
  <2> QED BY <1>1, <1>2, <2>1, UntouchedRowsStay DEF BookingInv
<1>3. CASE rows[r].status = "open"
  <2> DEFINE x == [rows[r] EXCEPT !.status = "closed", !.closeReason = reason, !.digest = digest]
  <2>1. /\ x \in Row /\ x.status = "closed" /\ x.closeReason = reason
        /\ x.digest = digest
    BY <1>1 DEF Row
  <2>2. rows' = [rows EXCEPT ![r] = x]
    BY <1>1, <1>3 DEF CloseRow, Row
  <2> HIDE DEF x
  <2>3. rows' \in Seq(Row) /\ DOMAIN rows' = DOMAIN rows
    BY <1>1, <2>1, <2>2
  <2>4. rows'[r] = x /\ \A s \in DOMAIN rows : s # r => rows'[s] = rows[s]
    BY <1>1, <2>2
  <2>5. RowsStay
    <3> SUFFICES ASSUME NEW s \in DOMAIN rows, rows[s].status = "closed"
                 PROVE  rows'[s] = [rows[s] EXCEPT !.digest = rows'[s].digest]
      BY DEF RowsStay
    <3>1. rows'[s] = rows[s] /\ rows[s] \in Row
      BY <1>1, <1>3, <2>4
    <3> QED BY <3>1 DEF Row
  <2> QED BY <1>3, <2>1, <2>3, <2>4, <2>5
<1> QED BY <1>1, <1>2, <1>3 DEF Row

LEMMA InsertKeeps ==
    ASSUME BookingInv, NEW h \in Handlers, insertOpenPosition(h)
    PROVE  BookingInv' /\ RowsStay
<1> DEFINE x == [position |-> handler[h].position, size |-> handler[h].size,
                 status |-> "open", closeReason |-> "none", digest |-> FALSE]
<1>1. /\ rows' = Append(rows, x) /\ handler' = [handler EXCEPT ![h] = Idle]
      /\ UNCHANGED <<held, trades, booking, on_chain, keys>>
  BY DEF insertOpenPosition, Reply, ServerStep, executor_vars
<1>2. x \in Row /\ x.status = "open" /\ x.closeReason = "none"
  <2>1. handler[h] \in OpenRequest
    BY DEF insertOpenPosition, At, BookingInv, BookingShape, Idle, Close
  <2> QED BY <2>1 DEF OpenRequest, Row
<1> HIDE DEF x
<1>3. /\ rows \in Seq(Row) /\ rows' \in Seq(Row)
      /\ DOMAIN rows \subseteq DOMAIN rows'
      /\ \A r \in DOMAIN rows : rows'[r] = rows[r]
      /\ \A r \in DOMAIN rows' : r \in DOMAIN rows \/ rows'[r] = x
  BY <1>1, <1>2 DEF BookingInv, BookingShape
<1>4. handler'[h] = Idle /\ \A g \in Handlers : g # h => handler'[g] = handler[g]
  BY <1>1 DEF BookingInv, BookingShape
<1>5. BookingShape'
  BY <1>1, <1>3, <1>4 DEF BookingInv, BookingShape, InLedger, Idle
<1>6. KeysAreHeldOnce'
  BY <1>1, KeysKeep DEF Holds, Idle
<1>7. booking.pc \in {"log", "digest"} => booking.row \in DOMAIN rows
  BY DEF BookingInv, BookingShape, NotBooking
<1>8. ClaimedRowsAreClosed'
  BY <1>1, <1>3, <1>7 DEF BookingInv, ClaimedRowsAreClosed, RowBooksOnce, BookedBy
<1>9. LedgerIsBooked'
  BY <1>1, <1>2, <1>3 DEF BookingInv, BookedBefore, LedgerIsBooked, BookedBy
<1>10. BookedBefore'
  BY <1>1, <1>4, <1>9 DEF BookingInv, BookedBefore, BookedBy, Idle
<1>11. RowsStay
  BY <1>3, UntouchedRow DEF RowsStay, BookingInv, BookingShape
<1> QED BY <1>5, <1>6, <1>8, <1>10, <1>11 DEF BookingInv

LEMMA CloseOpenKeeps ==
    ASSUME BookingInv, NEW h \in Handlers, closeOpenPosition(h)
    PROVE  BookingInv' /\ RowsStay
<1> DEFINE c == handler[h]
           q == [handler[h] EXCEPT !.pc = "complete"]
<1>1. c \in Close /\ c.pc = "close_row" /\ c.kind = "close" /\ InLedger(c)
  BY DEF closeOpenPosition, At, BookingInv, BookingShape, Idle, OpenRequest, Close
<1>2. /\ c.row # 0 /\ c.row \in DOMAIN rows
      /\ \E i \in BookedBy("route") : on_chain[i].row = c.row
  BY <1>1 DEF BookingInv, BookedBefore, InLedger
<1>3. /\ q \in Close /\ q.kind = "close" /\ q.pc = "complete" /\ q.trade = c.trade
      /\ q.row = c.row /\ q.ledger = c.ledger
  BY <1>1 DEF Close
<1>4. handler' = [handler EXCEPT ![h] = q] /\ CloseRow(c.row, "manual", TRUE)
  BY DEF closeOpenPosition, GoTo
<1> HIDE DEF q, c
<1>5. UNCHANGED <<held, trades, booking, on_chain, keys>>
  BY DEF closeOpenPosition, ServerStep, executor_vars
<1>6. /\ rows' \in Seq(Row) /\ DOMAIN rows' = DOMAIN rows /\ RowsStay
      /\ \A s \in DOMAIN rows : s # c.row => rows'[s] = rows[s]
      /\ rows'[c.row].status = "closed"
      /\ rows[c.row].status = "closed" => rows' = rows
      /\ rows[c.row].status = "open" =>
           rows'[c.row].closeReason = "manual" /\ rows'[c.row].digest = TRUE
  BY <1>2, <1>4, CloseRowKeeps
<1>7. handler'[h] = q /\ \A g \in Handlers : g # h => handler'[g] = handler[g]
  BY <1>4 DEF BookingInv, BookingShape
<1>8. BookingShape'
  <2>1. handler' \in [Handlers -> {Idle} \cup OpenRequest \cup Close]
    BY <1>3, <1>4 DEF BookingInv, BookingShape
  <2>2. (\A g \in Handlers : InLedger(handler[g]))'
    BY <1>1, <1>3, <1>5, <1>6, <1>7 DEF BookingInv, BookingShape, InLedger
  <2> QED BY <1>5, <1>6, <2>1, <2>2 DEF BookingInv, BookingShape
<1>9. KeysAreHeldOnce'
  <2>1. Holds(q) => Holds(c) /\ ~ Unlogged(q)
    BY <1>1, <1>3 DEF Holds, Unlogged
  <2> QED BY <1>3, <1>4, <1>5, <2>1, KeysKeep DEF c
<1>10. \A r \in DOMAIN rows : rows[r].status = "closed" => rows'[r].status = "closed"
  BY <1>6
<1>11. booking.pc \in {"log", "digest"} => booking.row \in DOMAIN rows
  BY DEF BookingInv, BookingShape, NotBooking
<1>12. ClaimedRowsAreClosed'
  BY <1>5, <1>6, <1>10, <1>11
  DEF BookingInv, ClaimedRowsAreClosed, RowBooksOnce, BookedBy
<1>13. LedgerIsBooked'
  <2>1. BookedBy("route")' = BookedBy("route") /\ BookedBy("executor")' = BookedBy("executor")
    BY <1>5 DEF BookedBy
  <2>2. CASE rows' = rows
    BY <1>5, <2>1, <2>2 DEF BookingInv, BookedBefore, LedgerIsBooked
  <2>3. CASE rows[c.row].status = "open"
    BY <1>2, <1>5, <1>6, <2>1, <2>3 DEF BookingInv, BookedBefore, LedgerIsBooked
  <2>4. rows[c.row].status \in {"open", "closed"}
    <3>1. rows[c.row] \in Row
      BY <1>2 DEF BookingInv, BookingShape
    <3> QED BY <3>1 DEF Row
  <2> QED BY <1>6, <2>2, <2>3, <2>4
<1>14. BookedBefore'
  BY <1>3, <1>5, <1>7, <1>13 DEF BookingInv, BookedBefore, BookedBy
<1> QED BY <1>6, <1>8, <1>9, <1>12, <1>14 DEF BookingInv

LEMMA SettleKeeps ==
    ASSUME BookingInv, NEW r \in DOMAIN rows, settle(r)
    PROVE  BookingInv' /\ RowsStay
<1>1. /\ CloseRow(r, "auto", FALSE) /\ booking = NotBooking
      /\ UNCHANGED <<held, trades, handler, on_chain, keys>>
      /\ booking' = IF rows[r].status = "open" THEN [row |-> r, pc |-> "log"] ELSE booking
  BY DEF settle, ExecutorOnly, browser_vars, server_vars
<1>2. /\ rows' \in Seq(Row) /\ DOMAIN rows' = DOMAIN rows /\ RowsStay
      /\ \A s \in DOMAIN rows : s # r => rows'[s] = rows[s]
      /\ rows'[r].status = "closed"
      /\ rows[r].status = "closed" => rows' = rows
      /\ rows[r].status = "open" =>
           rows'[r].closeReason = "auto" /\ rows'[r].digest = FALSE
  BY <1>1, CloseRowKeeps
<1>3. rows[r].status \in {"open", "closed"}
  <2>1. rows[r] \in Row
    BY DEF BookingInv, BookingShape
  <2> QED BY <2>1 DEF Row
<1>4. BookingShape'
  BY <1>1, <1>2 DEF BookingInv, BookingShape, InLedger
<1>5. KeysAreHeldOnce'
  BY <1>1 DEF BookingInv, KeysAreHeldOnce, KeyBooksOnce, BookedBy
<1>6. BookedBy("route")' = BookedBy("route") /\ BookedBy("executor")' = BookedBy("executor")
  BY <1>1 DEF BookedBy
<1>7. ClaimedRowsAreClosed'
  BY <1>1, <1>2, <1>3, <1>6 DEF BookingInv, ClaimedRowsAreClosed, RowBooksOnce, NotBooking
<1>8. LedgerIsBooked'
  BY <1>1, <1>2, <1>3, <1>6 DEF BookingInv, BookedBefore, LedgerIsBooked
<1>9. BookedBefore'
  BY <1>1, <1>6, <1>8 DEF BookingInv, BookedBefore, NotBooking
<1> QED BY <1>2, <1>4, <1>5, <1>7, <1>9 DEF BookingInv

\* log_trade commits for the row the executor is booking, which then waits for its
\* digest or is dropped.
LEMMA ExecutorCommits ==
    ASSUME BookingInv, booking.pc = "log", Commit(ExecutorBooking),
           booking' \in {NotBooking, [booking EXCEPT !.pc = "digest"]},
           UNCHANGED <<held, trades, handler, rows, keys>>
    PROVE  BookingInv' /\ RowsStay
<1> DEFINE b == booking
           e == ExecutorBooking
<1>1. b \in [row : DOMAIN rows, pc : {"log", "digest"}]
  BY DEF BookingInv, BookingShape, NotBooking
<1>2. /\ e \in Entry /\ e.by = "executor" /\ e.row = b.row
  <2>1. rows[b.row] \in Row /\ b.row \in Nat
    BY <1>1 DEF BookingInv, BookingShape
  <2> QED BY <2>1 DEF ExecutorBooking, Entry, Row
<1> HIDE DEF e
<1>3. on_chain' = Append(on_chain, e)
  BY DEF Commit, e
<1>4. PICK n \in Nat :
         /\ on_chain' \in Seq(Entry) /\ DOMAIN on_chain' = 1 .. n /\ n # 0
         /\ on_chain'[n] = e /\ DOMAIN on_chain = 1 .. (n - 1)
         /\ \A i \in DOMAIN on_chain : on_chain'[i] = on_chain[i]
  <2>1. on_chain \in Seq(Entry)
    BY DEF BookingInv, BookingShape
  <2> WITNESS Len(on_chain) + 1 \in Nat
  <2> QED BY <1>2, <1>3, <2>1
<1>5. /\ \A i \in DOMAIN on_chain' : i \in DOMAIN on_chain \/ i = n
      /\ n \in DOMAIN on_chain' /\ n \notin DOMAIN on_chain
      /\ DOMAIN on_chain \subseteq DOMAIN on_chain'
  BY <1>4
<1>6. BookedBy("route")' = BookedBy("route")
  BY <1>2, <1>4, <1>5 DEF BookedBy
<1>7. BookedBy("executor")' = BookedBy("executor") \cup {n}
  BY <1>2, <1>4, <1>5 DEF BookedBy
<1>8. /\ \A i \in BookedBy("route") : on_chain'[i] = on_chain[i]
      /\ \A i \in BookedBy("executor") : on_chain'[i] = on_chain[i]
  BY <1>4 DEF BookedBy
<1>9. /\ booking' = NotBooking \/ booking' = [row |-> b.row, pc |-> "digest"]
      /\ booking'.pc # "log"
  BY <1>1 DEF NotBooking
<1>10. BookingShape'
  <2>1. booking' \in {NotBooking} \cup [row : DOMAIN rows, pc : {"log", "digest"}]
    BY <1>1, <1>9
  <2> QED BY <1>4, <2>1 DEF BookingInv, BookingShape, InLedger
<1>11. KeysAreHeldOnce'
  <2>1. \A i \in DOMAIN on_chain' : Durable(on_chain'[i]) => i \in DOMAIN on_chain
    BY <1>2, <1>4, <1>5 DEF Durable
  <2>2. \A h \in Handlers : \A i \in DOMAIN on_chain' :
          Unlogged(handler[h]) /\ Durable(on_chain'[i]) => on_chain'[i].trade # handler[h].trade
    BY <1>4, <2>1 DEF BookingInv, KeysAreHeldOnce
  <2>3. \A i \in DOMAIN on_chain' : Durable(on_chain'[i]) => on_chain'[i].trade \in DOMAIN keys
    BY <1>4, <2>1 DEF BookingInv, KeysAreHeldOnce
  <2>4. KeyBooksOnce'
    BY <1>6, <1>8 DEF BookingInv, KeysAreHeldOnce, KeyBooksOnce
  <2> QED BY <2>2, <2>3, <2>4 DEF BookingInv, KeysAreHeldOnce, Durable, Holds, Unlogged
<1>12. /\ rows[b.row].status = "closed" /\ b.row \in DOMAIN rows
       /\ \A i \in BookedBy("executor") : on_chain[i].row # b.row
  BY <1>1 DEF BookingInv, ClaimedRowsAreClosed
<1>13. ClaimedRowsAreClosed'
  <2>1. \A i \in BookedBy("executor")' :
          on_chain'[i].row \in DOMAIN rows /\ rows[on_chain'[i].row].status = "closed"
    BY <1>2, <1>4, <1>7, <1>8, <1>12 DEF BookingInv, ClaimedRowsAreClosed
  <2>2. RowBooksOnce'
    BY <1>2, <1>4, <1>7, <1>8, <1>12 DEF BookingInv, ClaimedRowsAreClosed, RowBooksOnce
  <2> QED BY <1>9, <2>1, <2>2 DEF ClaimedRowsAreClosed
<1>14. BookedBefore'
  <2>1. \A h \in Handlers :
          handler[h].kind = "close" /\ handler[h].pc = "close_row" =>
            /\ handler[h].row # 0
            /\ \E i \in BookedBy("route")' : on_chain'[i].row = handler[h].row
    BY <1>6, <1>8 DEF BookingInv, BookedBefore
  <2>2. booking'.pc = "digest" =>
          \E i \in BookedBy("executor")' : on_chain'[i].row = booking'.row
    BY <1>2, <1>4, <1>7, <1>9 DEF NotBooking
  <2>3. LedgerIsBooked'
    <3>1. LedgerIsBooked
      BY DEF BookingInv, BookedBefore
    <3>2. \A r \in DOMAIN rows :
            /\ rows[r].closeReason = "manual" =>
                 \E i \in BookedBy("route")' : on_chain'[i].row = r
            /\ rows[r].closeReason = "auto" /\ rows[r].digest =>
                 \E i \in BookedBy("executor")' : on_chain'[i].row = r
      BY <1>6, <1>7, <1>8, <3>1 DEF LedgerIsBooked
    <3> QED BY <3>2 DEF LedgerIsBooked
  <2> QED BY <2>1, <2>2, <2>3 DEF BookedBefore
<1> QED BY <1>10, <1>11, <1>13, <1>14, UntouchedRowsStay DEF BookingInv

LEMMA DigestKeeps ==
    ASSUME BookingInv, store_digest
    PROVE  BookingInv' /\ RowsStay
<1> DEFINE r == booking.row
           x == [rows[r] EXCEPT !.digest = TRUE]
<1>1. /\ r \in DOMAIN rows /\ rows \in Seq(Row)
      /\ \E i \in BookedBy("executor") : on_chain[i].row = r
  BY DEF store_digest, BookingInv, BookingShape, BookedBefore, NotBooking
<1>2. rows[r] \in Row
  BY <1>1
<1>3. /\ x \in Row /\ x.status = rows[r].status /\ x.closeReason = rows[r].closeReason
      /\ x = [rows[r] EXCEPT !.digest = x.digest]
  BY <1>2 DEF Row
<1>4. /\ rows' = [rows EXCEPT ![r] = x] /\ booking' = NotBooking
      /\ UNCHANGED <<held, trades, handler, on_chain, keys>>
  BY DEF store_digest, ExecutorOnly, browser_vars, server_vars
<1> HIDE DEF x, r
<1>5. /\ rows' \in Seq(Row) /\ DOMAIN rows' = DOMAIN rows /\ rows'[r] = x
      /\ \A s \in DOMAIN rows : s # r => rows'[s] = rows[s]
  BY <1>1, <1>3, <1>4
<1>6. RowsStay
  <2> SUFFICES ASSUME NEW s \in DOMAIN rows
               PROVE  rows'[s] = [rows[s] EXCEPT !.digest = rows'[s].digest]
    BY DEF RowsStay
  <2>1. CASE s = r
    BY <1>3, <1>5, <2>1
  <2>2. CASE s # r
    <3>1. rows[s] \in Row
      BY <1>1
    <3> QED BY <1>5, <2>2, <3>1, UntouchedRow
  <2> QED BY <2>1, <2>2
<1>7. /\ BookedBy("route")' = BookedBy("route")
      /\ BookedBy("executor")' = BookedBy("executor")
      /\ \A s \in DOMAIN rows : /\ rows'[s].status = rows[s].status
                                /\ rows'[s].closeReason = rows[s].closeReason
  BY <1>3, <1>4, <1>5 DEF BookedBy
<1>8. BookingShape'
  BY <1>4, <1>5 DEF BookingInv, BookingShape, InLedger
<1>9. KeysAreHeldOnce'
  BY <1>4, <1>7 DEF BookingInv, KeysAreHeldOnce, KeyBooksOnce
<1>10. ClaimedRowsAreClosed'
  BY <1>4, <1>5, <1>7 DEF BookingInv, ClaimedRowsAreClosed, RowBooksOnce, NotBooking
<1>11. LedgerIsBooked'
  BY <1>1, <1>4, <1>5, <1>7 DEF BookingInv, BookedBefore, LedgerIsBooked
<1>12. BookedBefore'
  BY <1>4, <1>7, <1>11 DEF BookingInv, BookedBefore, NotBooking
<1> QED BY <1>6, <1>8, <1>9, <1>10, <1>12 DEF BookingInv

-----------------------------------------------------------------------------
(* Every step. *)

LEMMA StartKeeps ==
    ASSUME BookingInv, NEW q \in OpenRequest \cup Close, Send(q), InLedger(q), ~ Holds(q),
           q.kind = "close" => q.pc = "claim",
           UNCHANGED <<held, trades, rows, booking, on_chain, keys>>
    PROVE  BookingInv' /\ RowsStay
<1>1. PICK h \in Handlers : handler' = [handler EXCEPT ![h] = q]
  BY DEF Send
<1> QED BY <1>1, RequestKeeps

LEMMA BrowserKeeps ==
    ASSUME BookingInv, TraderStep \/ PumpStep
    PROVE  BookingInv' /\ RowsStay
<1> USE DEF server_vars, db_vars, executor_vars
<1>1. ASSUME NEW p \in Positions, open_position(p)
      PROVE  BookingInv' /\ RowsStay
  <2>1. held' \in [Positions -> 0 .. Size]
    BY <1>1, BookingAssumption DEF open_position, BookingInv, BookingShape
  <2> QED BY <1>1, <2>1, UntouchedRowsStay
          DEF open_position, BookingInv, BookingShape, InLedger, KeysAreHeldOnce,
              KeyBooksOnce, ClaimedRowsAreClosed, RowBooksOnce, BookedBefore,
              LedgerIsBooked, BookedBy
<1>2. ASSUME NEW p \in Positions, NEW n \in 1 .. Size, closes_in_store(p, n)
      PROVE  BookingInv' /\ RowsStay
  <2>1. held' \in [Positions -> 0 .. Size]
    BY <1>2, BookingAssumption DEF closes_in_store, BookingInv, BookingShape
  <2>2. trades' \in Seq(Trade) /\ DOMAIN trades \subseteq DOMAIN trades'
    <3>1. [position |-> p, size |-> n] \in Trade
      BY DEF Trade
    <3> QED BY <1>2, <3>1 DEF closes_in_store, BookingInv, BookingShape
  <2>3. UNCHANGED <<handler, rows, booking, on_chain, keys>>
    BY <1>2 DEF closes_in_store
  <2>4. BookingShape'
    BY <2>1, <2>2, <2>3 DEF BookingInv, BookingShape, InLedger
  <2> QED BY <2>3, <2>4, UntouchedRowsStay
          DEF BookingInv, KeysAreHeldOnce, KeyBooksOnce, ClaimedRowsAreClosed,
              RowBooksOnce, BookedBefore, LedgerIsBooked, BookedBy
<1>3. ASSUME NEW p \in Positions, postOpen(p)
      PROVE  BookingInv' /\ RowsStay
  <2> DEFINE q == [kind |-> "open", pc |-> "find", position |-> p, size |-> held[p]]
  <2>1. held[p] \in 1 .. Size
    BY <1>3, BookingAssumption DEF postOpen, Unintaked, BookingInv, BookingShape
  <2>2. q \in OpenRequest /\ InLedger(q) /\ ~ Holds(q) /\ q.kind # "close"
    BY <2>1 DEF OpenRequest, InLedger, Holds
  <2>3. Send(q) /\ UNCHANGED <<held, trades, rows, booking, on_chain, keys>>
    BY <1>3 DEF postOpen
  <2> QED BY <2>2, <2>3, StartKeeps
<1>4. CASE postClose
  <2>1. PICK t \in Unsent :
          Send([kind |-> "close", pc |-> "claim", trade |-> t, row |-> 0, ledger |-> "up"])
    BY <1>4 DEF postClose
  <2> DEFINE q == [kind |-> "close", pc |-> "claim", trade |-> t, row |-> 0, ledger |-> "up"]
  <2>2. t \in DOMAIN trades /\ t \in Nat
    BY DEF Unsent, BookingInv, BookingShape
  <2>3. q \in Close /\ InLedger(q) /\ ~ Holds(q) /\ q.pc = "claim"
    BY <2>2 DEF Close, InLedger, Holds
  <2>4. UNCHANGED <<held, trades, rows, booking, on_chain, keys>>
    BY <1>4 DEF postClose
  <2> QED BY <2>1, <2>3, <2>4, StartKeeps
<1> QED BY <1>1, <1>2, <1>3, <1>4 DEF TraderStep, PumpStep

LEMMA RouteKeeps ==
    ASSUME BookingInv, NEW h \in Handlers, HandlerStep(h) \/ HandlerFault(h)
    PROVE  BookingInv' /\ RowsStay
<1> USE DEF server_vars, db_vars, executor_vars, ServerStep, NoReply
<1> DEFINE c == handler[h]
<1>1. c \in {Idle} \cup OpenRequest \cup Close /\ InLedger(c)
  BY DEF BookingInv, BookingShape
<1>2. /\ c.kind = "close" => c \in Close
      /\ c.kind = "open" => c \in OpenRequest
  BY <1>1 DEF Idle, OpenRequest, Close
<1>3. ASSUME c.kind = "close", NEW pc \in {"verify", "lookup", "log", "complete"}, GoTo(h, pc),
             UNCHANGED <<held, trades, rows, booking, on_chain>>,
             DOMAIN keys \subseteq DOMAIN keys',
             pc = "lookup" => c.ledger = "up",
             c.ledger # "down" =>
               \/ c.trade \in DOMAIN keys' /\ c.trade \notin DOMAIN keys
               \/ Holds(c) /\ (pc # "complete" => Unlogged(c))
      PROVE  BookingInv' /\ RowsStay
  <2> DEFINE q == [c EXCEPT !.pc = pc]
  <2>1. /\ q \in Close /\ q.pc = pc /\ q.kind = "close" /\ q.trade = c.trade
        /\ q.row = c.row /\ q.ledger = c.ledger
    BY <1>2, <1>3 DEF Close
  <2>2. handler' = [handler EXCEPT ![h] = q]
    BY <1>3 DEF GoTo
  <2> HIDE DEF q, c
  <2>3. InLedger(q)
    BY <1>1, <1>3, <2>1 DEF InLedger
  <2>4. Holds(q) =>
          \/ q.trade \in DOMAIN keys' /\ q.trade \notin DOMAIN keys
          \/ Holds(c) /\ q.trade = c.trade /\ (Unlogged(q) => Unlogged(c))
    BY <1>3, <2>1 DEF Holds, Unlogged
  <2> QED BY <1>3, <2>1, <2>2, <2>3, <2>4, RequestKeeps DEF c
<1>4. CASE find_existing(h)
  <2>1. CASE Reply(h, TRUE)
    BY <1>4, <2>1, Answered DEF find_existing
  <2>2. CASE GoTo(h, "insert")
    <3> DEFINE q == [c EXCEPT !.pc = "insert"]
    <3>1. q \in OpenRequest /\ q.kind = "open"
      BY <1>2, <1>4 DEF find_existing, At, OpenRequest
    <3>2. handler' = [handler EXCEPT ![h] = q] /\ InLedger(q) /\ ~ Holds(q)
      BY <2>2, <3>1 DEF GoTo, InLedger, Holds
    <3> QED BY <1>4, <3>1, <3>2, RequestKeeps DEF find_existing
  <2> QED BY <1>4, <2>1, <2>2 DEF find_existing
<1>5. CASE insertOpenPosition(h)
  BY <1>5, InsertKeeps
<1>6. CASE claimIdempotency(h)
  <2>1. c.kind = "close" /\ UNCHANGED <<held, trades, rows, booking, on_chain>>
    BY <1>6 DEF claimIdempotency, At
  <2>2. CASE ClaimKey(c.trade) /\ GoTo(h, "verify")
    BY <1>3, <2>1, <2>2 DEF ClaimKey
  <2>3. CASE Reply(h, TRUE) /\ UNCHANGED keys
    BY <2>1, <2>3, Answered
  <2> QED BY <1>6, <2>2, <2>3 DEF claimIdempotency
<1>7. CASE verify_exit(h)
  <2>1. c.kind = "close" /\ c.pc = "verify" /\ c.ledger # "down" => Holds(c) /\ Unlogged(c)
    BY DEF Holds, Unlogged
  <2>2. c.kind = "close" /\ c.pc = "verify"
    BY <1>7 DEF verify_exit, At
  <2> QED BY <1>3, <1>7, <2>1, <2>2 DEF verify_exit
<1>8. CASE findOpenPosition(h)
  <2>1. /\ c \in Close /\ c.kind = "close" /\ c.pc = "lookup" /\ c.ledger = "up"
        /\ c.trade \in DOMAIN trades /\ (c.row # 0 => c.row \in DOMAIN rows)
    BY <1>1, <1>2, <1>8 DEF findOpenPosition, At, InLedger
  <2>2. Holds(c) /\ Unlogged(c) /\ UNCHANGED <<held, trades, rows, booking, on_chain, keys>>
    BY <1>8, <2>1 DEF findOpenPosition, Holds, Unlogged
  <2>3. ASSUME NEW q \in Close, handler' = [handler EXCEPT ![h] = q], q.pc = "log",
               q.trade = c.trade, q.row # 0 => q.row \in DOMAIN rows
        PROVE  BookingInv' /\ RowsStay
    <3>1. InLedger(q)
      BY <2>1, <2>3 DEF InLedger
    <3> QED BY <2>2, <2>3, <3>1, RequestKeeps
  <2>4. ASSUME NEW row \in DOMAIN rows \cup {0},
               handler' = [handler EXCEPT ![h].pc = "log", ![h].row = row]
        PROVE  BookingInv' /\ RowsStay
    <3> DEFINE q == [c EXCEPT !.pc = "log", !.row = row]
    <3>1. row \in Nat
      BY DEF BookingInv, BookingShape
    <3>2. q \in Close /\ q.pc = "log" /\ q.trade = c.trade /\ q.row = row
      BY <2>1, <3>1 DEF Close
    <3>3. handler' = [handler EXCEPT ![h] = q]
      BY <2>4
    <3> HIDE DEF q
    <3> QED BY <2>3, <3>2, <3>3
  <2>5. CASE handler' = [handler EXCEPT ![h].pc = "log", ![h].ledger = "lost"]
    <3> DEFINE q == [c EXCEPT !.pc = "log", !.ledger = "lost"]
    <3>1. q \in Close /\ q.pc = "log" /\ q.trade = c.trade /\ q.row = c.row
      BY <2>1 DEF Close
    <3>2. handler' = [handler EXCEPT ![h] = q]
      BY <2>5
    <3> HIDE DEF q
    <3> QED BY <2>1, <2>3, <3>1, <3>2
  <2> QED BY <1>8, <2>4, <2>5 DEF findOpenPosition, OpenRowsOf, OpenRows
<1>9. CASE log_trade(h)
  <2>1. /\ c \in Close /\ At(h, "close", "log") /\ Commit(RouteBooking(h))
        /\ UNCHANGED <<held, trades, rows, booking, keys>>
    BY <1>2, <1>9 DEF log_trade, At
  <2>2. CASE Reply(h, TRUE)
    BY <2>1, <2>2, RouteCommits DEF Reply
  <2>3. CASE c.ledger = "up" /\ GoTo(h, IF c.row # 0 THEN "close_row" ELSE "complete")
    <3> DEFINE q == [c EXCEPT !.pc = IF c.row # 0 THEN "close_row" ELSE "complete"]
    <3>1. /\ q \in Close /\ q.trade = c.trade /\ q.row = c.row /\ q.ledger = c.ledger
          /\ q.pc = IF c.row # 0 THEN "close_row" ELSE "complete"
      BY <2>1 DEF Close
    <3>2. handler' = [handler EXCEPT ![h] = q]
      BY <2>3 DEF GoTo
    <3> HIDE DEF q
    <3> QED BY <2>1, <2>3, <3>1, <3>2, RouteCommits
  <2> QED BY <1>9, <2>2, <2>3 DEF log_trade
<1>10. CASE closeOpenPosition(h)
  BY <1>10, CloseOpenKeeps
<1>11. CASE completeIdempotency(h)
  <2>1. DOMAIN keys' = DOMAIN keys
    BY <1>11 DEF completeIdempotency
  <2> QED BY <1>11, <2>1, Answered DEF completeIdempotency
<1>12. CASE open_fails(h)
  BY <1>12, Answered DEF open_fails
<1>13. CASE claim_without_db(h)
  <2>1. /\ c \in Close /\ c.kind = "close" /\ DOMAIN keys \subseteq DOMAIN keys'
        /\ UNCHANGED <<held, trades, rows, booking, on_chain>>
    BY <1>2, <1>13 DEF claim_without_db, At, ClaimKey
  <2>2. CASE Reply(h, TRUE)
    BY <2>1, <2>2, Answered
  <2>3. CASE handler' = [handler EXCEPT ![h].pc = "verify", ![h].ledger = "down"]
    <3> DEFINE q == [c EXCEPT !.pc = "verify", !.ledger = "down"]
    <3>1. /\ q \in Close /\ q.pc = "verify" /\ q.ledger = "down"
          /\ q.trade = c.trade /\ q.row = c.row
      BY <2>1 DEF Close
    <3>2. handler' = [handler EXCEPT ![h] = q]
      BY <2>3
    <3> HIDE DEF q
    <3>3. InLedger(q) /\ ~ Holds(q)
      BY <1>1, <2>1, <3>1 DEF InLedger, Holds
    <3> QED BY <2>1, <3>1, <3>2, <3>3, RequestKeeps
  <2> QED BY <1>13, <2>2, <2>3 DEF claim_without_db
<1>14. CASE mark_unavailable(h) \/ exit_too_far(h)
  BY <1>14, Answered DEF mark_unavailable, exit_too_far, RejectExit
<1>15. CASE log_trade_fails(h)
  <2>1. CASE Commit(RouteBooking(h))
    BY <1>15, <2>1, RouteCommits DEF log_trade_fails, Reply
  <2>2. CASE UNCHANGED on_chain
    BY <1>15, <2>2, Answered DEF log_trade_fails
  <2> QED BY <1>15, <2>1, <2>2 DEF log_trade_fails
<1>16. CASE bookkeeping_fails(h)
  BY <1>16, Answered DEF bookkeeping_fails
<1> QED BY <1>4, <1>5, <1>6, <1>7, <1>8, <1>9, <1>10, <1>11, <1>12, <1>13, <1>14, <1>15, <1>16
        DEF HandlerStep, HandlerFault

\* The instance dies with every request it was handling.
LEMMA ColdStartKeeps ==
    ASSUME BookingInv, cold_start
    PROVE  BookingInv' /\ RowsStay
<1>1. /\ handler' = [h \in Handlers |-> Idle]
      /\ UNCHANGED <<held, trades, rows, booking, on_chain, keys>>
  BY DEF cold_start, db_vars, executor_vars
<1>2. ~ Holds(Idle) /\ ~ Unlogged(Idle) /\ Idle.kind # "close"
  BY DEF Holds, Unlogged, Idle
<1>3. \A h \in Handlers : handler'[h] = Idle
  BY <1>1
<1>4. BookingShape'
  BY <1>1, <1>2, <1>3 DEF BookingInv, BookingShape, InLedger
<1>5. KeysAreHeldOnce'
  BY <1>1, <1>2, <1>3
  DEF BookingInv, KeysAreHeldOnce, KeyBooksOnce, BookedBy, Durable, Holds, Unlogged
<1>6. ClaimedRowsAreClosed' /\ BookedBefore'
  BY <1>1, <1>2, <1>3
  DEF BookingInv, ClaimedRowsAreClosed, RowBooksOnce, BookedBefore, LedgerIsBooked, BookedBy
<1> QED BY <1>1, <1>4, <1>5, <1>6, UntouchedRowsStay DEF BookingInv

LEMMA BookingStep == BookingInv /\ [BookingNext]_booking_vars => BookingInv' /\ [RowsStay]_rows
<1> SUFFICES ASSUME BookingInv, [BookingNext]_booking_vars
             PROVE  BookingInv' /\ RowsStay
  OBVIOUS
<1> USE DEF browser_vars, server_vars, db_vars, executor_vars
<1>1. ASSUME UNCHANGED <<held, trades, handler, rows, keys, on_chain, booking>>
      PROVE  BookingInv' /\ RowsStay
  <2>1. BookingShape' /\ KeysAreHeldOnce'
    BY <1>1 DEF BookingInv, BookingShape, InLedger, KeysAreHeldOnce, KeyBooksOnce, BookedBy
  <2>2. ClaimedRowsAreClosed' /\ BookedBefore'
    BY <1>1 DEF BookingInv, ClaimedRowsAreClosed, RowBooksOnce, BookedBefore,
                LedgerIsBooked, BookedBy
  <2> QED BY <1>1, <2>1, <2>2, UntouchedRowsStay DEF BookingInv
<1>2. CASE settleOnce \/ end_pass \/ connection_lost \/ reload
  BY <1>1, <1>2 DEF settleOnce, end_pass, connection_lost, reload, ExecutorOnly
<1>3. ASSUME NEW r \in DOMAIN rows, leave_open(r)
      PROVE  BookingInv' /\ RowsStay
  BY <1>1, <1>3 DEF leave_open, ExecutorOnly
<1>4. ASSUME NEW p \in Positions, mark_moves(p)
      PROVE  BookingInv' /\ RowsStay
  BY <1>1, <1>4 DEF mark_moves
<1>5. CASE log_settled
  BY <1>5, ExecutorCommits DEF log_settled, ExecutorOnly
<1>6. CASE pass_interrupted
  <2>1. /\ UNCHANGED <<held, trades, handler, rows, keys>> /\ booking' = NotBooking
    BY <1>6 DEF pass_interrupted, ExecutorOnly
  <2>2. CASE booking.pc = "log" /\ Commit(ExecutorBooking)
    BY <2>1, <2>2, ExecutorCommits
  <2>3. CASE UNCHANGED on_chain
    <3>1. BookingShape' /\ KeysAreHeldOnce'
      BY <2>1, <2>3 DEF BookingInv, BookingShape, InLedger, KeysAreHeldOnce, KeyBooksOnce,
                        BookedBy
    <3>2. ClaimedRowsAreClosed' /\ BookedBefore'
      BY <2>1, <2>3 DEF BookingInv, ClaimedRowsAreClosed, RowBooksOnce, BookedBefore,
                        LedgerIsBooked, BookedBy, NotBooking
    <3> QED BY <2>1, <3>1, <3>2, UntouchedRowsStay DEF BookingInv
  <2> QED BY <1>6, <2>2, <2>3 DEF pass_interrupted
<1>7. CASE UNCHANGED booking_vars
  BY <1>1, <1>7 DEF booking_vars
<1> QED BY <1>2, <1>3, <1>4, <1>5, <1>6, <1>7, BrowserKeeps, RouteKeeps, SettleKeeps,
           DigestKeeps, ColdStartKeeps
        DEF BookingNext, SettlementStep

-----------------------------------------------------------------------------
(* What the variables hold, and how many closes there can be: every unit that was opened is *)
(* still held or closed by one trade at most.                                               *)

BrowserTypes ==
    /\ opened \subseteq Positions /\ intaked \subseteq opened /\ crossed \subseteq opened
    /\ sentTrades \subseteq DOMAIN trades
    /\ awaiting \in Handlers \cup {0}
    /\ \A p \in Positions : held[p] > 0 => p \in opened

ClosesAreBounded ==
    Len(trades) + SumFunctionOnSet(held, Positions) <= Size * Cardinality(opened)

ServerTypes ==
    /\ loggedCloses \subseteq DOMAIN trades
    /\ DOMAIN keys \subseteq DOMAIN trades
    /\ \A t \in DOMAIN keys : keys[t] \in {"claimed", "completed"}
    /\ \A i \in DOMAIN on_chain : on_chain[i].trade \in DOMAIN trades \cup {0}

PassTypes == settling \in BOOLEAN /\ pass \subseteq DOMAIN rows /\ faults \in 0 .. MaxFaults

StoreInv == BrowserTypes /\ ClosesAreBounded /\ ServerTypes /\ PassTypes

LEMMA StoreInitInv == BookingInit => StoreInv
<1> SUFFICES ASSUME BookingInit PROVE StoreInv
  OBVIOUS
<1>1. BrowserTypes
  BY DEF BookingInit, BrowserTypes
<1>7. ServerTypes
  <2>1. DOMAIN keys = {} /\ DOMAIN on_chain = {} /\ loggedCloses = {}
    BY DEF BookingInit
  <2> QED BY <2>1 DEF ServerTypes
<1>8. PassTypes
  <2>1. settling \in BOOLEAN /\ pass \subseteq DOMAIN rows /\ faults = 0
    BY DEF BookingInit
  <2>2. 0 \in 0 .. MaxFaults
    BY BookingAssumption
  <2> QED BY <2>1, <2>2 DEF PassTypes
<1>2. PICK f : f = held
  OBVIOUS
<1>3. \A p \in Positions : f[p] = 0
  BY <1>2 DEF BookingInit
<1>4. SumFunctionOnSet(f, Positions) = 0
  BY <1>3, SumOfZeros, BookingAssumption
<1>5. Len(trades) = 0 /\ Cardinality(opened) = 0
  BY FS_EmptySet DEF BookingInit
<1>6. ClosesAreBounded
  BY <1>2, <1>4, <1>5, BookingAssumption DEF ClosesAreBounded
<1> QED BY <1>1, <1>6, <1>7, <1>8 DEF StoreInv

LEMMA TradesAreTradeIds ==
    ASSUME BookingShape, StoreInv
    PROVE  DOMAIN trades \subseteq TradeIds
<1>1. /\ Cardinality(opened) \in Nat /\ Cardinality(Positions) \in Nat
      /\ Cardinality(opened) <= Cardinality(Positions)
  BY BookingAssumption, FS_Subset, FS_CardinalityType DEF StoreInv, BrowserTypes
<1>2. SumFunctionOnSet(held, Positions) \in Nat
  <2>1. PICK f : f = held
    OBVIOUS
  <2>2. \A p \in Positions : f[p] \in Nat
    BY <2>1 DEF BookingShape
  <2>3. SumFunctionOnSet(f, Positions) \in Nat
    BY <2>2, SumOfNats, BookingAssumption
  <2> QED BY <2>1, <2>3
<1>3. Len(trades) \in Nat /\ DOMAIN trades = 1 .. Len(trades)
  BY DEF BookingShape
<1>4. Size * Cardinality(opened) <= Cardinality(Positions) * Size
  <2> DEFINE o == Cardinality(opened)
             n == Cardinality(Positions)
  <2>1. o \in Nat /\ n \in Nat /\ o <= n /\ Size \in Nat
    BY <1>1, BookingAssumption
  <2> HIDE DEF o, n
  <2>2. \A x, y, z \in Nat : x <= y => z * x <= y * z
    OBVIOUS
  <2>3. Size * o <= n * Size
    BY <2>1, <2>2
  <2> QED BY <2>3 DEF o, n
<1>5. Size * Cardinality(opened) \in Nat /\ Cardinality(Positions) * Size \in Nat
  BY <1>1, BookingAssumption
<1>6. Len(trades) <= Cardinality(Positions) * Size
  BY <1>2, <1>3, <1>4, <1>5 DEF StoreInv, ClosesAreBounded
<1> QED BY <1>3, <1>5, <1>6 DEF TradeIds

\* A step of the browser, the one that opens and the one that closes.
LEMMA OpenIsBounded ==
    ASSUME BookingShape, StoreInv, NEW p \in Positions, open_position(p)
    PROVE  ClosesAreBounded'
<1>1. PICK f, g : f = held /\ g = held'
  OBVIOUS
<1>2. held[p] = 0 /\ held' = [held EXCEPT ![p] = Size] /\ p \notin opened
  BY DEF open_position, BookingShape, StoreInv, BrowserTypes
<1>3. /\ f[p] = 0 /\ g[p] = Size /\ \A x \in Positions \ {p} : g[x] = f[x]
      /\ \A x \in Positions : f[x] \in Int /\ g[x] \in Int
  BY <1>1, <1>2, BookingAssumption DEF BookingShape
<1>4. SumFunctionOnSet(g, Positions) = SumFunctionOnSet(f, Positions) + Size
  <2>1. SumFunctionOnSet(g, Positions) = SumFunctionOnSet(f, Positions) - f[p] + g[p]
    BY <1>3, SumUpdate, BookingAssumption
  <2>2. SumFunctionOnSet(f, Positions) \in Int
    BY <1>3, SumType, BookingAssumption
  <2> QED BY <1>3, <2>1, <2>2, BookingAssumption
<1>5. Cardinality(opened') = Cardinality(opened) + 1 /\ Cardinality(opened) \in Nat
  <2>1. IsFiniteSet(opened)
    BY BookingAssumption, FS_Subset DEF StoreInv, BrowserTypes
  <2>2. opened' = opened \cup {p}
    BY DEF open_position
  <2> QED BY <1>2, <2>1, <2>2, FS_AddElement, FS_CardinalityType
<1>6. SumFunctionOnSet(f, Positions) \in Int /\ Len(trades) \in Nat
  BY <1>3, SumType, BookingAssumption DEF BookingShape
<1>7. Len(trades) + SumFunctionOnSet(f, Positions) <= Size * Cardinality(opened)
  BY <1>1 DEF StoreInv, ClosesAreBounded
<1> DEFINE s == SumFunctionOnSet(f, Positions)
           s2 == SumFunctionOnSet(g, Positions)
           o == Cardinality(opened)
           l == Len(trades)
<1> HIDE DEF s, s2, o, l
<1>8. s2 = s + Size /\ l + s <= Size * o /\ s \in Int /\ l \in Nat /\ o \in Nat /\ Size \in Nat
  BY <1>4, <1>5, <1>6, <1>7, BookingAssumption DEF s, s2, o, l
<1>9. Size * (o + 1) = Size * o + Size /\ Size * o \in Nat
  BY <1>8
<1>10. l + s2 <= Size * (o + 1)
  BY <1>8, <1>9
<1>11. trades' = trades
  BY DEF open_position
<1> QED BY <1>1, <1>5, <1>10, <1>11 DEF ClosesAreBounded, s2, o, l

LEMMA CloseIsBounded ==
    ASSUME BookingShape, StoreInv, NEW p \in Positions, NEW n \in 1 .. Size,
           closes_in_store(p, n)
    PROVE  ClosesAreBounded'
<1>1. PICK f, g : f = held /\ g = held'
  OBVIOUS
<1>2. /\ f[p] \in 0 .. Size /\ g[p] = f[p] - n /\ \A x \in Positions \ {p} : g[x] = f[x]
      /\ \A x \in Positions : f[x] \in Int /\ g[x] \in Int
  BY <1>1, BookingAssumption DEF closes_in_store, BookingShape
<1>3. /\ SumFunctionOnSet(g, Positions) = SumFunctionOnSet(f, Positions) - f[p] + g[p]
      /\ SumFunctionOnSet(f, Positions) \in Int
  BY <1>2, SumUpdate, SumType, BookingAssumption
<1>4. SumFunctionOnSet(g, Positions) <= SumFunctionOnSet(f, Positions) - 1
  BY <1>2, <1>3, BookingAssumption
<1>5. Len(trades') = Len(trades) + 1 /\ Len(trades) \in Nat /\ opened' = opened
  BY DEF closes_in_store, BookingShape
<1>6. Len(trades) + SumFunctionOnSet(f, Positions) <= Size * Cardinality(opened)
  BY <1>1 DEF StoreInv, ClosesAreBounded
<1>7. SumFunctionOnSet(g, Positions) \in Int
  BY <1>2, SumType, BookingAssumption
<1>8. Size * Cardinality(opened) \in Int
  BY BookingAssumption, FS_Subset, FS_CardinalityType DEF StoreInv, BrowserTypes
<1>9. Len(trades') + SumFunctionOnSet(g, Positions) <= Size * Cardinality(opened)
  BY <1>3, <1>4, <1>5, <1>6, <1>7, <1>8
<1> QED BY <1>1, <1>5, <1>9 DEF ClosesAreBounded

\* The rows only grow, and a number that names one still does.
LEMMA RowsGrow ==
    ASSUME BookingInv, BookingNext
    PROVE  DOMAIN rows \subseteq DOMAIN rows'
<1> USE DEF db_vars
<1>1. ASSUME NEW r, NEW reason, NEW digest, CloseRow(r, reason, digest)
      PROVE  DOMAIN rows' = DOMAIN rows
  BY <1>1 DEF CloseRow
<1>2. CASE TraderStep \/ PumpStep
  BY <1>2 DEF TraderStep, PumpStep, open_position, closes_in_store, postOpen, postClose
<1>3. ASSUME NEW h \in Handlers, HandlerStep(h) \/ HandlerFault(h)
      PROVE  DOMAIN rows \subseteq DOMAIN rows'
  <2>1. CASE insertOpenPosition(h)
    BY <2>1 DEF insertOpenPosition, BookingInv, BookingShape
  <2>2. CASE closeOpenPosition(h)
    BY <1>1, <2>2 DEF closeOpenPosition
  <2>3. CASE \/ find_existing(h) \/ claimIdempotency(h) \/ verify_exit(h)
             \/ exit_too_far(h) \/ findOpenPosition(h)
    BY <2>3 DEF find_existing, claimIdempotency, verify_exit, exit_too_far, RejectExit,
                findOpenPosition
  <2>4. CASE log_trade(h) \/ completeIdempotency(h) \/ HandlerFault(h)
    BY <2>4 DEF log_trade, completeIdempotency, HandlerFault, open_fails, claim_without_db,
                mark_unavailable, RejectExit, log_trade_fails, bookkeeping_fails
  <2> QED BY <1>3, <2>1, <2>2, <2>3, <2>4 DEF HandlerStep
<1>4. CASE SettlementStep
  <2>1. ASSUME NEW r, settle(r) PROVE DOMAIN rows' = DOMAIN rows
    BY <1>1, <2>1 DEF settle
  <2> QED BY <1>4, <2>1
          DEF SettlementStep, settleOnce, log_settled, store_digest, end_pass, leave_open
<1>5. CASE connection_lost \/ reload \/ cold_start \/ pass_interrupted
  BY <1>5 DEF connection_lost, reload, cold_start, pass_interrupted
<1>6. ASSUME NEW p, mark_moves(p) PROVE DOMAIN rows \subseteq DOMAIN rows'
  BY <1>6 DEF mark_moves
<1> QED BY <1>2, <1>3, <1>4, <1>5, <1>6 DEF BookingNext

\* A call to log_trade names a close the browser made, or none.
LEMMA CommitNames ==
    ASSUME BookingInv, StoreInv, NEW e, e.trade \in DOMAIN trades \cup {0},
           UNCHANGED on_chain \/ Commit(e), UNCHANGED trades
    PROVE  \A i \in DOMAIN on_chain' : on_chain'[i].trade \in DOMAIN trades' \cup {0}
<1>1. CASE UNCHANGED on_chain
  BY <1>1 DEF StoreInv, ServerTypes
<1>2. CASE Commit(e)
  <2>1. on_chain \in Seq(Entry \cup {e}) /\ on_chain' = Append(on_chain, e)
    BY <1>2 DEF Commit, BookingInv, BookingShape
  <2>2. \A i \in DOMAIN on_chain' :
          on_chain'[i] = e \/ (i \in DOMAIN on_chain /\ on_chain'[i] = on_chain[i])
    BY <2>1
  <2> QED BY <2>2 DEF StoreInv, ServerTypes
<1> QED BY <1>1, <1>2

LEMMA FaultType == StoreInv /\ (Fault \/ NoFault) => faults' \in 0 .. MaxFaults
BY BookingAssumption DEF StoreInv, PassTypes, Fault, NoFault

LEMMA BrowserStoreKeeps ==
    ASSUME BookingInv, StoreInv, TraderStep \/ PumpStep
    PROVE  StoreInv'
<1> USE DEF server_vars, db_vars, executor_vars, BookingInv, StoreInv
<1>1. ASSUME NEW p \in Positions, open_position(p)
      PROVE  StoreInv'
  <2>1. ClosesAreBounded'
    BY <1>1, OpenIsBounded
  <2>2. BrowserTypes'
    BY <1>1 DEF open_position, BrowserTypes, BookingShape
  <2>3. ServerTypes' /\ PassTypes'
    BY <1>1 DEF open_position, ServerTypes, PassTypes
  <2> QED BY <2>1, <2>2, <2>3
<1>2. ASSUME NEW p \in Positions, NEW n \in 1 .. Size, closes_in_store(p, n)
      PROVE  StoreInv'
  <2>1. ClosesAreBounded'
    BY <1>2, CloseIsBounded
  <2>2. DOMAIN trades \subseteq DOMAIN trades'
    BY <1>2 DEF closes_in_store, BookingShape
  <2>3. \A x \in Positions : held'[x] > 0 => x \in opened'
    BY <1>2 DEF closes_in_store, BrowserTypes, BookingShape
  <2>4. BrowserTypes'
    BY <1>2, <2>2, <2>3 DEF closes_in_store, BrowserTypes
  <2>5. ServerTypes' /\ PassTypes'
    BY <1>2, <2>2 DEF closes_in_store, ServerTypes, PassTypes
  <2> QED BY <2>1, <2>4, <2>5
<1>3. ASSUME NEW q, Send(q)
      PROVE  awaiting' \in Handlers
  BY <1>3 DEF Send
<1>4. ASSUME NEW p \in Positions, postOpen(p)
      PROVE  StoreInv'
  <2>1. BrowserTypes'
    BY <1>3, <1>4 DEF postOpen, Unintaked, BrowserTypes
  <2> QED BY <1>4, <2>1 DEF postOpen, ClosesAreBounded, ServerTypes, PassTypes
<1>5. CASE postClose
  BY <1>3, <1>5 DEF postClose, BrowserTypes, ClosesAreBounded, ServerTypes, PassTypes
<1> QED BY <1>1, <1>2, <1>4, <1>5 DEF TraderStep, PumpStep

LEMMA RouteStoreKeeps ==
    ASSUME BookingInv, StoreInv, NEW h \in Handlers, HandlerStep(h) \/ HandlerFault(h)
    PROVE  StoreInv'
<1> USE DEF db_vars, ServerStep, executor_vars
<1> DEFINE c == handler[h]
<1>1. /\ UNCHANGED <<held, opened, trades, intaked, crossed, settling, pass>>
      /\ DOMAIN rows \subseteq DOMAIN rows' /\ faults' \in 0 .. MaxFaults
  <2>1. DOMAIN rows \subseteq DOMAIN rows'
    BY RowsGrow DEF BookingNext
  <2>2. /\ UNCHANGED <<held, opened, trades, intaked, crossed, settling, pass>>
        /\ Fault \/ NoFault
    BY DEF HandlerStep, HandlerFault, find_existing, insertOpenPosition, claimIdempotency,
           verify_exit, exit_too_far, RejectExit, findOpenPosition, log_trade,
           closeOpenPosition, completeIdempotency, open_fails, claim_without_db,
           mark_unavailable, log_trade_fails, bookkeeping_fails
  <2> QED BY <2>1, <2>2, FaultType
<1>2. c.kind = "close" => c.trade \in DOMAIN trades
  BY DEF BookingInv, BookingShape, InLedger
<1>3. /\ awaiting' \in Handlers \cup {0} /\ sentTrades' \subseteq DOMAIN trades
      /\ loggedCloses' \subseteq DOMAIN trades
  <2>1. ASSUME NEW ok, Reply(h, ok) \/ NoReply
        PROVE  awaiting' \in Handlers \cup {0} /\ sentTrades' \subseteq DOMAIN trades
    BY <1>2, <2>1 DEF Reply, NoReply, StoreInv, BrowserTypes
  <2>2. \E ok \in BOOLEAN : Reply(h, ok) \/ NoReply
    BY DEF HandlerStep, HandlerFault, find_existing, insertOpenPosition, claimIdempotency,
           verify_exit, exit_too_far, RejectExit, findOpenPosition, log_trade,
           closeOpenPosition, completeIdempotency, open_fails, claim_without_db,
           mark_unavailable, log_trade_fails, bookkeeping_fails
  <2>3. loggedCloses' = loggedCloses \/ (c.kind = "close" /\ loggedCloses' = loggedCloses \cup {c.trade})
    BY DEF HandlerStep, HandlerFault, find_existing, insertOpenPosition, claimIdempotency,
           verify_exit, exit_too_far, RejectExit, findOpenPosition, log_trade,
           closeOpenPosition, completeIdempotency, open_fails, claim_without_db,
           mark_unavailable, log_trade_fails, bookkeeping_fails, At
  <2> QED BY <1>2, <2>1, <2>2, <2>3 DEF StoreInv, ServerTypes
<1>4. /\ DOMAIN keys' \subseteq DOMAIN trades
      /\ \A t \in DOMAIN keys' : keys'[t] \in {"claimed", "completed"}
  <2>1. ASSUME c.kind = "close", ClaimKey(c.trade)
        PROVE  /\ DOMAIN keys' \subseteq DOMAIN trades
               /\ \A t \in DOMAIN keys' : keys'[t] \in {"claimed", "completed"}
    BY <1>2, <2>1 DEF ClaimKey, StoreInv, ServerTypes
  <2>2. CASE claimIdempotency(h) \/ claim_without_db(h)
    BY <2>1, <2>2 DEF claimIdempotency, claim_without_db, At, StoreInv, ServerTypes
  <2>3. CASE completeIdempotency(h)
    BY <2>3 DEF completeIdempotency, StoreInv, ServerTypes
  <2>4. CASE UNCHANGED keys
    BY <2>4 DEF StoreInv, ServerTypes
  <2> QED BY <2>2, <2>3, <2>4
          DEF HandlerStep, HandlerFault, find_existing, insertOpenPosition, verify_exit,
              exit_too_far, RejectExit, findOpenPosition, log_trade, closeOpenPosition,
              open_fails, mark_unavailable, log_trade_fails, bookkeeping_fails
<1>5. \A i \in DOMAIN on_chain' : on_chain'[i].trade \in DOMAIN trades' \cup {0}
  <2>1. UNCHANGED on_chain \/ (Commit(RouteBooking(h)) /\ c.kind = "close")
    BY DEF HandlerStep, HandlerFault, find_existing, insertOpenPosition, claimIdempotency,
           verify_exit, exit_too_far, RejectExit, findOpenPosition, log_trade,
           closeOpenPosition, completeIdempotency, open_fails, claim_without_db,
           mark_unavailable, log_trade_fails, bookkeeping_fails, At
  <2>2. CASE UNCHANGED on_chain
    BY <1>1, <2>2 DEF StoreInv, ServerTypes
  <2>3. CASE Commit(RouteBooking(h)) /\ c.kind = "close"
    <3>1. RouteBooking(h).trade \in DOMAIN trades
      BY <1>2, <2>3 DEF RouteBooking
    <3> QED BY <1>1, <2>3, <3>1, CommitNames
  <2> QED BY <2>1, <2>2, <2>3
<1>6. BrowserTypes' /\ ClosesAreBounded'
  BY <1>1, <1>3 DEF StoreInv, BrowserTypes, ClosesAreBounded
<1>7. ServerTypes' /\ PassTypes'
  BY <1>1, <1>3, <1>4, <1>5 DEF StoreInv, ServerTypes, PassTypes
<1> QED BY <1>6, <1>7 DEF StoreInv

\* What is left: the executor, the market, and the faults that touch no request.
LEMMA OtherStoreKeeps ==
    ASSUME BookingInv, StoreInv, BookingNext,
           UNCHANGED <<held, opened, trades, sentTrades, keys>>,
           intaked' \in {intaked, {}}, awaiting' \in {awaiting, 0},
           loggedCloses' \in {loggedCloses, {}}, crossed' \subseteq opened,
           settling' \in BOOLEAN, pass' \subseteq DOMAIN rows, Fault \/ NoFault,
           UNCHANGED on_chain \/ Commit(ExecutorBooking)
    PROVE  StoreInv'
<1>1. DOMAIN rows \subseteq DOMAIN rows' /\ faults' \in 0 .. MaxFaults
  BY RowsGrow, FaultType
<1>2. \A i \in DOMAIN on_chain' : on_chain'[i].trade \in DOMAIN trades' \cup {0}
  <2>1. ExecutorBooking.trade = 0
    BY DEF ExecutorBooking
  <2> QED BY <2>1, CommitNames
<1>3. BrowserTypes' /\ ClosesAreBounded'
  BY DEF StoreInv, BrowserTypes, ClosesAreBounded
<1>4. ServerTypes' /\ PassTypes'
  BY <1>1, <1>2 DEF StoreInv, ServerTypes, PassTypes
<1> QED BY <1>3, <1>4 DEF StoreInv

LEMMA StoreStep == BookingInv /\ StoreInv /\ [BookingNext]_booking_vars => StoreInv'
<1> SUFFICES ASSUME BookingInv, StoreInv, [BookingNext]_booking_vars PROVE StoreInv'
  OBVIOUS
<1> USE DEF browser_vars, server_vars, db_vars, executor_vars
<1>1. crossed \subseteq opened /\ settling \in BOOLEAN /\ pass \subseteq DOMAIN rows
  BY DEF StoreInv, BrowserTypes, PassTypes
<1>2. CASE SettlementStep
  <2>1. /\ UNCHANGED <<held, opened, trades, sentTrades, keys, intaked, awaiting, loggedCloses, crossed, faults>>
        /\ settling' \in BOOLEAN /\ pass' \subseteq DOMAIN rows
        /\ UNCHANGED on_chain \/ Commit(ExecutorBooking)
    BY <1>1, <1>2 DEF SettlementStep, settleOnce, log_settled, store_digest, end_pass,
                      leave_open, settle, ExecutorOnly, OpenRows
  <2> QED BY <1>1, <1>2, <2>1, OtherStoreKeeps DEF BookingNext, NoFault
<1>3. CASE pass_interrupted
  BY <1>1, <1>3, OtherStoreKeeps DEF BookingNext, pass_interrupted, ExecutorOnly
<1>4. CASE connection_lost \/ reload \/ cold_start
  BY <1>1, <1>4, OtherStoreKeeps DEF BookingNext, connection_lost, reload, cold_start
<1>5. ASSUME NEW p \in Positions, mark_moves(p) PROVE StoreInv'
  BY <1>1, <1>5, OtherStoreKeeps DEF BookingNext, mark_moves, NoFault
<1>6. CASE UNCHANGED booking_vars
  BY <1>6 DEF booking_vars, StoreInv, BrowserTypes, ClosesAreBounded, ServerTypes, PassTypes
<1> QED BY <1>2, <1>3, <1>4, <1>5, <1>6, BrowserStoreKeeps, RouteStoreKeeps DEF BookingNext

LEMMA TypesFollow == BookingInv /\ StoreInv => BookingTypeOK
<1> SUFFICES ASSUME BookingInv, StoreInv PROVE BookingTypeOK
  OBVIOUS
<1>1. DOMAIN trades \subseteq TradeIds
  BY TradesAreTradeIds DEF BookingInv
<1>2. handler \in [Handlers -> {Idle} \cup OpenRequest \cup CloseRequest]
  <2>1. ASSUME NEW h \in Handlers PROVE handler[h] \in {Idle} \cup OpenRequest \cup CloseRequest
    <3>1. handler[h] \in {Idle} \cup OpenRequest \cup Close /\ InLedger(handler[h])
      BY DEF BookingInv, BookingShape
    <3>2. CASE handler[h] \in Close
      BY <1>1, <3>1, <3>2 DEF InLedger, Close, CloseRequest
    <3> QED BY <3>1, <3>2
  <2> QED BY <2>1 DEF BookingInv, BookingShape
<1>3. on_chain \in Seq(Booking)
  <2>1. ASSUME NEW i \in DOMAIN on_chain PROVE on_chain[i] \in Booking
    <3>1. on_chain[i] \in Entry /\ on_chain[i].trade \in TradeIds \cup {0}
      BY <1>1 DEF BookingInv, BookingShape, StoreInv, ServerTypes
    <3> QED BY <3>1 DEF Entry, Booking
  <2> QED BY <2>1 DEF BookingInv, BookingShape
<1>4. DOMAIN keys \subseteq TradeIds
  BY <1>1 DEF StoreInv, ServerTypes
<1> QED BY <1>2, <1>3, <1>4
        DEF BookingTypeOK, BookingInv, BookingShape, StoreInv, BrowserTypes, ServerTypes,
            PassTypes, Trade

-----------------------------------------------------------------------------

\* A retried close is logged once under its key: whatever requests overlap and fail, at
\* most one of those that claimed the key in the database gets to log_trade.
THEOREM RouteBooksOnce == BookingSpec => []KeyBooksOnce
<1>1. BookingInv => KeyBooksOnce
  BY DEF BookingInv, KeysAreHeldOnce
<1> QED BY <1>1, BookingInitInv, BookingStep, PTL DEF BookingSpec

\* However often its passes are interrupted, the executor logs a ledger row at most once.
THEOREM ExecutorBooksOnce == BookingSpec => []RowBooksOnce
<1>1. BookingInv => RowBooksOnce
  BY DEF BookingInv, ClaimedRowsAreClosed
<1> QED BY <1>1, BookingInitInv, BookingStep, PTL DEF BookingSpec

\* The ledger never says of a row that it was closed by hand, or settled with a digest,
\* without the log_trade that did it.
THEOREM LedgerTellsTheTruth == BookingSpec => []LedgerIsBooked
<1>1. BookingInv => LedgerIsBooked
  BY DEF BookingInv, BookedBefore
<1> QED BY <1>1, BookingInitInv, BookingStep, PTL DEF BookingSpec

\* The route and the executor never overwrite each other's close of a row.
THEOREM ClosesAreFinal == BookingSpec => ClosedRowsStay
<1>1. RowsStay <=>
        \A r \in DOMAIN rows :
          rows[r].status = "closed" => rows'[r] = [rows[r] EXCEPT !.digest = rows'[r].digest]
  BY DEF RowsStay
<1> QED BY <1>1, BookingInitInv, BookingStep, PTL DEF BookingSpec, ClosedRowsStay

\* Every variable of the two paths keeps its type: above all the closes the browser makes,
\* the requests, keys and calls that name one, are no more than the units it opened.
THEOREM BookingTypesHold == BookingSpec => []BookingTypeOK
<1> QED BY BookingInitInv, BookingStep, StoreInitInv, StoreStep, TypesFollow, PTL
        DEF BookingSpec

=============================================================================
