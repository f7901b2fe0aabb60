------------------------------ MODULE MarketFeed ------------------------------
(***************************************************************************)
(* The path of a mark price from the venue to one browser:                 *)
(*                                                                         *)
(*  - the venue adapter (hyperliquid.ts, subscribeMarks) fetches the       *)
(*    catalog, opens a socket and coalesces its messages;                  *)
(*  - the gateway's VenueFeed (feed.ts) runs one adapter subscription      *)
(*    while it has listeners, and fans the latest marks out to the event   *)
(*    streams of index.ts, each with a queue of batches;                   *)
(*  - the browser (venueFeed.ts, mounted by useVenueFeed) shows the marks  *)
(*    and drives its own reconnects.                                       *)
(*                                                                         *)
(* Marks are numbered in the order the venue makes them, and a batch is    *)
(* one mark.  A timer is an action that is enabled while it is set.  The   *)
(* REST fallback, for a catalog larger than one socket can subscribe to,   *)
(* is left out.                                                            *)
(***************************************************************************)
EXTENDS Integers, Sequences

CONSTANTS
    Streams,     \* slots for the event streams the gateway serves
    MaxMark,     \* bound: the marks the venue makes
    MaxQueue     \* bound: the batches waiting in a stream

ASSUME FeedAssumption ==
    MaxMark \in Nat /\ MaxQueue \in Nat \ {0} /\ Streams \subseteq Nat \ {0}

VARIABLES
    venue_mark,      \* the venue's last mark
    phase,           \* adapter: what the current subscription is doing
    reconnectTimer,  \* adapter: the handle of the reconnect timer, set or not
    timer_due,       \* adapter: the timeout that is really pending
    pending_mark,    \* adapter: the mark not flushed yet, or 0
    latest,          \* gateway: the latest mark, or 0
    stream,          \* gateway: what each stream is doing, and its queue
    source,          \* browser: its EventSource
    retry_timer,     \* browser: its own reconnect timer is set
    silence_timer,   \* browser: the silence timer is set
    feedStatus,      \* browser: what the store says of the feed
    halted,          \* browser: divergenceHalt
    shown            \* browser: the mark in its prices

adapter_vars == <<phase, reconnectTimer, timer_due, pending_mark>>
gateway_vars == <<latest, stream>>
feed_browser_vars == <<source, retry_timer, silence_timer, feedStatus, halted, shown>>
feed_vars == <<venue_mark, adapter_vars, gateway_vars, feed_browser_vars>>

Marks == 0 .. MaxMark

FreeSlot == [state |-> "free", queue |-> <<>>]

\* No EventSource; one that is being opened, or whose gateway is gone; or one on a
\* stream, which may have gone silent without an error.
NoSource == [state |-> "none", on |-> 0]
Connecting == [state |-> "connecting", on |-> 0]
Lost == [state |-> "lost", on |-> 0]

FeedTypeOK ==
    /\ venue_mark \in Marks /\ pending_mark \in Marks /\ latest \in Marks /\ shown \in Marks
    /\ phase \in {"off", "fetching", "connecting", "open", "down"}
    /\ reconnectTimer \in BOOLEAN
    /\ timer_due \in {"none", "catalog", "socket"}
    /\ stream \in [Streams -> [state : {"free", "served", "left"}, queue : Seq(Marks)]]
    /\ source \in {NoSource, Connecting, Lost} \cup [state : {"open", "silent"}, on : Streams]
    /\ retry_timer \in BOOLEAN /\ silence_timer \in BOOLEAN /\ halted \in BOOLEAN
    /\ feedStatus \in {"live", "reconnecting", "stale"}

FeedInit ==
    /\ venue_mark = 0
    /\ phase = "off" /\ reconnectTimer = FALSE /\ timer_due = "none" /\ pending_mark = 0
    /\ latest = 0 /\ stream = [s \in Streams |-> FreeSlot]
    /\ source = NoSource /\ retry_timer = FALSE /\ silence_timer = FALSE
    /\ feedStatus = "reconnecting" /\ halted = FALSE /\ shown = 0

-----------------------------------------------------------------------------
(* The adapter's subscription. *)

venue_moves ==
    /\ venue_mark < MaxMark
    /\ venue_mark' = venue_mark + 1
    /\ UNCHANGED <<adapter_vars, gateway_vars, feed_browser_vars>>

AdapterOnly == UNCHANGED <<venue_mark, gateway_vars, feed_browser_vars>>

listMarkets_answers ==
    /\ phase = "fetching"
    /\ phase' = "connecting"
    /\ UNCHANGED <<reconnectTimer, timer_due, pending_mark>>
    /\ AdapterOnly

\* The timer of this path does not clear its handle when it fires.
listMarkets_fails ==
    /\ phase = "fetching"
    /\ phase' = "down" /\ reconnectTimer' = TRUE /\ timer_due' = "catalog"
    /\ UNCHANGED pending_mark
    /\ AdapterOnly

connect ==
    /\ timer_due # "none"
    /\ phase' = "fetching" /\ timer_due' = "none"
    /\ reconnectTimer' = (timer_due = "catalog")
    /\ UNCHANGED pending_mark
    /\ AdapterOnly

socket_opens ==
    /\ phase = "connecting"
    /\ phase' = "open"
    /\ UNCHANGED <<reconnectTimer, timer_due, pending_mark>>
    /\ AdapterOnly

\* The socket closes, and scheduleReconnect runs: not at all, when the handle of a
\* timer is set.
socket_closes ==
    /\ phase \in {"connecting", "open"}
    /\ phase' = "down"
    /\ reconnectTimer' = TRUE
    /\ timer_due' = IF reconnectTimer THEN timer_due ELSE "socket"
    /\ UNCHANGED pending_mark
    /\ AdapterOnly

message ==
    /\ phase = "open" /\ venue_mark # 0
    /\ pending_mark' = venue_mark
    /\ UNCHANGED <<phase, reconnectTimer, timer_due>>
    /\ AdapterOnly

flush ==
    /\ pending_mark # 0
    /\ latest' = pending_mark /\ pending_mark' = 0
    /\ UNCHANGED <<venue_mark, phase, reconnectTimer, timer_due, stream, feed_browser_vars>>

-----------------------------------------------------------------------------
(* The gateway. *)

\* The streams that listen to the feed; one whose client left does so until the
\* disconnect is noticed.
Listeners == {s \in Streams : stream[s].state # "free"}

\* A mutant of emit: a new batch goes before those still waiting.
emit_first ==
    /\ latest # 0 /\ Listeners # {}
    /\ \A s \in Listeners : Len(stream[s].queue) < MaxQueue
    /\ stream' = [s \in Streams |->
                    IF stream[s].state = "served"
                    THEN [stream[s] EXCEPT !.queue = <<latest>> \o @] ELSE stream[s]]
    /\ UNCHANGED <<venue_mark, adapter_vars, latest, feed_browser_vars>>

\* Every interval, whether or not the marks are new.  (What a client that left would
\* be sent is not kept.)
emit ==
    /\ latest # 0 /\ Listeners # {}
    /\ \A s \in Listeners : Len(stream[s].queue) < MaxQueue
    /\ stream' = [s \in Streams |->
                    IF stream[s].state = "served"
                    THEN [stream[s] EXCEPT !.queue = Append(@, latest)] ELSE stream[s]]
    /\ UNCHANGED <<venue_mark, adapter_vars, latest, feed_browser_vars>>

\* A batch or, when none waits, a heartbeat proves the connection is alive.
MarkLive ==
    /\ feedStatus' = "live" /\ halted' = FALSE /\ silence_timer' = TRUE

\* The gateway takes the connection: the first listener starts the adapter, and a
\* new one is seeded with the latest mark.
subscribe(s) ==
    /\ source = Connecting
    /\ stream[s] = FreeSlot
    /\ stream' = [stream EXCEPT ![s] =
                    [state |-> "served", queue |-> IF latest # 0 THEN <<latest>> ELSE <<>>]]
    /\ phase' = IF Listeners = {} THEN "fetching" ELSE phase
    /\ source' = [state |-> "open", on |-> s]
    /\ MarkLive
    /\ UNCHANGED <<venue_mark, reconnectTimer, timer_due, pending_mark, latest>>
    /\ UNCHANGED <<retry_timer, shown>>

\* The disconnect is noticed; without listeners the adapter is stopped, and its
\* timers, its socket and the snapshot with it.
unsubscribe(s) ==
    /\ stream[s].state = "left"
    /\ stream' = [stream EXCEPT ![s] = FreeSlot]
    /\ IF Listeners = {s}
       THEN /\ phase' = "off" /\ reconnectTimer' = FALSE /\ timer_due' = "none"
            /\ pending_mark' = 0 /\ latest' = 0
       ELSE UNCHANGED <<adapter_vars, latest>>
    /\ UNCHANGED <<venue_mark, feed_browser_vars>>

\* The gateway restarts: every connection fails in the browser.
gateway_restarts ==
    /\ phase' = "off" /\ reconnectTimer' = FALSE /\ timer_due' = "none"
    /\ pending_mark' = 0 /\ latest' = 0
    /\ stream' = [s \in Streams |-> FreeSlot]
    /\ source' = IF source \in {NoSource, Connecting} THEN source ELSE Lost
    /\ UNCHANGED <<venue_mark, retry_timer, silence_timer, feedStatus, halted, shown>>

-----------------------------------------------------------------------------
(* The browser. *)

BrowserOnly == UNCHANGED <<venue_mark, adapter_vars, latest>>

\* Closing the EventSource: its stream is left, to be unsubscribed later.
LeaveStream(next) ==
    /\ source' = next
    /\ stream' = IF source.state \in {"open", "silent"}
                 THEN [stream EXCEPT ![source.on] = [state |-> "left", queue |-> <<>>]]
                 ELSE stream

marks ==
    /\ source.state = "open" /\ stream[source.on].queue # <<>>
    /\ shown' = Head(stream[source.on].queue)
    /\ stream' = [stream EXCEPT ![source.on].queue = Tail(@)]
    /\ MarkLive
    /\ UNCHANGED <<source, retry_timer>>
    /\ BrowserOnly

ping ==
    /\ source.state = "open" /\ stream[source.on].queue = <<>>
    /\ MarkLive
    /\ UNCHANGED <<source, retry_timer, shown, stream>>
    /\ BrowserOnly

\* The first consumer of the prices mounts, and the last one unmounts (close).
mount ==
    /\ source = NoSource /\ ~ retry_timer
    /\ source' = Connecting
    /\ UNCHANGED <<retry_timer, silence_timer, feedStatus, halted, shown, stream>>
    /\ BrowserOnly

unmount ==
    /\ source # NoSource \/ retry_timer
    /\ LeaveStream(NoSource)
    /\ retry_timer' = FALSE /\ silence_timer' = FALSE
    /\ UNCHANGED <<feedStatus, halted, shown>>
    /\ BrowserOnly

\* reconnect: close the source, and try again when the timer fires.
reconnect ==
    /\ LeaveStream(NoSource)
    /\ silence_timer' = FALSE /\ retry_timer' = TRUE

onerror ==
    /\ source # NoSource
    /\ feedStatus' = "reconnecting"
    /\ reconnect
    /\ UNCHANGED <<halted, shown>>
    /\ BrowserOnly

goes_silent ==
    /\ source.state = "open"
    /\ source' = [source EXCEPT !.state = "silent"]
    /\ UNCHANGED <<retry_timer, silence_timer, feedStatus, halted, shown, stream>>
    /\ BrowserOnly

\* A mutant of silence_fires: the dead source is kept, for it to reconnect by itself.
silence_fires_waits ==
    /\ silence_timer /\ source.state \in {"silent", "lost"}
    /\ feedStatus' = "stale" /\ halted' = TRUE /\ silence_timer' = FALSE
    /\ UNCHANGED <<source, stream, retry_timer, shown>>
    /\ BrowserOnly

\* No frame for the length of the timer, three heartbeats.
silence_fires ==
    /\ silence_timer /\ source.state \in {"silent", "lost"}
    /\ feedStatus' = "stale" /\ halted' = TRUE
    /\ reconnect
    /\ UNCHANGED shown
    /\ BrowserOnly

retry_fires ==
    /\ retry_timer
    /\ retry_timer' = FALSE
    /\ source' = Connecting
    /\ UNCHANGED <<silence_timer, feedStatus, halted, shown, stream>>
    /\ BrowserOnly

\* The banner's manual halt.
toggleDivergenceHalt ==
    /\ halted' = ~ halted
    /\ UNCHANGED <<source, retry_timer, silence_timer, feedStatus, shown, stream>>
    /\ BrowserOnly

-----------------------------------------------------------------------------

AdapterStep ==
    \/ listMarkets_answers \/ listMarkets_fails \/ connect
    \/ socket_opens \/ socket_closes \/ message \/ flush

GatewayStep ==
    \/ emit \/ gateway_restarts
    \/ \E s \in Streams : subscribe(s) \/ unsubscribe(s)

BrowserStep ==
    \/ marks \/ ping \/ mount \/ unmount \/ onerror \/ goes_silent
    \/ silence_fires \/ retry_fires \/ toggleDivergenceHalt

FeedNext == venue_moves \/ AdapterStep \/ GatewayStep \/ BrowserStep

FeedSpec == FeedInit /\ [][FeedNext]_feed_vars

\* Timers fire, disconnects are noticed, and of the attempts to reach the venue or
\* the gateway that are made again and again, one succeeds.
FeedFairness ==
    /\ WF_feed_vars(connect) /\ SF_feed_vars(listMarkets_answers) /\ SF_feed_vars(socket_opens)
    /\ WF_feed_vars(retry_fires) /\ WF_feed_vars(silence_fires)
    /\ WF_feed_vars(ping) /\ WF_feed_vars(marks)
    /\ \A s \in Streams : SF_feed_vars(subscribe(s)) /\ WF_feed_vars(unsubscribe(s))

FeedFairSpec == FeedSpec /\ FeedFairness

-----------------------------------------------------------------------------
(* Properties. *)

\* Whatever reconnects, restarts and seeded snapshots lie between them, a browser
\* never replaces a mark by an older one.
PricesNeverGoBack == [][shown' >= shown]_feed_vars

Mounted == source # NoSource \/ retry_timer

\* "A healthy gateway then comes back live": over and over, a mounted browser is
\* connected, live and not halted, after silence, errors and gateway restarts alike.
BrowserRecovers ==
    []<>(Mounted => source.state = "open" /\ feedStatus = "live" /\ ~ halted)

\* "Reconnects with backoff and re-subscribes on drop" (hyperliquid.ts): as long as
\* the gateway has a listener its venue socket is open over and over.
VenueReconnects == []<>(phase \in {"off", "open"})

=============================================================================
