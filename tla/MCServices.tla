----------------------------- MODULE MCServices -----------------------------
(***************************************************************************)
(* Small instances, for TLC, of the services between the paper engine and  *)
(* the contracts that must keep moving.  They share little but the trader, *)
(* and each scene runs one while the others wait at their initial states.  *)
(***************************************************************************)
EXTENDS TradeBooking, MarketFeed, OutcomeBridge

CONSTANTS
    Scenes,   \* the scenes of the run
    pos1        \* model value: a position id

\* A position that gains the target, breaks the daily limit, or falls by more than
\* the drawdown at once.
MCGains == {2, 1, -1, -2, -3}

VARIABLE scene

services_vars == <<booking_vars, feed_vars, outcome_vars>>
mc_vars == <<services_vars, scene>>

MCInit ==
    /\ scene \in Scenes
    /\ BookingInit /\ FeedInit /\ OutcomeInit

Scene(name, Step, others) == scene = name /\ Step /\ UNCHANGED <<others, scene>>

MCNext ==
    \/ Scene("booking", BookingNext, <<feed_vars, outcome_vars>>)
    \/ Scene("feed", FeedNext, <<booking_vars, outcome_vars>>)
    \/ Scene("outcome", OutcomeNext, <<booking_vars, feed_vars>>)

MCSpec == MCInit /\ [][MCNext]_mc_vars

\* Booking: the executor's timer and a handler that was started keep going.  The pump
\* runs on every change of the store, which each price tick makes while a browser is
\* open.  (Only in its scene: the timer would be due in every other.)
BookingFairness ==
    /\ WF_booking_vars(scene = "booking" /\ PumpStep)
    /\ WF_booking_vars(scene = "booking" /\ SettlementStep)
    /\ \A h \in Handlers : WF_booking_vars(scene = "booking" /\ HandlerStep(h))

MCFairSpec == MCSpec /\ BookingFairness /\ FeedFairness /\ OutcomeFairness

=============================================================================
