---------------------------- MODULE OutcomeBridge ----------------------------
(***************************************************************************)
(* How the outcome of a browser evaluation reaches its account on chain:   *)
(* the bridge's pump (useOnchainBridge.ts) posts the closes, then the      *)
(* breach of a drawdown, then the pass or fail, each through a route the   *)
(* firm signs for; the failed page re-enters the evaluation.               *)
(*                                                                         *)
(* The browser equity counts the open position, the chain's only what was  *)
(* closed.  Amounts are gains over the funded size, within one day.  The   *)
(* close route is TradeBooking's, here in one step; the executor, which    *)
(* may book and judge too, is left out.  A page keeps what it awaits when  *)
(* it is left, and a new one awaits nothing: one pump at a time.           *)
(***************************************************************************)
EXTENDS Integers, Sequences

CONSTANTS
    Gains,        \* what the open position may show
    PROFIT,       \* the gain that passes
    DAILY,        \* the loss of a day that fails
    LOSS,         \* the drawdown that fails
    MaxCloses,    \* bound: positions closed
    MaxCycles,    \* bound: cycles of the account
    MaxPosts,     \* bound: requests in flight
    MaxLapses     \* bound: requests that fail, connections lost

ASSUME OutcomeAssumption ==
    /\ Gains \subseteq Int
    /\ PROFIT \in Nat \ {0} /\ DAILY \in Nat \ {0} /\ LOSS \in Nat \ {0}
    /\ MaxCloses \in Nat /\ MaxCycles \in Nat \ {0}
    /\ MaxPosts \in Nat \ {0} /\ MaxLapses \in Nat

VARIABLES
    evaluation,   \* browser: the vault of the paper engine
    closes,       \* browser: what each close gained, oldest first
    sent,         \* localStorage: the closes, breach and outcome that committed
    pumping,      \* page: the pump is draining
    awaits,       \* page: the request the pump awaits, or 0
    reentering,   \* page: "reactivate" is awaited, and its reply is on the way
    posts,        \* the requests in flight
    account,      \* chain: the status, equity and cycle of the account
    keyed,        \* database: the closes whose key is claimed
    lapses

page_vars == <<sent, pumping, awaits, reentering>>
outcome_vars == <<evaluation, closes, page_vars, posts, account, keyed, lapses>>

Posts == 1 .. MaxPosts

NoPost == [kind |-> "none", close |-> 0, stage |-> "none"]

Post == [kind : {"close", "breach", "passed", "failed"}, close : 0 .. MaxCloses,
         stage : {"sent", "ok", "error"}]

NothingSent == [closes |-> {}, breach |-> FALSE, outcome |-> "none"]

\* A fresh vault; its trades are the closes after the first "before".
FreshVault(before) ==
    [status |-> "active", rule |-> "none", open |-> FALSE,
     realized |-> 0, unrealized |-> 0, before |-> before]

OutcomeTypeOK ==
    /\ evaluation \in
         [status : {"active", "passed", "failed"}, rule : {"none", "drawdown", "dailyLoss"},
          open : BOOLEAN, realized : Int, unrealized : Int, before : 0 .. MaxCloses]
    /\ closes \in Seq(Int)
    /\ sent \in [closes : SUBSET (1 .. MaxCloses), breach : BOOLEAN,
                 outcome : {"none", "passed", "failed"}]
    /\ pumping \in BOOLEAN
    /\ awaits \in 0 .. MaxPosts
    /\ reentering \in {"no", "asked", "granted"}
    /\ posts \in [Posts -> Post \cup {NoPost}]
    /\ account \in [status : {"Evaluating", "Passed", "Failed", "Suspended"},
                    equity : Int, cycle : 1 .. MaxCycles]
    /\ keyed \subseteq 1 .. MaxCloses
    /\ lapses \in 0 .. MaxLapses

OutcomeInit ==
    /\ evaluation = FreshVault(0) /\ closes = <<>>
    /\ sent = NothingSent /\ pumping = FALSE /\ awaits = 0 /\ reentering = "no"
    /\ posts = [p \in Posts |-> NoPost]
    /\ account = [status |-> "Evaluating", equity |-> 0, cycle |-> 1]
    /\ keyed = {} /\ lapses = 0

-----------------------------------------------------------------------------
(* The paper engine. *)

\* The vault, judged on its equity.
Judged(v) ==
    LET gain == v.realized + v.unrealized
        rule == IF gain <= - LOSS THEN "drawdown"
                ELSE IF gain <= - DAILY THEN "dailyLoss" ELSE "none"
    IN  [v EXCEPT !.rule = rule,
                  !.status = IF rule # "none" THEN "failed"
                             ELSE IF gain >= PROFIT THEN "passed" ELSE "active"]

\* Every change of the store starts the pump, which ignores it while it drains.
EngineStep(v) ==
    /\ evaluation.status = "active"
    /\ evaluation' = Judged(v)
    /\ pumping' = TRUE
    /\ UNCHANGED <<sent, awaits, reentering, posts, account, keyed, lapses>>

opens_position ==
    /\ ~ evaluation.open /\ Len(closes) < MaxCloses
    /\ EngineStep([evaluation EXCEPT !.open = TRUE])
    /\ UNCHANGED closes

marks_position(gain) ==
    /\ evaluation.open
    /\ EngineStep([evaluation EXCEPT !.unrealized = gain])
    /\ UNCHANGED closes

closes_position ==
    /\ evaluation.open
    /\ EngineStep([evaluation EXCEPT !.open = FALSE, !.unrealized = 0,
                                     !.realized = @ + evaluation.unrealized])
    /\ closes' = Append(closes, evaluation.unrealized)

\* A price tick of a live evaluation; a terminal one changes nothing.
ticks ==
    /\ ~ pumping
    /\ EngineStep(evaluation)
    /\ UNCHANGED closes

-----------------------------------------------------------------------------
(* The pump. *)

PumpOnly == UNCHANGED <<evaluation, closes, reentering, account, keyed, lapses>>

UnsentCloses == (evaluation.before + 1 .. Len(closes)) \ sent.closes

\* The outstanding action of the highest priority: the oldest close, then the breach
\* of a drawdown, then the outcome.
reconcile ==
    CASE UnsentCloses # {} ->
            [kind |-> "close", close |-> CHOOSE c \in UnsentCloses : \A d \in UnsentCloses : c <= d,
             stage |-> "sent"]
      [] UnsentCloses = {} /\ evaluation.rule = "drawdown" /\ ~ sent.breach ->
            [kind |-> "breach", close |-> 0, stage |-> "sent"]
      [] UnsentCloses = {} /\ (evaluation.rule = "drawdown" => sent.breach)
         /\ evaluation.status # "active" /\ sent.outcome = "none" ->
            [kind |-> evaluation.status, close |-> 0, stage |-> "sent"]
      [] OTHER -> NoPost

pump(p) ==
    /\ pumping /\ awaits = 0 /\ posts[p] = NoPost
    /\ posts' = [posts EXCEPT ![p] = reconcile]
    /\ awaits' = IF reconcile = NoPost THEN 0 ELSE p
    /\ pumping' = (reconcile # NoPost)
    /\ UNCHANGED sent
    /\ PumpOnly

Recorded(post) ==
    CASE post.kind = "close" -> [sent EXCEPT !.closes = @ \cup {post.close}]
      [] post.kind = "breach" -> [sent EXCEPT !.breach = TRUE]
      [] OTHER -> [sent EXCEPT !.outcome = post.kind]

\* A mutant of answered: an action counts as sent whatever the route said.
answered_any(p) ==
    /\ awaits = p /\ posts[p].stage \in {"ok", "error"}
    /\ sent' = Recorded(posts[p])
    /\ posts' = [posts EXCEPT ![p] = NoPost] /\ awaits' = 0
    /\ UNCHANGED pumping
    /\ PumpOnly

\* Only what the route confirmed is recorded; a failure ends the drain.
answered(p) ==
    /\ awaits = p /\ posts[p].stage \in {"ok", "error"}
    /\ sent' = IF posts[p].stage = "ok" THEN Recorded(posts[p]) ELSE sent
    /\ pumping' = (posts[p].stage = "ok")
    /\ posts' = [posts EXCEPT ![p] = NoPost] /\ awaits' = 0
    /\ PumpOnly

\* The fetch fails, whatever becomes of the request.
reply_lost ==
    /\ awaits # 0 /\ lapses < MaxLapses
    /\ lapses' = lapses + 1
    /\ awaits' = 0 /\ pumping' = FALSE
    /\ posts' = IF posts[awaits].stage = "sent" THEN posts
                ELSE [posts EXCEPT ![awaits] = NoPost]
    /\ UNCHANGED <<evaluation, closes, sent, reentering, account, keyed>>

\* The trader comes back to the cockpit: a new page pumps from what was persisted
\* (which changes nothing when no action is outstanding).
opens_cockpit ==
    /\ ~ pumping /\ awaits = 0 /\ reentering = "no"
    /\ reconcile # NoPost
    /\ pumping' = TRUE
    /\ UNCHANGED <<evaluation, closes, sent, awaits, reentering, posts, account, keyed, lapses>>

-----------------------------------------------------------------------------
(* The routes and the contract. *)

Trading == account.status \in {"Evaluating", "Passed"}

Answer(p, ok) ==
    posts' = [posts EXCEPT ![p] =
                IF awaits = p THEN [@ EXCEPT !.stage = IF ok THEN "ok" ELSE "error"]
                ELSE NoPost]

RouteOnly == UNCHANGED <<evaluation, closes, page_vars, lapses>>

\* log_trade, with its own gates.
Booked(gain) ==
    LET equity == account.equity + gain
    IN  [account EXCEPT !.equity = equity,
                        !.status = IF equity <= - DAILY \/ equity <= - LOSS
                                   THEN "Suspended" ELSE @]

\* A close whose key is claimed is answered as a duplicate.
close_route(p) ==
    LET c == posts[p].close
    IN  /\ posts[p].kind = "close" /\ posts[p].stage = "sent"
        /\ keyed' = keyed \cup {c}
        /\ account' = IF c \notin keyed /\ Trading THEN Booked(closes[c]) ELSE account
        /\ Answer(p, c \in keyed \/ Trading)
        /\ RouteOnly

breach_route(p) ==
    /\ posts[p].kind = "breach" /\ posts[p].stage = "sent"
    /\ account' = IF Trading THEN [account EXCEPT !.status = "Suspended"] ELSE account
    /\ Answer(p, Trading)
    /\ UNCHANGED keyed
    /\ RouteOnly

pass_route(p) ==
    LET met == account.status = "Evaluating" /\ account.equity >= PROFIT
    IN  /\ posts[p].kind = "passed" /\ posts[p].stage = "sent"
        /\ account' = IF met THEN [account EXCEPT !.status = "Passed"] ELSE account
        /\ Answer(p, met)
        /\ UNCHANGED keyed
        /\ RouteOnly

fail_route(p) ==
    LET evaluating == account.status = "Evaluating"
    IN  /\ posts[p].kind = "failed" /\ posts[p].stage = "sent"
        /\ account' = IF evaluating THEN [account EXCEPT !.status = "Failed"] ELSE account
        /\ Answer(p, evaluating)
        /\ UNCHANGED keyed
        /\ RouteOnly

\* A route fails before it reaches the chain; a close may have claimed its key.
route_fails(p) ==
    /\ posts[p].stage = "sent" /\ lapses < MaxLapses
    /\ lapses' = lapses + 1
    /\ Answer(p, FALSE)
    /\ \/ UNCHANGED keyed
       \/ posts[p].kind = "close" /\ keyed' = keyed \cup {posts[p].close}
    /\ UNCHANGED <<evaluation, closes, page_vars, account>>

-----------------------------------------------------------------------------
(* The failed page, which is shown while the chain says failed or suspended. *)

handleReenter ==
    /\ account.status \in {"Failed", "Suspended"} /\ account.cycle < MaxCycles
    /\ reentering = "no"
    /\ reentering' = "asked"
    /\ UNCHANGED <<evaluation, closes, sent, pumping, awaits, posts, account, keyed, lapses>>

reactivate_route ==
    /\ reentering = "asked" /\ account.status \in {"Failed", "Suspended"}
    /\ account' = [status |-> "Evaluating", equity |-> 0, cycle |-> account.cycle + 1]
    /\ reentering' = "granted"
    /\ UNCHANGED <<evaluation, closes, sent, pumping, awaits, posts, keyed, lapses>>

\* The reply resets the evaluation, whatever its status; what the bridge has sent is
\* kept.
resets_evaluation ==
    /\ reentering = "granted"
    /\ evaluation' = FreshVault(Len(closes))
    /\ reentering' = "no" /\ pumping' = TRUE
    /\ UNCHANGED <<closes, sent, awaits, posts, account, keyed, lapses>>

\* The reply is lost: the evaluation keeps its outcome, in an account that is live.
reentry_lost ==
    /\ reentering # "no" /\ lapses < MaxLapses
    /\ lapses' = lapses + 1
    /\ reentering' = "no"
    /\ UNCHANGED <<evaluation, closes, sent, pumping, awaits, posts, account, keyed>>

-----------------------------------------------------------------------------

EngineNext ==
    \/ opens_position \/ closes_position \/ ticks
    \/ \E gain \in Gains : marks_position(gain)

Routes(p) == close_route(p) \/ breach_route(p) \/ pass_route(p) \/ fail_route(p)

Reentry == handleReenter \/ reactivate_route \/ resets_evaluation \/ reentry_lost

OutcomeNext ==
    \/ EngineNext \/ Reentry \/ reply_lost \/ opens_cockpit
    \/ \E p \in Posts : pump(p) \/ answered(p) \/ Routes(p) \/ route_fails(p)

OutcomeSpec == OutcomeInit /\ [][OutcomeNext]_outcome_vars

\* Requests are served and answered, the pump drains, and the trader comes back.
OutcomeFairness ==
    /\ WF_outcome_vars(\E p \in Posts : pump(p))
    /\ WF_outcome_vars(opens_cockpit)
    /\ \A p \in Posts : WF_outcome_vars(answered(p)) /\ WF_outcome_vars(Routes(p))

OutcomeFairSpec == OutcomeSpec /\ OutcomeFairness

-----------------------------------------------------------------------------
(* Properties. *)

\* In the first cycle, a failed evaluation, and a passed one once the chain has the
\* gains, is no longer evaluated on chain in the end, whatever requests and replies
\* are lost and whichever of its closes, breach and outcome had been sent before.
OutcomeReachesChain ==
    (/\ account.cycle = 1
     /\ \/ evaluation.status = "failed"
        \/ evaluation.status = "passed" /\ account.equity >= PROFIT)
    ~> (account.status # "Evaluating" \/ account.cycle # 1)

\* "status flips to "passed" -> POST /api/evaluation/pass": an evaluation that passed
\* in the browser passes on chain.
PassReachesChain == evaluation.status = "passed" ~> account.status # "Evaluating"

=============================================================================
