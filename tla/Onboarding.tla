----------------------------- MODULE Onboarding -----------------------------
(***************************************************************************)
(* How a trader gets an account on chain: the browser pays the fee of a    *)
(* tier and posts the payment's digest, or an invite code, to the onboard  *)
(* route, or asks the account route for a sponsored account; the server    *)
(* looks for an account in the indexer, which lags behind the chain,       *)
(* verifies the payment, opens the account from the firm's coins and       *)
(* mirrors it into the ledger.                                             *)
(*                                                                         *)
(* Every await is a step boundary, and any of them may fail.  Sign-in and  *)
(* gas sponsorship are left out.                                           *)
(***************************************************************************)
EXTENDS Integers, Sequences

CONSTANTS
    Traders,       \* wallets
    OnboardTiers,  \* the tiers a new trader may choose, "starter" among them
    Fees,          \* what the fee of a tier may be
    FirstFee,      \* the fee the tiers are seeded with
    FirmCoins,     \* what the firm's wallet starts with
    MaxRequests,   \* bound: requests the server handles at once
    MaxPayments,   \* bound: payments of one trader
    MaxRetunes     \* bound: changes of the fees

ASSUME OnboardAssumption ==
    /\ "starter" \in OnboardTiers
    /\ Fees \subseteq Nat /\ FirstFee \in Fees /\ FirmCoins \in Nat
    /\ MaxRequests \in Nat \ {0} /\ MaxPayments \in Nat /\ MaxRetunes \in Nat

VARIABLES
    checkout,     \* browser: where each trader's checkout is
    payments,     \* chain: what each trader paid to the firm, by digest
    eval_fee,     \* chain: the fee of each tier
    retunes,
    firm_coins,   \* chain: the firm's USDC
    opened_for,   \* chain: the accounts of each trader, and how each came about
    indexed,      \* indexer: how many of them it shows
    requests,     \* server: the requests being handled
    mirror        \* database: the tier and the tier of the terms of the accounts

onboard_vars ==
    <<checkout, payments, eval_fee, retunes, firm_coins, opened_for, indexed, requests, mirror>>

Requests == 1 .. MaxRequests

NoRequest == [pc |-> "none"]

NoCheckout == [at |-> "idle"]

Paths == {"paid", "invite", "sponsored"}

OnboardTypeOK ==
    /\ \A t \in Traders :
         \/ checkout[t] = NoCheckout
         \/ checkout[t] \in [at : {"paying"}, tier : OnboardTiers, fee : Fees]
         \/ checkout[t] \in [at : {"paid"}, tier : OnboardTiers, digest : DOMAIN payments[t]]
    /\ payments \in [Traders -> Seq(Fees)]
    /\ eval_fee \in [OnboardTiers -> Fees] /\ retunes \in 0 .. MaxRetunes
    /\ firm_coins \in 0 .. FirmCoins
    /\ opened_for \in [Traders -> Seq([tier : OnboardTiers, path : Paths, late : BOOLEAN])]
    /\ \A t \in Traders : indexed[t] \in 0 .. Len(opened_for[t])
    /\ requests \in
         [Requests -> {NoRequest} \cup
            [pc : {"find", "verify", "recheck", "fee", "open", "mirror"}, trader : Traders,
             path : Paths, tier : OnboardTiers, digest : 0 .. MaxPayments,
             fee : Fees \cup {0}, late : BOOLEAN, account : Nat]]
    /\ mirror \subseteq [trader : Traders, account : Nat, tier : OnboardTiers,
                         terms : OnboardTiers]

OnboardInit ==
    /\ checkout = [t \in Traders |-> NoCheckout]
    /\ payments = [t \in Traders |-> <<>>]
    /\ eval_fee = [tier \in OnboardTiers |-> FirstFee] /\ retunes = 0
    /\ firm_coins = FirmCoins
    /\ opened_for = [t \in Traders |-> <<>>]
    /\ indexed = [t \in Traders |-> 0]
    /\ requests = [r \in Requests |-> NoRequest]
    /\ mirror = {}

ChainStays == UNCHANGED <<payments, eval_fee, retunes, firm_coins, opened_for, indexed>>

-----------------------------------------------------------------------------
(* The browser.  The page may be older than the account the indexer shows. *)

usePayAndStart(t) ==
    /\ checkout[t].at = "idle"
    /\ \E tier \in OnboardTiers :
         checkout' = [checkout EXCEPT ![t] =
                        [at |-> "paying", tier |-> tier, fee |-> eval_fee[tier]]]
    /\ UNCHANGED <<requests, mirror>>
    /\ ChainStays

buildPayEvalFee(t) ==
    /\ checkout[t].at = "paying" /\ Len(payments[t]) < MaxPayments
    /\ payments' = [payments EXCEPT ![t] = Append(@, checkout[t].fee)]
    /\ checkout' = [checkout EXCEPT ![t] =
                      [at |-> "paid", tier |-> checkout[t].tier, digest |-> Len(payments[t]) + 1]]
    /\ UNCHANGED <<eval_fee, retunes, firm_coins, opened_for, indexed, requests, mirror>>

\* A request arrives; late: when the indexer already shows an account.
Arrives(t, path, tier, digest, pc) ==
    \E r \in Requests :
        /\ requests[r] = NoRequest
        /\ requests' = [requests EXCEPT ![r] =
                          [pc |-> pc, trader |-> t, path |-> path, tier |-> tier,
                           digest |-> digest, fee |-> 0, late |-> indexed[t] > 0, account |-> 1]]

\* (The page does not wait: it may be left at once.)
postOnboard(t) ==
    /\ checkout[t].at = "paid"
    /\ Arrives(t, "paid", checkout[t].tier, checkout[t].digest, "find")
    /\ checkout' = [checkout EXCEPT ![t] = NoCheckout]
    /\ UNCHANGED mirror
    /\ ChainStays

useRedeemInvite(t) ==
    /\ checkout[t].at = "idle"
    /\ Arrives(t, "invite", "starter", 0, "find")
    /\ UNCHANGED <<checkout, mirror>>
    /\ ChainStays

\* The account route, with a tier or the default one.
useCreateAccount(t) ==
    /\ checkout[t].at = "idle"
    /\ \E tier \in OnboardTiers : Arrives(t, "sponsored", tier, 0, "recheck")
    /\ UNCHANGED <<checkout, mirror>>
    /\ ChainStays

\* A step of the checkout fails, or the page is left: its payment is forgotten.
checkout_abandoned(t) ==
    /\ checkout[t].at # "idle"
    /\ checkout' = [checkout EXCEPT ![t] = NoCheckout]
    /\ UNCHANGED <<requests, mirror>>
    /\ ChainStays

-----------------------------------------------------------------------------
(* The server. *)

Goto(r, pc) == requests' = [requests EXCEPT ![r].pc = pc]
Respond(r) == requests' = [requests EXCEPT ![r] = NoRequest]

Shown(r) == indexed[requests[r].trader] > 0

AfterFind(r) == Goto(r, IF requests[r].path = "paid" THEN "verify" ELSE "recheck")

\* "One account per user: the central guard."
find_existing_account(r) ==
    /\ requests[r].pc = "find"
    /\ IF Shown(r) THEN Respond(r) ELSE AfterFind(r)
    /\ UNCHANGED <<checkout, mirror>>
    /\ ChainStays

\* The lookup failed: the route goes on.
find_fails(r) ==
    /\ requests[r].pc = "find"
    /\ AfterFind(r)
    /\ UNCHANGED <<checkout, mirror>>
    /\ ChainStays

verifyPayment(r) ==
    /\ requests[r].pc = "verify"
    /\ IF payments[requests[r].trader][requests[r].digest] >= eval_fee[requests[r].tier]
       THEN Goto(r, "recheck") ELSE Respond(r)
    /\ UNCHANGED <<checkout, mirror>>
    /\ ChainStays

\* A mutant of getTradingAccountId: adminOpenAccount relies on the route's lookup.
getTradingAccountId_trusts(r) ==
    /\ requests[r].pc = "recheck"
    /\ Goto(r, "fee")
    /\ UNCHANGED <<checkout, mirror>>
    /\ ChainStays

\* adminOpenAccount looks again; an account it finds is mirrored with the tier asked.
getTradingAccountId(r) ==
    /\ requests[r].pc = "recheck"
    /\ Goto(r, IF Shown(r) THEN "mirror" ELSE "fee")
    /\ UNCHANGED <<checkout, mirror>>
    /\ ChainStays

fetchEvalFee(r) ==
    LET fee == eval_fee[requests[r].tier]
    IN  /\ requests[r].pc = "fee"
        /\ IF firm_coins >= fee
           THEN requests' = [requests EXCEPT ![r].pc = "open", ![r].fee = fee]
           ELSE Respond(r)
        /\ UNCHANGED <<checkout, mirror>>
        /\ ChainStays

\* open_account, which wants the fee the tier has now.
open_account(r) ==
    LET q == requests[r]
        opens == q.fee = eval_fee[q.tier] /\ firm_coins >= q.fee
    IN  /\ q.pc = "open"
        /\ IF opens
           THEN /\ firm_coins' = firm_coins - q.fee
                /\ opened_for' = [opened_for EXCEPT ![q.trader] =
                                    Append(@, [tier |-> q.tier, path |-> q.path,
                                               late |-> q.late])]
                /\ requests' = [requests EXCEPT ![r].pc = "mirror",
                                   ![r].account = Len(opened_for[q.trader]) + 1]
           ELSE Respond(r) /\ UNCHANGED <<firm_coins, opened_for>>
        /\ UNCHANGED <<checkout, payments, eval_fee, retunes, indexed, mirror>>

\* upsertAccount: the terms stay those of the first insert.
mirrorAccount(r) ==
    LET q == requests[r]
        old == {row \in mirror : row.trader = q.trader /\ row.account = q.account}
        terms == IF old = {} THEN q.tier ELSE (CHOOSE row \in old : TRUE).terms
    IN  /\ q.pc = "mirror"
        /\ mirror' = (mirror \ old) \cup
             {[trader |-> q.trader, account |-> q.account, tier |-> q.tier, terms |-> terms]}
        /\ Respond(r)
        /\ UNCHANGED checkout
        /\ ChainStays

\* A call throws, or the server stops: the request is over.
request_fails(r) ==
    /\ requests[r] # NoRequest
    /\ Respond(r)
    /\ UNCHANGED <<checkout, mirror>>
    /\ ChainStays

-----------------------------------------------------------------------------

indexer_catches_up(t) ==
    /\ indexed[t] < Len(opened_for[t])
    /\ indexed' = [indexed EXCEPT ![t] = @ + 1]
    /\ UNCHANGED <<payments, eval_fee, retunes, firm_coins, opened_for>>
    /\ UNCHANGED <<checkout, requests, mirror>>

\* set_tier_row.
retunes_fee(tier, fee) ==
    /\ retunes < MaxRetunes /\ fee # eval_fee[tier]
    /\ eval_fee' = [eval_fee EXCEPT ![tier] = fee] /\ retunes' = retunes + 1
    /\ UNCHANGED <<payments, firm_coins, opened_for, indexed, checkout, requests, mirror>>

CheckoutStep(t) ==
    \/ usePayAndStart(t) \/ buildPayEvalFee(t) \/ postOnboard(t)
    \/ useRedeemInvite(t) \/ useCreateAccount(t) \/ checkout_abandoned(t)

OnboardRouteStep(r) ==
    \/ find_existing_account(r) \/ find_fails(r) \/ verifyPayment(r)
    \/ getTradingAccountId(r) \/ fetchEvalFee(r) \/ open_account(r)
    \/ mirrorAccount(r) \/ request_fails(r)

OnboardNext ==
    \/ \E t \in Traders : CheckoutStep(t) \/ indexer_catches_up(t)
    \/ \E r \in Requests : requests[r] # NoRequest /\ OnboardRouteStep(r)
    \/ \E tier \in OnboardTiers, fee \in Fees : retunes_fee(tier, fee)

OnboardSpec == OnboardInit /\ [][OnboardNext]_onboard_vars

-----------------------------------------------------------------------------
(* Properties. *)

\* "A user who already holds an account can neither pay for nor redeem a second one,
\* which is also what makes a replayed payment digest or reused invite code a no-op":
\* a request that arrives when the indexer shows an account opens none, by any of the
\* three paths and even if the route's own lookup fails.
KnownTraderIsNotReopened ==
    \A t \in Traders : \A i \in DOMAIN opened_for[t] : ~ opened_for[t][i].late

=============================================================================
