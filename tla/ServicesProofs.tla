--------------------------- MODULE ServicesProofs ---------------------------
(***************************************************************************)
(* Invariants of three services, for any wallets, tiers, names and bounds: *)
(* onboarding opens no account for a request that came too late, a name in *)
(* the ledger was held by its owner, and a browser's price never goes back *)
(* to an older mark.                                                       *)
(***************************************************************************)
EXTENDS Onboarding, Usernames, MarketFeed, TLAPS

-----------------------------------------------------------------------------
(* Onboarding.  A late request finds the account at adminOpenAccount's own *)
(* lookup, since what the indexer shows it goes on showing; so it never    *)
(* gets to where a fee is taken.                                           *)

LateStopsShort ==
    \A r \in Requests :
        requests[r] # NoRequest /\ requests[r].late =>
            indexed[requests[r].trader] > 0 /\ requests[r].pc \notin {"fee", "open"}

Request ==
    [pc : {"find", "verify", "recheck", "fee", "open", "mirror"}, trader : Traders,
     path : Paths, tier : OnboardTiers, late : BOOLEAN, digest : Nat, fee : Nat,
     account : Nat]

OnboardShape ==
    /\ requests \in [Requests -> {NoRequest} \cup Request]
    /\ opened_for \in
         [Traders -> Seq([tier : OnboardTiers, path : Paths, late : BOOLEAN])]
    /\ indexed \in [Traders -> Nat]
    /\ payments \in [Traders -> Seq(Nat)]
    /\ eval_fee \in [OnboardTiers -> Nat]
    /\ checkout \in [Traders -> {NoCheckout}
                       \cup [at : {"paying"}, tier : OnboardTiers, fee : Nat]
                       \cup [at : {"paid"}, tier : OnboardTiers, digest : Nat]]

OnboardInv == OnboardShape /\ LateStopsShort /\ KnownTraderIsNotReopened

LEMMA OnboardInitInv == OnboardInit => OnboardInv
BY OnboardAssumption
DEF OnboardInit, OnboardInv, OnboardShape, LateStopsShort, KnownTraderIsNotReopened

\* A new request is late only if the indexer shows an account, and starts with a lookup.
LEMMA ArrivesKeeps ==
    ASSUME OnboardInv, NEW t \in Traders, NEW path \in Paths, NEW tier \in OnboardTiers,
           NEW digest \in Nat, NEW pc \in {"find", "recheck"},
           Arrives(t, path, tier, digest, pc),
           UNCHANGED <<opened_for, indexed, payments, eval_fee>>
    PROVE  /\ requests' \in [Requests -> {NoRequest} \cup Request]
           /\ LateStopsShort' /\ KnownTraderIsNotReopened'
<1>1. PICK r \in Requests :
         requests' = [requests EXCEPT ![r] =
                        [pc |-> pc, trader |-> t, path |-> path, tier |-> tier,
                         digest |-> digest, fee |-> 0, late |-> indexed[t] > 0,
                         account |-> 1]]
  BY DEF Arrives
<1>2. requests' \in [Requests -> {NoRequest} \cup Request]
  BY <1>1 DEF OnboardInv, OnboardShape, Request
<1>3. LateStopsShort'
  BY <1>1 DEF OnboardInv, OnboardShape, LateStopsShort
<1> QED BY <1>2, <1>3 DEF OnboardInv, KnownTraderIsNotReopened

LEMMA CheckoutKeeps ==
    ASSUME OnboardInv, NEW t \in Traders, CheckoutStep(t)
    PROVE  OnboardInv'
<1> USE DEF OnboardInv, ChainStays
<1>1. CASE usePayAndStart(t)
  <2>1. PICK tier \in OnboardTiers :
           checkout' = [checkout EXCEPT ![t] =
                          [at |-> "paying", tier |-> tier, fee |-> eval_fee[tier]]]
    BY <1>1 DEF usePayAndStart
  <2>2. [at |-> "paying", tier |-> tier, fee |-> eval_fee[tier]]
           \in [at : {"paying"}, tier : OnboardTiers, fee : Nat]
    BY DEF OnboardShape
  <2>3. OnboardShape'
    BY <1>1, <2>1, <2>2 DEF usePayAndStart, OnboardShape
  <2> QED BY <1>1, <2>3 DEF usePayAndStart, LateStopsShort, KnownTraderIsNotReopened
<1>2. CASE buildPayEvalFee(t)
  <2>1. checkout[t].at = "paying"
    BY <1>2 DEF buildPayEvalFee
  <2>2. checkout[t].fee \in Nat /\ checkout[t].tier \in OnboardTiers
    BY <2>1 DEF OnboardShape, NoCheckout
  <2>3. payments' \in [Traders -> Seq(Nat)]
    BY <1>2, <2>2 DEF buildPayEvalFee, OnboardShape
  <2>4. Len(payments[t]) + 1 \in Nat
    BY DEF OnboardShape
  <2>5. [at |-> "paid", tier |-> checkout[t].tier, digest |-> Len(payments[t]) + 1]
           \in [at : {"paid"}, tier : OnboardTiers, digest : Nat]
    BY <2>2, <2>4
  <2>6. OnboardShape'
    BY <1>2, <2>3, <2>5 DEF buildPayEvalFee, OnboardShape
  <2> QED BY <1>2, <2>6 DEF buildPayEvalFee, LateStopsShort, KnownTraderIsNotReopened
<1>3. CASE postOnboard(t)
  <2>1. checkout[t].tier \in OnboardTiers /\ checkout[t].digest \in Nat
    BY <1>3 DEF postOnboard, OnboardShape, NoCheckout
  <2>2. /\ requests' \in [Requests -> {NoRequest} \cup Request]
        /\ LateStopsShort' /\ KnownTraderIsNotReopened'
    BY <1>3, <2>1, ArrivesKeeps DEF postOnboard, Paths
  <2> QED BY <1>3, <2>2 DEF postOnboard, OnboardShape
<1>4. CASE useRedeemInvite(t)
  <2>1. /\ requests' \in [Requests -> {NoRequest} \cup Request]
        /\ LateStopsShort' /\ KnownTraderIsNotReopened'
    BY <1>4, OnboardAssumption, ArrivesKeeps DEF useRedeemInvite, Paths
  <2> QED BY <1>4, <2>1 DEF useRedeemInvite, OnboardShape
<1>5. CASE useCreateAccount(t)
  <2>1. /\ requests' \in [Requests -> {NoRequest} \cup Request]
        /\ LateStopsShort' /\ KnownTraderIsNotReopened'
    BY <1>5, ArrivesKeeps DEF useCreateAccount, Paths
  <2> QED BY <1>5, <2>1 DEF useCreateAccount, OnboardShape
<1>6. CASE checkout_abandoned(t)
  <2>1. OnboardShape'
    BY <1>6 DEF checkout_abandoned, OnboardShape
  <2> QED BY <1>6, <2>1 DEF checkout_abandoned, LateStopsShort, KnownTraderIsNotReopened
<1> QED BY <1>1, <1>2, <1>3, <1>4, <1>5, <1>6 DEF CheckoutStep

\* A request that is answered, or moves on, with what it carries unchanged.
LEMMA RequestMoves ==
    ASSUME OnboardInv, NEW r \in Requests, requests[r] # NoRequest,
           NEW pc \in {"verify", "recheck", "fee", "open", "mirror"},
           Respond(r) \/ Goto(r, pc),
           pc \in {"fee", "open"} => ~ requests[r].late,
           UNCHANGED indexed
    PROVE  requests' \in [Requests -> {NoRequest} \cup Request] /\ LateStopsShort'
<1>1. requests[r] \in Request /\ requests \in [Requests -> {NoRequest} \cup Request]
  BY DEF OnboardInv, OnboardShape
<1>2. CASE Respond(r)
  <2>1. requests' \in [Requests -> {NoRequest} \cup Request]
    BY <1>1, <1>2 DEF Respond
  <2>2. LateStopsShort'
    BY <1>1, <1>2 DEF Respond, OnboardInv, LateStopsShort
  <2> QED BY <2>1, <2>2
<1>3. CASE Goto(r, pc)
  <2> DEFINE q == [requests[r] EXCEPT !.pc = pc]
  <2>1. requests' = [requests EXCEPT ![r] = q]
    BY <1>3 DEF Goto
  <2>2. q \in Request /\ q.late = requests[r].late /\ q.trader = requests[r].trader
        /\ q.pc = pc
    BY <1>1 DEF Request
  <2> HIDE DEF q
  <2>3. requests' \in [Requests -> {NoRequest} \cup Request]
    BY <1>1, <2>1, <2>2
  <2>4. LateStopsShort'
    BY <1>1, <2>1, <2>2 DEF OnboardInv, LateStopsShort
  <2> QED BY <2>3, <2>4
<1> QED BY <1>2, <1>3

\* open_account, and the request it was for.
LEMMA OpenKeeps ==
    ASSUME OnboardInv, NEW r \in Requests, requests[r] # NoRequest, open_account(r)
    PROVE  OnboardInv'
<1> DEFINE q == requests[r]
<1>1. q \in Request /\ ~ q.late /\ q.pc = "open"
  BY DEF open_account, OnboardInv, OnboardShape, LateStopsShort, Request
<1>2. UNCHANGED <<indexed, payments, eval_fee, checkout>>
  BY DEF open_account
<1>3. CASE Respond(r) /\ UNCHANGED opened_for
  BY <1>2, <1>3, RequestMoves DEF OnboardInv, OnboardShape, KnownTraderIsNotReopened
<1>4. CASE opened_for' = [opened_for EXCEPT ![q.trader] =
                            Append(@, [tier |-> q.tier, path |-> q.path, late |-> q.late])]
           /\ requests' = [requests EXCEPT ![r].pc = "mirror",
                              ![r].account = Len(opened_for[q.trader]) + 1]
  <2>1. q.trader \in Traders /\ Len(opened_for[q.trader]) + 1 \in Nat
    BY <1>1 DEF OnboardInv, OnboardShape, Request
  <2>2. requests' \in [Requests -> {NoRequest} \cup Request]
    BY <1>1, <1>4, <2>1 DEF OnboardInv, OnboardShape, Request
  <2>3. LateStopsShort'
    BY <1>1, <1>2, <1>4 DEF OnboardInv, OnboardShape, LateStopsShort, Request, NoRequest
  <2>4. [tier |-> q.tier, path |-> q.path, late |-> q.late]
           \in [tier : OnboardTiers, path : Paths, late : BOOLEAN]
    BY <1>1 DEF Request
  <2> DEFINE A == [tier : OnboardTiers, path : Paths, late : BOOLEAN]
             a == [tier |-> q.tier, path |-> q.path, late |-> q.late]
  <2>7. opened_for \in [Traders -> Seq(A)]
    BY DEF OnboardInv, OnboardShape
  <2>8. opened_for' = [opened_for EXCEPT ![q.trader] = Append(@, a)]
    BY <1>4
  <2>5. opened_for' \in [Traders -> Seq(A)]
    <3> HIDE DEF A, a, q
    <3>1. a \in A => Append(opened_for[q.trader], a) \in Seq(A)
      BY <2>1, <2>7
    <3> QED BY <2>1, <2>4, <2>7, <2>8, <3>1 DEF A, a
  <2>6. KnownTraderIsNotReopened'
    BY <1>1, <1>4, <2>1, <2>4, SMTT(60)
    DEF OnboardInv, OnboardShape, KnownTraderIsNotReopened
  <2> QED BY <1>2, <2>2, <2>3, <2>5, <2>6 DEF OnboardInv, OnboardShape
<1> QED BY <1>3, <1>4 DEF open_account

LEMMA RouteKeeps ==
    ASSUME OnboardInv, NEW r \in Requests, requests[r] # NoRequest, OnboardRouteStep(r)
    PROVE  OnboardInv'
<1> USE DEF ChainStays, AfterFind
<1>1. requests[r] \in Request
  BY DEF OnboardInv, OnboardShape
<1>2. ASSUME requests' \in [Requests -> {NoRequest} \cup Request], LateStopsShort',
             UNCHANGED checkout, ChainStays
      PROVE  OnboardInv'
  BY <1>2 DEF OnboardInv, OnboardShape, KnownTraderIsNotReopened
<1>3. CASE find_existing_account(r)
  BY <1>1, <1>2, <1>3, RequestMoves DEF find_existing_account
<1>4. CASE find_fails(r)
  BY <1>1, <1>2, <1>4, RequestMoves DEF find_fails
<1>5. CASE verifyPayment(r)
  BY <1>1, <1>2, <1>5, RequestMoves DEF verifyPayment
<1>6. CASE getTradingAccountId(r)
  <2>1. requests[r].late => Shown(r)
    BY DEF OnboardInv, LateStopsShort, Shown
  <2> QED BY <1>1, <1>2, <1>6, <2>1, RequestMoves DEF getTradingAccountId
<1>7. CASE fetchEvalFee(r)
  <2>1. ~ requests[r].late /\ requests[r].tier \in OnboardTiers
    BY <1>1, <1>7 DEF fetchEvalFee, OnboardInv, LateStopsShort, Request
  <2>2. CASE Respond(r)
    BY <1>1, <1>2, <1>7, <2>2, RequestMoves DEF fetchEvalFee
  <2>3. CASE requests' = [requests EXCEPT ![r].pc = "open",
                             ![r].fee = eval_fee[requests[r].tier]]
    <3>1. eval_fee[requests[r].tier] \in Nat
      BY <2>1 DEF OnboardInv, OnboardShape
    <3>2. requests' \in [Requests -> {NoRequest} \cup Request]
      BY <1>1, <2>3, <3>1 DEF OnboardInv, OnboardShape, Request
    <3>3. LateStopsShort'
      BY <1>1, <1>7, <2>1, <2>3
      DEF fetchEvalFee, OnboardInv, OnboardShape, LateStopsShort, Request, NoRequest
    <3> QED BY <1>2, <1>7, <3>2, <3>3 DEF fetchEvalFee
  <2> QED BY <1>7, <2>2, <2>3 DEF fetchEvalFee
<1>8. CASE open_account(r)
  BY <1>8, OpenKeeps
<1>9. CASE mirrorAccount(r)
  BY <1>1, <1>2, <1>9, RequestMoves DEF mirrorAccount
<1>10. CASE request_fails(r)
  BY <1>1, <1>2, <1>10, RequestMoves DEF request_fails
<1> QED BY <1>3, <1>4, <1>5, <1>6, <1>7, <1>8, <1>9, <1>10 DEF OnboardRouteStep

\* What the indexer shows it goes on showing.
LEMMA IndexerKeeps ==
    ASSUME OnboardInv, NEW t \in Traders, indexer_catches_up(t)
    PROVE  OnboardInv'
<1>1. /\ indexed' \in [Traders -> Nat]
      /\ \A u \in Traders : indexed[u] > 0 => indexed'[u] > 0
  BY DEF indexer_catches_up, OnboardInv, OnboardShape
<1>2. OnboardShape'
  BY <1>1 DEF indexer_catches_up, OnboardInv, OnboardShape
<1>3. LateStopsShort'
  BY <1>1 DEF indexer_catches_up, OnboardInv, OnboardShape, LateStopsShort, Request
<1> QED BY <1>2, <1>3 DEF indexer_catches_up, OnboardInv, KnownTraderIsNotReopened

LEMMA OnboardStep == OnboardInv /\ [OnboardNext]_onboard_vars => OnboardInv'
<1> SUFFICES ASSUME OnboardInv, [OnboardNext]_onboard_vars PROVE OnboardInv'
  OBVIOUS
<1>1. ASSUME NEW tier \in OnboardTiers, NEW fee \in Fees, retunes_fee(tier, fee)
      PROVE  OnboardInv'
  <2>1. eval_fee' \in [OnboardTiers -> Nat]
    BY <1>1, OnboardAssumption DEF retunes_fee, OnboardInv, OnboardShape
  <2> QED BY <1>1, <2>1 DEF retunes_fee, OnboardInv, OnboardShape, LateStopsShort,
                            KnownTraderIsNotReopened
<1>2. CASE UNCHANGED onboard_vars
  BY <1>2 DEF onboard_vars, OnboardInv, OnboardShape, LateStopsShort, KnownTraderIsNotReopened
<1> QED BY <1>1, <1>2, CheckoutKeeps, RouteKeeps, IndexerKeeps DEF OnboardNext

\* "A user who already holds an account can neither pay for nor redeem a second one":
\* by any path of the onboard and account routes, and whatever lookup fails.
THEOREM KnownTraders == OnboardSpec => []KnownTraderIsNotReopened
<1>1. OnboardInv => KnownTraderIsNotReopened
  BY DEF OnboardInv
<1> QED BY <1>1, OnboardInitInv, OnboardStep, PTL DEF OnboardSpec

-----------------------------------------------------------------------------
(* Usernames.  A claim gets to where it is recorded only when the read     *)
(* node shows the claimant's NFT, and the node shows nothing that never    *)
(* was on the chain.                                                       *)

Claim ==
    [pc : {"read", "holds", "mint", "confirm", "record"}, owner : Claimants, label : Labels]

ClaimShape ==
    /\ claims \in [Claims -> {NoClaim} \cup Claim]
    /\ displayName \in [Claimants -> [account : BOOLEAN, name : SUBSET Labels]]

HistoryCovers == nfts \subseteq ever_held /\ seen.nfts \subseteq ever_held

RecordedIsHeld ==
    \A c \in Claims : claims[c] # NoClaim /\ claims[c].pc = "record" =>
        <<claims[c].owner, claims[c].label>> \in ever_held

NameInv == ClaimShape /\ HistoryCovers /\ RecordedIsHeld /\ NameWasHeld

LEMMA NameInitInv == UsernameInit => NameInv
BY DEF UsernameInit, NameInv, ClaimShape, HistoryCovers, RecordedIsHeld, NameWasHeld, NoName

\* A claim that moves on, or ends, with nothing recorded.
LEMMA ClaimMoves ==
    ASSUME NameInv, NEW c \in Claims, claims[c] # NoClaim,
           NEW pc \in {"read", "holds", "mint", "confirm", "record"},
           Then(c, pc) \/ Done(c),
           pc = "record" => <<claims[c].owner, claims[c].label>> \in ever_held',
           ever_held \subseteq ever_held'
    PROVE  claims' \in [Claims -> {NoClaim} \cup Claim] /\ RecordedIsHeld'
<1>1. claims[c] \in Claim /\ claims \in [Claims -> {NoClaim} \cup Claim]
  BY DEF NameInv, ClaimShape
<1>2. CASE Done(c)
  BY <1>1, <1>2 DEF Done, NameInv, RecordedIsHeld
<1>3. CASE Then(c, pc)
  <2> DEFINE q == [claims[c] EXCEPT !.pc = pc]
  <2>1. claims' = [claims EXCEPT ![c] = q]
    BY <1>3 DEF Then
  <2>2. q \in Claim /\ q.pc = pc /\ q.owner = claims[c].owner /\ q.label = claims[c].label
    BY <1>1 DEF Claim
  <2> HIDE DEF q
  <2>3. claims' \in [Claims -> {NoClaim} \cup Claim]
    BY <1>1, <2>1, <2>2
  <2>4. RecordedIsHeld'
    BY <1>1, <2>1, <2>2 DEF NameInv, RecordedIsHeld
  <2> QED BY <2>3, <2>4
<1> QED BY <1>2, <1>3

LEMMA RouteStepKeeps ==
    ASSUME NameInv, NEW c \in Claims, claims[c] # NoClaim, RouteStep(c)
    PROVE  NameInv'
<1> USE DEF ClaimOnly, RegistryStays
<1>1. claims[c] \in Claim
  BY DEF NameInv, ClaimShape
<1>2. ASSUME claims' \in [Claims -> {NoClaim} \cup Claim], RecordedIsHeld', ClaimOnly
      PROVE  NameInv'
  BY <1>2 DEF NameInv, ClaimShape, HistoryCovers, NameWasHeld
<1>3. Holds(c) => <<claims[c].owner, claims[c].label>> \in ever_held
  BY DEF Holds, NameInv, HistoryCovers
<1>4. CASE getNameRecord(c)
  BY <1>1, <1>2, <1>4, ClaimMoves DEF getNameRecord
<1>5. CASE confirmOwned(c)
  BY <1>1, <1>2, <1>3, <1>5, ClaimMoves DEF confirmOwned
<1>6. CASE createSubName(c)
  <2>1. /\ claims' \in [Claims -> {NoClaim} \cup Claim]
        /\ RecordedIsHeld' /\ ever_held \subseteq ever_held'
    BY <1>1, <1>6, ClaimMoves DEF createSubName
  <2>2. HistoryCovers'
    BY <1>6 DEF createSubName, NameInv, HistoryCovers
  <2> QED BY <1>6, <2>1, <2>2 DEF createSubName, NameInv, ClaimShape, NameWasHeld
<1>7. CASE confirmMinted(c)
  BY <1>1, <1>2, <1>3, <1>7, ClaimMoves DEF confirmMinted
<1>8. CASE setUsername(c)
  <2> DEFINE t == claims[c].owner
  <2>1. /\ t \in Claimants /\ claims[c].label \in Labels
        /\ <<t, claims[c].label>> \in ever_held
    BY <1>1, <1>8 DEF setUsername, Claim, NameInv, RecordedIsHeld
  <2>2. claims' \in [Claims -> {NoClaim} \cup Claim] /\ RecordedIsHeld'
    BY <1>1, <1>8, <2>1, ClaimMoves DEF setUsername
  <2>3. displayName' \in [Claimants -> [account : BOOLEAN, name : SUBSET Labels]]
    BY <1>8, <2>1 DEF setUsername, NameInv, ClaimShape
  <2>4. NameWasHeld'
    BY <1>8, <2>1, ZenonT(60) DEF setUsername, NameInv, ClaimShape, NameWasHeld
  <2> QED BY <1>8, <2>2, <2>3, <2>4 DEF setUsername, NameInv, ClaimShape, HistoryCovers
<1>9. CASE claim_fails(c)
  BY <1>1, <1>2, <1>9, ClaimMoves DEF claim_fails
<1> QED BY <1>4, <1>5, <1>6, <1>7, <1>8, <1>9 DEF RouteStep

LEMMA NameStep == NameInv /\ [UsernameNext]_username_vars => NameInv'
<1> SUFFICES ASSUME NameInv, [UsernameNext]_username_vars PROVE NameInv'
  OBVIOUS
<1> USE DEF NameInv, RegistryStays
<1>1. ASSUME NEW t \in Claimants, NEW label \in Labels, POST(t, label)
      PROVE  NameInv'
  BY <1>1 DEF POST, ClaimShape, HistoryCovers, RecordedIsHeld, NameWasHeld, Claim, NoClaim
<1>2. ASSUME NEW label \in Labels, name_expires(label)
      PROVE  NameInv'
  BY <1>2 DEF name_expires, ClaimShape, HistoryCovers, RecordedIsHeld, NameWasHeld
<1>3. CASE window_passes
  BY <1>3 DEF window_passes, ClaimShape, HistoryCovers, RecordedIsHeld, NameWasHeld
<1>4. CASE node_catches_up
  BY <1>4 DEF node_catches_up, ClaimShape, HistoryCovers, RecordedIsHeld, NameWasHeld
<1>5. ASSUME NEW t \in Claimants, account_mirrored(t)
      PROVE  NameInv'
  BY <1>5 DEF account_mirrored, ClaimShape, HistoryCovers, RecordedIsHeld, NameWasHeld
<1>6. ASSUME NEW from \in Claimants, NEW to \in Claimants, NEW label \in Labels,
             nft_moves(from, to, label)
      PROVE  NameInv'
  BY <1>6 DEF nft_moves, ClaimShape, HistoryCovers, RecordedIsHeld, NameWasHeld
<1>7. CASE UNCHANGED username_vars
  BY <1>7 DEF username_vars, ClaimShape, HistoryCovers, RecordedIsHeld, NameWasHeld
<1> QED BY <1>1, <1>2, <1>3, <1>4, <1>5, <1>6, <1>7, RouteStepKeeps DEF UsernameNext

\* "Ownership is proven by holding the NFT": nobody is called in the ledger by a name
\* whose NFT they never had, however the claims of it race and lag.
THEOREM NamesWereHeld == UsernameSpec => []NameWasHeld
<1>1. NameInv => NameWasHeld
  BY DEF NameInv
<1> QED BY <1>1, NameInitInv, NameStep, PTL DEF UsernameSpec

-----------------------------------------------------------------------------
(* The feed.  Along the whole path marks stand in the order they were      *)
(* made: shown, then the queue of the one stream that is served, then the  *)
(* gateway's snapshot, the adapter's pending mark and the venue's last.    *)

Ordered(q) == \A i, j \in 1 .. Len(q) : i <= j => q[i] <= q[j]

Within(q, low, high) == \A i \in 1 .. Len(q) : low <= q[i] /\ q[i] <= high

FeedShape ==
    /\ venue_mark \in Nat /\ pending_mark \in Nat /\ latest \in Nat /\ shown \in Nat
    /\ stream \in [Streams -> [state : {"free", "served", "left"}, queue : Seq(Nat)]]
    /\ source \in {NoSource, Connecting, Lost} \cup [state : {"open", "silent"}, on : Streams]
    /\ retry_timer \in BOOLEAN

OneStream ==
    /\ \A s \in Streams :
         /\ stream[s].state = "served" => source.state \in {"open", "silent"} /\ source.on = s
         /\ stream[s].state # "served" => stream[s].queue = <<>>
    /\ retry_timer => source = NoSource

InOrder ==
    /\ shown <= venue_mark /\ latest <= venue_mark /\ pending_mark <= venue_mark
    /\ pending_mark # 0 => latest <= pending_mark /\ shown <= pending_mark
    /\ latest # 0 => shown <= latest
    /\ \A s \in Streams :
         Ordered(stream[s].queue) /\ Within(stream[s].queue, shown, latest)

FeedInv == FeedShape /\ OneStream /\ InOrder

LEMMA AppendInOrder ==
    ASSUME NEW q \in Seq(Nat), NEW low \in Nat, NEW high \in Nat,
           Ordered(q), Within(q, low, high), low <= high
    PROVE  /\ Append(q, high) \in Seq(Nat)
           /\ Ordered(Append(q, high)) /\ Within(Append(q, high), low, high)
BY DEF Ordered, Within

LEMMA TailInOrder ==
    ASSUME NEW q \in Seq(Nat), q # <<>>, NEW low \in Nat, NEW high \in Nat,
           Ordered(q), Within(q, low, high)
    PROVE  /\ Head(q) \in Nat /\ low <= Head(q) /\ Head(q) <= high
           /\ Tail(q) \in Seq(Nat)
           /\ Ordered(Tail(q)) /\ Within(Tail(q), Head(q), high)
BY DEF Ordered, Within

LEMMA EmptyInOrder ==
    \A low, high \in Nat : /\ <<>> \in Seq(Nat)
                           /\ Ordered(<<>>) /\ Within(<<>>, low, high)
BY DEF Ordered, Within

LEMMA FeedInitInv == FeedInit => FeedInv
<1> SUFFICES ASSUME FeedInit PROVE FeedInv
  OBVIOUS
<1>1. \A s \in Streams : stream[s] = FreeSlot
  BY DEF FeedInit
<1>2. FeedShape
  BY EmptyInOrder DEF FeedInit, FeedShape, FreeSlot
<1>3. OneStream
  BY <1>1 DEF FeedInit, OneStream, FreeSlot
<1>4. InOrder
  BY <1>1, EmptyInOrder DEF FeedInit, InOrder, FreeSlot
<1> QED BY <1>2, <1>3, <1>4 DEF FeedInv

\* Closing the source empties the stream it was on.
LEMMA LeaveKeeps ==
    ASSUME FeedInv, LeaveStream(NoSource),
           UNCHANGED <<venue_mark, pending_mark, latest, shown>>, retry_timer' \in BOOLEAN
    PROVE  FeedInv'
<1>1. /\ stream' \in [Streams -> [state : {"free", "served", "left"}, queue : Seq(Nat)]]
      /\ \A s \in Streams : stream'[s].state # "served" /\ stream'[s].queue = <<>>
  <2>1. CASE source.state \in {"open", "silent"}
    <3>1. source.on \in Streams
      BY <2>1 DEF FeedInv, FeedShape, NoSource, Connecting, Lost
    <3>2. stream' = [stream EXCEPT ![source.on] = [state |-> "left", queue |-> <<>>]]
      BY <2>1 DEF LeaveStream
    <3>3. \A s \in Streams : s # source.on =>
            stream[s].state # "served" /\ stream[s].queue = <<>>
      BY DEF FeedInv, OneStream
    <3> QED BY <3>1, <3>2, <3>3, EmptyInOrder DEF FeedInv, FeedShape
  <2>2. CASE source.state \notin {"open", "silent"}
    BY <2>2 DEF LeaveStream, FeedInv, FeedShape, OneStream
  <2> QED BY <2>1, <2>2
<1>2. FeedShape' /\ OneStream'
  BY <1>1 DEF FeedInv, FeedShape, OneStream, LeaveStream
<1>3. InOrder'
  <2>1. \A s \in Streams : /\ Ordered(stream'[s].queue)
                           /\ Within(stream'[s].queue, shown, latest)
    BY <1>1, EmptyInOrder DEF FeedInv, FeedShape
  <2> QED BY <2>1 DEF FeedInv, InOrder
<1> QED BY <1>2, <1>3 DEF FeedInv

LEMMA AdapterKeeps ==
    ASSUME FeedInv, venue_moves \/ AdapterStep
    PROVE  FeedInv' /\ shown' >= shown
<1> USE DEF FeedInv
<1>1. UNCHANGED <<stream, source, retry_timer, shown>>
  BY DEF venue_moves, AdapterStep, listMarkets_answers, listMarkets_fails, connect,
         socket_opens, socket_closes, message, flush, AdapterOnly, gateway_vars,
         feed_browser_vars
<1>2. /\ venue_mark' \in Nat /\ venue_mark <= venue_mark'
      /\ pending_mark' \in Nat /\ pending_mark' <= venue_mark'
      /\ latest' \in Nat /\ latest <= latest' /\ latest' <= venue_mark'
      /\ pending_mark' # 0 => latest' <= pending_mark' /\ shown <= pending_mark'
      /\ latest' # 0 => shown <= latest'
  BY DEF venue_moves, AdapterStep, listMarkets_answers, listMarkets_fails, connect,
         socket_opens, socket_closes, message, flush, AdapterOnly, gateway_vars,
         adapter_vars, FeedShape, InOrder
<1>3. FeedShape' /\ OneStream'
  BY <1>1, <1>2 DEF FeedShape, OneStream
<1>4. \A s \in Streams : Within(stream[s].queue, shown, latest')
  BY <1>2 DEF FeedShape, InOrder, Within
<1>5. InOrder'
  BY <1>1, <1>2, <1>4 DEF FeedShape, InOrder
<1> QED BY <1>1, <1>3, <1>5 DEF FeedShape

LEMMA GatewayKeeps ==
    ASSUME FeedInv, GatewayStep
    PROVE  FeedInv' /\ shown' = shown
<1> USE DEF FeedInv
<1>1. CASE emit
  <2>1. UNCHANGED <<venue_mark, pending_mark, latest, source, retry_timer, shown>>
    BY <1>1 DEF emit, adapter_vars, feed_browser_vars
  <2>2. \A s \in Streams :
          \/ stream'[s] = stream[s]
          \/ /\ stream[s].state = "served"
             /\ stream'[s] = [stream[s] EXCEPT !.queue = Append(@, latest)]
    BY <1>1 DEF emit
  <2>3. \A s \in Streams : stream[s].queue \in Seq(Nat)
    BY DEF FeedShape
  <2>4. \A s \in Streams : /\ Append(stream[s].queue, latest) \in Seq(Nat)
                           /\ Ordered(Append(stream[s].queue, latest))
                           /\ Within(Append(stream[s].queue, latest), shown, latest)
    BY <1>1, <2>3, AppendInOrder DEF emit, FeedShape, InOrder
  <2>5. \A s \in Streams :
          /\ stream'[s].state = stream[s].state /\ stream'[s].queue \in Seq(Nat)
          /\ Ordered(stream'[s].queue) /\ Within(stream'[s].queue, shown, latest)
          /\ stream[s].state # "served" => stream'[s].queue = stream[s].queue
          /\ stream'[s] \in [state : {"free", "served", "left"}, queue : Seq(Nat)]
    <3> SUFFICES ASSUME NEW s \in Streams
                 PROVE  /\ stream'[s].state = stream[s].state
                        /\ stream'[s].queue \in Seq(Nat)
                        /\ Ordered(stream'[s].queue)
                        /\ Within(stream'[s].queue, shown, latest)
                        /\ stream[s].state # "served" => stream'[s].queue = stream[s].queue
                        /\ stream'[s] \in [state : {"free", "served", "left"}, queue : Seq(Nat)]
      OBVIOUS
    <3>1. stream[s] \in [state : {"free", "served", "left"}, queue : Seq(Nat)]
      BY DEF FeedShape
    <3>2. CASE stream'[s] = stream[s]
      BY <3>1, <3>2 DEF InOrder
    <3>3. CASE /\ stream[s].state = "served"
               /\ stream'[s] = [stream[s] EXCEPT !.queue = Append(@, latest)]
      BY <3>1, <3>3, <2>4
    <3> QED BY <2>2, <3>2, <3>3
  <2>6. stream' \in [Streams -> [state : {"free", "served", "left"}, queue : Seq(Nat)]]
    BY <1>1, <2>5 DEF emit
  <2>7. FeedShape' /\ OneStream'
    BY <2>1, <2>5, <2>6 DEF FeedShape, OneStream
  <2>8. InOrder'
    BY <2>1, <2>5 DEF InOrder
  <2> QED BY <2>1, <2>7, <2>8
<1>2. CASE gateway_restarts
  <2>1. \A s \in Streams : stream'[s] = FreeSlot
    BY <1>2 DEF gateway_restarts
  <2>2. FeedShape'
    BY <1>2, EmptyInOrder DEF gateway_restarts, FeedShape, FreeSlot
  <2>3. OneStream'
    BY <1>2, <2>1 DEF gateway_restarts, OneStream, FreeSlot
  <2>4. Ordered(<<>>) /\ Within(<<>>, shown, 0)
    BY EmptyInOrder DEF FeedShape
  <2>5. InOrder'
    BY <1>2, <2>1, <2>4 DEF gateway_restarts, FeedShape, InOrder, FreeSlot
  <2> QED BY <1>2, <2>2, <2>3, <2>5 DEF gateway_restarts
<1>3. ASSUME NEW s \in Streams, subscribe(s)
      PROVE  FeedInv' /\ shown' = shown
  <2> DEFINE q == IF latest # 0 THEN <<latest>> ELSE <<>>
  <2>1. /\ UNCHANGED <<venue_mark, pending_mark, latest, retry_timer, shown>>
        /\ source = Connecting /\ source' = [state |-> "open", on |-> s]
        /\ stream' = [stream EXCEPT ![s] = [state |-> "served", queue |-> q]]
    BY <1>3 DEF subscribe
  <2>2. q \in Seq(Nat) /\ Ordered(q) /\ Within(q, shown, latest)
    BY DEF FeedShape, InOrder, Ordered, Within
  <2> HIDE DEF q
  <2>3. \A u \in Streams : stream[u].state # "served"
    BY <2>1 DEF OneStream, Connecting
  <2>4. retry_timer = FALSE
    BY <2>1 DEF FeedShape, OneStream, Connecting, NoSource
  <2>5. FeedShape'
    BY <2>1, <2>2 DEF FeedShape
  <2>6. OneStream'
    BY <2>1, <2>3, <2>4 DEF OneStream, FeedShape
  <2>7. InOrder'
    BY <2>1, <2>2 DEF FeedShape, InOrder
  <2> QED BY <2>1, <2>5, <2>6, <2>7
<1>4. ASSUME NEW s \in Streams, unsubscribe(s)
      PROVE  FeedInv' /\ shown' = shown
  <2>1. /\ UNCHANGED <<venue_mark, source, retry_timer, shown>>
        /\ stream' = [stream EXCEPT ![s] = FreeSlot]
    BY <1>4 DEF unsubscribe, feed_browser_vars
  <2>2. FeedShape' /\ OneStream'
    BY <1>4, <2>1, EmptyInOrder
    DEF unsubscribe, FeedShape, OneStream, FreeSlot, adapter_vars
  <2>3. CASE Listeners = {s}
    <3>1. latest' = 0 /\ pending_mark' = 0
      BY <1>4, <2>3 DEF unsubscribe
    <3>2. \A u \in Streams : stream'[u].queue = <<>>
      BY <2>1, <2>3 DEF Listeners, FreeSlot, FeedShape, OneStream
    <3>3. Ordered(<<>>) /\ Within(<<>>, shown, 0)
      BY EmptyInOrder DEF FeedShape
    <3> QED BY <2>1, <2>2, <3>1, <3>2, <3>3 DEF FeedShape, InOrder
  <2>4. CASE Listeners # {s}
    <3>1. UNCHANGED <<latest, pending_mark>>
      BY <1>4, <2>4 DEF unsubscribe, adapter_vars
    <3>2. Ordered(<<>>) /\ Within(<<>>, shown, latest)
      BY EmptyInOrder DEF FeedShape
    <3> QED BY <2>1, <2>2, <3>1, <3>2 DEF FeedShape, InOrder, FreeSlot
  <2> QED BY <2>1, <2>3, <2>4
<1> QED BY <1>1, <1>2, <1>3, <1>4 DEF GatewayStep

\* The next batch of the stream, which is the oldest that waits in it.
LEMMA MarksKeeps ==
    ASSUME FeedInv, marks
    PROVE  FeedInv' /\ shown' >= shown
<1> USE DEF FeedInv
<1> DEFINE s == source.on
           q == stream[s].queue
<1>1. s \in Streams /\ source.state = "open"
  BY DEF marks, FeedShape, NoSource, Connecting, Lost
<1>2. /\ UNCHANGED <<venue_mark, pending_mark, latest, source, retry_timer>>
      /\ q # <<>> /\ shown' = Head(q)
      /\ stream' = [stream EXCEPT ![s].queue = Tail(q)]
  BY DEF marks, BrowserOnly, adapter_vars
<1>3. stream[s] \in [state : {"free", "served", "left"}, queue : Seq(Nat)]
  BY <1>1 DEF FeedShape
<1>4. /\ Head(q) \in Nat /\ shown <= Head(q) /\ Head(q) <= latest
      /\ Tail(q) \in Seq(Nat)
      /\ Ordered(Tail(q)) /\ Within(Tail(q), Head(q), latest)
  BY <1>1, <1>2, <1>3, TailInOrder DEF FeedShape, InOrder
<1>5. stream[s].state = "served"
  BY <1>1, <1>2 DEF OneStream
<1>6. \A u \in Streams : u # s => stream[u].state # "served" /\ stream[u].queue = <<>>
  BY DEF OneStream
<1>7. FeedShape'
  BY <1>1, <1>2, <1>3, <1>4 DEF FeedShape
<1>8. OneStream'
  BY <1>1, <1>2, <1>3, <1>5 DEF OneStream, FeedShape
<1>9. \A u \in Streams : /\ Ordered(stream'[u].queue)
                         /\ Within(stream'[u].queue, shown', latest)
  <2>1. Ordered(<<>>) /\ Within(<<>>, shown', latest)
    BY <1>2, <1>4, EmptyInOrder DEF FeedShape
  <2>2. \A u \in Streams : u # s => stream'[u].queue = <<>>
    BY <1>1, <1>2, <1>6 DEF FeedShape
  <2>3. stream'[s].queue = Tail(q)
    BY <1>1, <1>2 DEF FeedShape
  <2> QED BY <1>2, <1>4, <2>1, <2>2, <2>3
<1>10. InOrder'
  BY <1>2, <1>4, <1>9, SMTT(60) DEF FeedShape, InOrder
<1> QED BY <1>2, <1>4, <1>7, <1>8, <1>10

LEMMA BrowserKeeps ==
    ASSUME FeedInv, BrowserStep
    PROVE  FeedInv' /\ shown' >= shown
<1>1. CASE marks
  BY <1>1, MarksKeeps
<1>2. CASE unmount \/ onerror \/ silence_fires
  <2>1. /\ LeaveStream(NoSource) /\ retry_timer' \in BOOLEAN
        /\ UNCHANGED <<venue_mark, pending_mark, latest, shown>>
    BY <1>2 DEF unmount, onerror, silence_fires, reconnect, BrowserOnly, adapter_vars
  <2> QED BY <2>1, LeaveKeeps DEF FeedInv, FeedShape
<1>3. CASE mount \/ retry_fires
  <2>1. /\ UNCHANGED <<venue_mark, pending_mark, latest, shown, stream>>
        /\ source = NoSource /\ source' = Connecting /\ retry_timer' = FALSE
    BY <1>3 DEF mount, retry_fires, BrowserOnly, adapter_vars, FeedInv, FeedShape, OneStream
  <2>2. \A s \in Streams : stream[s].state # "served"
    BY <2>1 DEF FeedInv, OneStream, NoSource
  <2>3. FeedShape'
    BY <2>1 DEF FeedInv, FeedShape
  <2>4. OneStream'
    BY <2>1, <2>2 DEF FeedInv, OneStream
  <2>5. InOrder'
    BY <2>1 DEF FeedInv, InOrder
  <2> QED BY <2>1, <2>3, <2>4, <2>5 DEF FeedInv, FeedShape
<1>4. CASE goes_silent
  <2>1. /\ UNCHANGED <<venue_mark, pending_mark, latest, shown, stream, retry_timer>>
        /\ source.state = "open" /\ source' = [source EXCEPT !.state = "silent"]
    BY <1>4 DEF goes_silent, BrowserOnly, adapter_vars
  <2>2. source \in [state : {"open", "silent"}, on : Streams]
    BY <2>1 DEF FeedInv, FeedShape, NoSource, Connecting, Lost
  <2>3. /\ source' \in [state : {"open", "silent"}, on : Streams]
        /\ source'.state = "silent" /\ source'.on = source.on
    BY <2>1, <2>2
  <2>4. retry_timer = FALSE
    BY <2>1 DEF FeedInv, FeedShape, OneStream, NoSource
  <2> QED BY <2>1, <2>3, <2>4 DEF FeedInv, FeedShape, OneStream, InOrder
<1>5. CASE ping \/ toggleDivergenceHalt
  <2>1. UNCHANGED <<venue_mark, pending_mark, latest, shown, stream, retry_timer, source>>
    BY <1>5 DEF ping, toggleDivergenceHalt, BrowserOnly, adapter_vars
  <2> QED BY <2>1 DEF FeedInv, FeedShape, OneStream, InOrder
<1> QED BY <1>1, <1>2, <1>3, <1>4, <1>5 DEF BrowserStep

LEMMA FeedStep ==
    FeedInv /\ [FeedNext]_feed_vars => FeedInv' /\ [shown' >= shown]_feed_vars
<1> SUFFICES ASSUME FeedInv, [FeedNext]_feed_vars
             PROVE  FeedInv' /\ [shown' >= shown]_feed_vars
  OBVIOUS
<1>1. CASE FeedNext
  BY <1>1, AdapterKeeps, GatewayKeeps, BrowserKeeps DEF FeedNext, FeedInv, FeedShape
<1>2. CASE UNCHANGED feed_vars
  BY <1>2 DEF feed_vars, adapter_vars, gateway_vars, feed_browser_vars,
              FeedInv, FeedShape, OneStream, InOrder
<1> QED BY <1>1, <1>2

\* However often the venue's socket, the gateway and the browser's stream fail and come
\* back, the browser never replaces a mark by an older one.
THEOREM MarksStayInOrder == FeedSpec => PricesNeverGoBack
BY FeedInitInv, FeedStep, PTL DEF FeedSpec, PricesNeverGoBack

=============================================================================
