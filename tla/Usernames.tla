------------------------------ MODULE Usernames ------------------------------
(***************************************************************************)
(* The claim of a username (username/route.ts, suins.ts): the firm mints   *)
(* label.<parent> as a subname NFT into the trader's wallet and the ledger *)
(* records it as the trader's name.                                        *)
(*                                                                         *)
(* The registry is read at a node that lags behind the chain.  An NFT may  *)
(* change hands, and a name may expire and be minted anew while its old    *)
(* NFT stays where it is.  Every await is a step boundary, and a trader    *)
(* has one wallet.                                                         *)
(***************************************************************************)
EXTENDS Integers

CONSTANTS
    Claimants,   \* wallets of the traders
    Labels,      \* names under the parent domain
    MaxClaims,   \* bound: claims the server handles at once
    MaxMints,    \* bound: names minted
    MaxMoves     \* bound: NFTs that change hands, names that expire

ASSUME UsernameAssumption ==
    MaxClaims \in Nat \ {0} /\ MaxMints \in Nat /\ MaxMoves \in Nat

VARIABLES
    registered,   \* chain: the labels with a live registration
    nfts,         \* chain: <<wallet, label>>: the wallet holds an NFT of the label
    seen,         \* read node: what it knows of both
    displayName,  \* database: the name of each trader, with an account or not
    limited,      \* database: the traders whose key of this window is claimed
    claims,       \* server: the requests being handled
    mints,        \* chain: how many mints were made
    moves,
    ever_held     \* history: every <<wallet, label>> that was ever in nfts

username_vars ==
    <<registered, nfts, seen, displayName, limited, claims, mints, moves, ever_held>>

Claims == 1 .. MaxClaims

NoClaim == [pc |-> "none"]
NoName == [account |-> FALSE, name |-> {}]

UsernameTypeOK ==
    /\ registered \subseteq Labels
    /\ nfts \subseteq Claimants \X Labels /\ ever_held \subseteq Claimants \X Labels
    /\ seen \in [registered : SUBSET Labels, nfts : SUBSET (Claimants \X Labels)]
    /\ displayName \in [Claimants -> [account : BOOLEAN, name : SUBSET Labels]]
    /\ limited \subseteq Claimants
    /\ claims \in [Claims -> {NoClaim} \cup
                     [pc : {"read", "holds", "mint", "confirm", "record"},
                      owner : Claimants, label : Labels]]
    /\ mints \in 0 .. MaxMints /\ moves \in 0 .. MaxMoves

UsernameInit ==
    /\ registered = {} /\ nfts = {} /\ ever_held = {}
    /\ seen = [registered |-> {}, nfts |-> {}]
    /\ displayName = [t \in Claimants |-> NoName]
    /\ limited = {} /\ mints = 0 /\ moves = 0
    /\ claims = [c \in Claims |-> NoClaim]

RegistryStays == UNCHANGED <<registered, nfts, mints, moves, ever_held>>

ClaimOnly == UNCHANGED <<seen, displayName, limited>> /\ RegistryStays

-----------------------------------------------------------------------------
(* The route. *)

\* claimRateLimit: one attempt of a trader in each window.
POST(t, label) ==
    \E c \in Claims :
        /\ t \notin limited /\ claims[c] = NoClaim
        /\ limited' = limited \cup {t}
        /\ claims' = [claims EXCEPT ![c] = [pc |-> "read", owner |-> t, label |-> label]]
        /\ UNCHANGED <<seen, displayName>>
        /\ RegistryStays

Then(c, pc) == claims' = [claims EXCEPT ![c].pc = pc]
Done(c) == claims' = [claims EXCEPT ![c] = NoClaim]

Holds(c) == <<claims[c].owner, claims[c].label>> \in seen.nfts

\* A live registration is taken, unless the caller holds its NFT.
getNameRecord(c) ==
    /\ claims[c].pc = "read"
    /\ Then(c, IF claims[c].label \in seen.registered THEN "holds" ELSE "mint")
    /\ ClaimOnly

\* A mutant of confirmOwned: a name that is taken is recorded all the same.
confirmOwned_unchecked(c) ==
    /\ claims[c].pc = "holds"
    /\ Then(c, "record")
    /\ ClaimOnly

\* Polled; without the NFT the name is taken.
confirmOwned(c) ==
    /\ claims[c].pc = "holds"
    /\ IF Holds(c) THEN Then(c, "record") ELSE Done(c)
    /\ ClaimOnly

\* createSubName, which aborts on a live registration: taken.
createSubName(c) ==
    LET label == claims[c].label
        minted == <<claims[c].owner, label>>
    IN  /\ claims[c].pc = "mint"
        /\ IF label \in registered
           THEN Done(c) /\ UNCHANGED <<registered, nfts, mints, ever_held>>
           ELSE /\ mints < MaxMints
                /\ mints' = mints + 1
                /\ registered' = registered \cup {label}
                /\ nfts' = nfts \cup {minted} /\ ever_held' = ever_held \cup {minted}
                /\ Then(c, "confirm")
        /\ UNCHANGED <<seen, displayName, limited, moves>>

\* Polled for a while; until the node shows the NFT the claim is pending.
confirmMinted(c) ==
    /\ claims[c].pc = "confirm"
    /\ IF Holds(c) THEN Then(c, "record") ELSE Done(c)
    /\ ClaimOnly

\* A trader without an account has no row to update.
setUsername(c) ==
    LET t == claims[c].owner
    IN  /\ claims[c].pc = "record"
        /\ displayName' = IF displayName[t].account
                          THEN [displayName EXCEPT ![t].name = {claims[c].label}]
                          ELSE displayName
        /\ Done(c)
        /\ UNCHANGED <<seen, limited>>
        /\ RegistryStays

\* A call throws or the server stops, at any point.
claim_fails(c) ==
    /\ claims[c] # NoClaim
    /\ Done(c)
    /\ ClaimOnly

-----------------------------------------------------------------------------
(* What surrounds it. *)

window_passes ==
    /\ limited # {}
    /\ limited' = {}
    /\ UNCHANGED <<seen, displayName, claims>>
    /\ RegistryStays

account_mirrored(t) ==
    /\ ~ displayName[t].account
    /\ displayName' = [displayName EXCEPT ![t].account = TRUE]
    /\ UNCHANGED <<seen, limited, claims>>
    /\ RegistryStays

node_catches_up ==
    /\ seen # [registered |-> registered, nfts |-> nfts]
    /\ seen' = [registered |-> registered, nfts |-> nfts]
    /\ UNCHANGED <<displayName, limited, claims>>
    /\ RegistryStays

nft_moves(from, to, label) ==
    /\ <<from, label>> \in nfts /\ to # from /\ moves < MaxMoves
    /\ moves' = moves + 1
    /\ nfts' = (nfts \ {<<from, label>>}) \cup {<<to, label>>}
    /\ ever_held' = ever_held \cup {<<to, label>>}
    /\ UNCHANGED <<registered, seen, displayName, limited, claims, mints>>

name_expires(label) ==
    /\ label \in registered /\ moves < MaxMoves
    /\ moves' = moves + 1
    /\ registered' = registered \ {label}
    /\ UNCHANGED <<nfts, seen, displayName, limited, claims, mints, ever_held>>

RouteStep(c) ==
    \/ getNameRecord(c) \/ confirmOwned(c) \/ createSubName(c)
    \/ confirmMinted(c) \/ setUsername(c) \/ claim_fails(c)

UsernameNext ==
    \/ \E t \in Claimants, label \in Labels : POST(t, label) \/ name_expires(label)
    \/ \E c \in Claims : claims[c] # NoClaim /\ RouteStep(c)
    \/ window_passes \/ node_catches_up
    \/ \E t \in Claimants : account_mirrored(t)
    \/ \E from, to \in Claimants, label \in Labels : nft_moves(from, to, label)

UsernameSpec == UsernameInit /\ [][UsernameNext]_username_vars

-----------------------------------------------------------------------------
(* Properties. *)

\* "Ownership is proven by holding the NFT": whoever the ledger calls by a name had its
\* NFT, whatever claims of it raced, lagged behind the chain, failed half-way and were
\* made again.
NameWasHeld ==
    \A t \in Claimants : \A label \in displayName[t].name : <<t, label>> \in ever_held

=============================================================================
