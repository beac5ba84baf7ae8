------------------------------- MODULE MCPaywall -------------------------------
(***************************************************************************)
(* The paywall.  Its XRPL route with two invoices, one of them pinned by   *)
(* its route, and two payments, so that one can be settled while the other *)
(* is issued, expires or is replayed; the transfer verifier with three     *)
(* transactions, two of which pay the merchant, on a chain that outlives   *)
(* the replay window; and the rails between a buyer of up to two chains,   *)
(* in either order, with all credentials, some or none, and every route    *)
(* the paywall takes, or a challenge of another merchant.  Then what the   *)
(* buyer's wallet does with two calls at once, in every setup, and so its  *)
(* lifecycle, with tools that are installed meanwhile; what                *)
(* the Celo rail does beside signing: two settlements of one               *)
(* authorization, three payments of two agents, and every corridor.  And   *)
(* what the Stellar rail does: a visit of a gate, by an agent whose tier   *)
(* changes, in every setup, two settle() calls, and the choices of assets  *)
(* between three, with figures of two decimals.                            *)
(*                                                                         *)
(* They keep separate state, so a behaviour runs one of them while the     *)
(* others rest in one of their initial states.                             *)
(***************************************************************************)
EXTENDS XrplPaywall, TransferVerifier, Rails, OwsWallet, CeloRail, StellarRails

CONSTANTS i1, i2, p1, p2, t1, t2, t3, s1, s2, x1, a1, a2

MCInvoices == {i1, i2}
MCPinned == {i1}
MCPayments == {p1, p2}
MCTxs == {t1, t2, t3}
MCMatching == {t1, t2}
MCSlots == {s1, s2}
MCAuthorizations == {x1}
MCAgents == {a1, a2}
MCThresholds == <<2, 3>>
MCLifeKinds == {"createWallet", "exportRaw", "getPolicy", "backupVault", "restoreVault",
                "configureAutoBackup"}

Buyers(from, keySets, stricts, preferences) ==
    [chains : from \X ChainNames, keys : keySets, strict : stricts, preference : preferences]
MCConfigs ==
    Buyers(ChainNames, {KeyNames}, BOOLEAN, {"auto"})
    \cup Buyers({"base", "celo", "tempo"}, {KeyNames \ {"celo", "circle", "solana", "gho"}}, {FALSE},
                {"auto", "x402", "mpp"})
    \cup Buyers({"base", "flare"}, {{}, {"signer"}}, BOOLEAN, {"auto"})

Routes(takes, facilitators, schemes, others) ==
    [takes : takes, facilitator : facilitators, scheme : schemes, other : others]
Answers(headers, auths, names) == [header : headers, auth : auths, names : names]
MCMerchants ==
    Routes((SUBSET {"x402", "mpp", "morph"}) \ {{}}, BOOLEAN, {"exact"},
           Answers({"base", "celo"}, {"none"}, {"asset"}))
    \cup Routes({{"x402"}}, {TRUE}, {"exact"}, Answers({"stellar", "flare"}, {"none"}, {"asset"}))
    \cup Routes({{"flare"}, {"xrpl"}, {"morph"}}, {FALSE}, {"eip3009"},
                Answers({"none"}, {"none"}, {"asset"}))
    \cup Routes({{}}, {FALSE}, {"exact"},
                Answers({"stellar", "solana", "initia"}, {"none"}, {"asset"})
                \cup Answers({"none"}, {"stellar"}, {"asset"})
                \cup Answers({"none"}, {"none"}, {"body"})
                \cup Answers({"base", "flare"}, {"none"}, {"none"})
                \cup Answers({"base"}, {"none"}, {"circle", "gho"}))

MCTens == [n \in 0..2 |-> 10 ^ n]
MCRoutings ==
    [wanted : {"USDC", "MGUSD"}, held : SUBSET StellarAssets,
     corridor : {"us-mx", "eu-latam", "apac"}, sellers : {<<>>, <<"EURC", "USDC">>},
     convert : BOOLEAN]

\* The component that runs; the others rest.
VARIABLE running

\* One buyer and one merchant to rest with.
RailsRest ==
    /\ conf = CHOOSE c \in MCConfigs : TRUE
    /\ shop = CHOOSE m \in MCMerchants : TRUE

\* One setup to rest with.
WalletRest ==
    /\ setup = [key |-> TRUE, sdk |-> FALSE, evm |-> FALSE, faucet |-> FALSE]
    /\ gas
CeloRest == feeAdapter /\ ~file /\ ~selfId
LifeRest == tools = [sdk |-> "none", cli |-> FALSE, passphrase |-> FALSE]
KyaRest == post = (CHOOSE p \in Setups : TRUE) /\ standing = 0
AssetRest == route = NewRoute(CHOOSE r \in MCRoutings : TRUE) /\ override = TRUE

\* What rests is fixed first, or TLC would go through all its initial states.
MCInit ==
    /\ running \in {"xrpl", "verifier", "rails", "wallet", "settle", "visa", "corridor",
                   "kya", "facilitator", "asset", "lifecycle"}
    /\ IF running = "rails" THEN TRUE ELSE RailsRest
    /\ IF running = "kya" THEN TRUE ELSE KyaRest
    /\ IF running = "asset" THEN TRUE ELSE AssetRest
    /\ RailsInit
    /\ StellarInit
    /\ Init /\ VerifierInit
    /\ WalletInit
    /\ running # "wallet" => WalletRest
    /\ LifeInit
    /\ running # "lifecycle" => LifeRest
    /\ CeloInit
    /\ running \notin {"settle", "visa"} => CeloRest

paywallVars == <<vars, verifierVars, railsVars>>
buyerVars == <<walletVars, lifeVars, celoVars, stellarVars>>

MCNext ==
    /\ \/ running = "xrpl" /\ Next /\ UNCHANGED <<verifierVars, railsVars, buyerVars>>
       \/ running = "verifier" /\ VerifierNext /\ UNCHANGED <<vars, railsVars, buyerVars>>
       \/ running = "rails" /\ RailsNext /\ UNCHANGED <<vars, verifierVars, buyerVars>>
       \/ running = "wallet" /\ WalletNext /\ UNCHANGED <<paywallVars, lifeVars, celoVars, stellarVars>>
       \/ running = "settle" /\ SettleNext /\ UNCHANGED <<paywallVars, walletVars, lifeVars, stellarVars>>
       \/ running = "visa" /\ VisaNext /\ UNCHANGED <<paywallVars, walletVars, lifeVars, stellarVars>>
       \/ running = "corridor" /\ CorridorNext /\ UNCHANGED <<paywallVars, walletVars, lifeVars, stellarVars>>
       \/ /\ running = "kya" /\ KyaNext
          /\ UNCHANGED <<paywallVars, walletVars, lifeVars, celoVars>>
       \/ /\ running = "facilitator" /\ SettleCallNext
          /\ UNCHANGED <<paywallVars, walletVars, lifeVars, celoVars>>
       \/ /\ running = "asset" /\ AssetNext
          /\ UNCHANGED <<paywallVars, walletVars, lifeVars, celoVars>>
       \/ /\ running = "lifecycle" /\ LifeNext
          /\ UNCHANGED <<paywallVars, walletVars, celoVars, stellarVars>>
    /\ UNCHANGED running

MCSpec == MCInit /\ [][MCNext]_<<running, paywallVars, buyerVars>>

\* The wallet answers with transactions it sent from the account it settled on
\* (ows/wallet.ts), the Celo rail with settlements, counts and corridors that
\* are (celo/), the lifecycle with what it did, and the Stellar rail with agents,
\* settlements, routes and figures that are (stellar/): see WalletHolds,
\* LifecycleHolds, CeloHolds and StellarHolds.
WalletsHold ==
    /\ WalletHolds /\ LifecycleHolds /\ CeloHolds
    /\ running \in {"kya", "facilitator", "asset"} => StellarHolds
===============================================================================
