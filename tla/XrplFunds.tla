------------------------------ MODULE XrplFunds ------------------------------
(***************************************************************************)
(* The funds behind an XRPL payment: the vault that the treasury provides  *)
(* for itself (src/xrpl/treasury.ts with src/xrpl/vault.ts), the swap of   *)
(* XRP for RLUSD by quote and cap (src/xrpl/swap.ts, src/xrpl/utils.ts),   *)
(* and the reading of the challenge that asks for a payment                *)
(* (src/xrpl/x402-scheme.ts, src/adapters/xrpl.ts).  Every await is a step *)
(* boundary; the ledger and the market are external.  XrplBuyer follows    *)
(* the balance a pay acts on; here the balance read is the one there is.   *)
(***************************************************************************)
EXTENDS Integers, Sequences, FiniteSets
LOCAL INSTANCE Folds

CONSTANTS
    Tasks,       \* ensureLiquid and sweepExcess calls under way together
    Rescue,      \* the amounts ensureLiquid is asked for
    KeepIdle,    \* minIdleBalance
    MinXrp,      \* minXrpReserve
    CreateCost,  \* external: XRP a new vault takes from the account
    NoId,        \* no vault id
    TxHash,      \* the hash of a VaultCreate that made no vault
    Prices,      \* drops one unit of RLUSD costs on a path; 0 for no path
    Outs,        \* RLUSD a swap delivers
    Bps,         \* maxSlippageBps of a swap
    QuoteTtl,    \* QUOTE_TTL_MS, in ticks
    MostVaults, MostCash, MostXrp, MostGlitches, MostRefusals, MostCrashes, MostHours   \* bounds

ASSUME FundsAssumption ==
    /\ Rescue \cup Outs \subseteq Nat \ {0} /\ Prices \subseteq Nat
    /\ Bps \subseteq 0..5000
    /\ {KeepIdle, MinXrp, CreateCost, QuoteTtl} \subseteq Nat
    /\ IsFiniteSet(Tasks) /\ MostVaults \in Nat \ {0} /\ {MostCash, MostXrp} \subseteq Nat
    /\ {MostGlitches, MostRefusals, MostCrashes, MostHours} \subseteq Nat
    /\ NoId # TxHash /\ {NoId, TxHash} \cap Nat = {}    \* vaults are numbered as they are made

VARIABLES
    durable,     \* the store outlives the process
    autoCreate,  \* config.autoCreate
    wired,       \* config.vaultId is set: the account's first vault
    cachedId,    \* cachedVaultId
    storedId,    \* the id in the store
    holds,       \* external: what each vault of the account holds
    cash,        \* external: liquid RLUSD
    xrp,       \* external: XRP of the account
    readXrp,   \* stateCache: XRP at the last reading
    act,         \* act[k]: where call k stands
    glitches, refusals, crashes,   \* calls that threw, vaults refused, restarts
    excuses,     \* history: overlapping calls, answers lost and stores forgotten
    price,       \* external: what a unit costs on each path
    swap,        \* the swap in hand
    hour,
    network,     \* the network the adapter is configured for
    offer        \* the challenge in hand and what became of it

config == <<durable, autoCreate, wired, network>>
chain == <<holds, cash, xrp>>
bounds == <<glitches, refusals, crashes>>
vaultVars == <<cachedId, storedId, chain, readXrp, act, bounds, excuses>>
swapVars == <<price, swap, hour>>
fundsVars == <<config, vaultVars, swapVars, offer>>

-------------------------------------------------------------------------------
(* The treasury's vault.                                                   *)

Resting == [at |-> "rest", amt |-> 0, out |-> FALSE, id |-> NoId]
Resolving == {k \in Tasks : act[k].at \in {"asking", "checking", "creating", "created", "kept"}}

VaultInit ==
    /\ durable \in BOOLEAN /\ autoCreate \in BOOLEAN /\ wired \in BOOLEAN
    /\ cachedId = IF wired THEN 1 ELSE NoId
    /\ storedId = NoId
    /\ holds = IF wired THEN <<0>> ELSE << >>
    /\ cash \in 0..MostCash
    /\ xrp \in 0..MostXrp /\ readXrp = xrp
    /\ act = [k \in Tasks |-> Resting]
    /\ glitches = 0 /\ refusals = 0 /\ crashes = 0 /\ excuses = 0

Glitch == glitches < MostGlitches /\ glitches' = glitches + 1
Goes(k, stage) == act' = [act EXCEPT ![k].at = stage]
\* Counted no further than the vaults there can be.
Excuse(n) == excuses' = IF excuses + n > MostVaults THEN MostVaults ELSE excuses + n
Ends(k) == act' = [act EXCEPT ![k] = Resting]

\* ensureVault: the cached id, or else the store is asked.
EnsureVault(k, amt, out) ==
    IF cachedId # NoId
    THEN /\ act' = [act EXCEPT ![k] = [at |-> "using", amt |-> amt, out |-> out, id |-> cachedId]]
         /\ UNCHANGED excuses
    ELSE /\ act' = [act EXCEPT ![k] = [at |-> "asking", amt |-> amt, out |-> out, id |-> NoId]]
         /\ Excuse(IF Resolving # {} THEN 1 ELSE 0)

\* ensureLiquid finds less than it needs; sweepExcess more than is kept idle.
EnsureLiquid(k) ==
    /\ act[k].at = "rest"
    /\ \E need \in Rescue : cash < need /\ EnsureVault(k, need - cash, TRUE)
    /\ UNCHANGED <<cachedId, storedId, chain, readXrp, bounds>>

SweepExcess(k) ==
    /\ act[k].at = "rest"
    /\ cash > KeepIdle /\ EnsureVault(k, cash - KeepIdle, FALSE)
    /\ UNCHANGED <<cachedId, storedId, chain, readXrp, bounds>>

\* A stored id is cached and used; without one a vault is created, or not.
StoreRead(k) ==
    /\ act[k].at = "asking"
    /\ IF storedId # NoId
       THEN /\ cachedId' = storedId
            /\ act' = [act EXCEPT ![k].at = "using", ![k].id = storedId]
       ELSE /\ UNCHANGED cachedId
            /\ IF autoCreate THEN Goes(k, "checking") ELSE Ends(k)
    /\ UNCHANGED <<storedId, chain, readXrp, bounds, excuses>>

\* The reserve is checked on a reading that may be a few seconds old.
CheckReserve(k) ==
    /\ act[k].at = "checking"
    /\ \E x \in {readXrp, xrp} :
        /\ readXrp' = x
        /\ IF x < MinXrp THEN Ends(k) ELSE Goes(k, "creating")
    /\ UNCHANGED <<cachedId, storedId, chain, bounds, excuses>>

\* The ledger makes a vault.
CreateLands(k) ==
    /\ act[k].at = "creating"
    /\ xrp >= CreateCost /\ Len(holds) < MostVaults
    /\ xrp' = xrp - CreateCost
    /\ holds' = Append(holds, 0)
    /\ act' = [act EXCEPT ![k].at = "created", ![k].id = Len(holds')]
    /\ UNCHANGED <<cachedId, storedId, cash, readXrp, bounds, excuses>>

\* The ledger refuses, and createVault takes the transaction's hash for the id.
CreateRefused(k) ==
    /\ act[k].at = "creating"
    /\ refusals < MostRefusals /\ refusals' = refusals + 1
    /\ act' = [act EXCEPT ![k].at = "created", ![k].id = TxHash]
    /\ UNCHANGED <<cachedId, storedId, chain, readXrp, glitches, crashes, excuses>>

\* The store takes the id, and only then is it cached.
StoreWrite(k) ==
    /\ act[k].at = "created"
    /\ storedId' = act[k].id
    /\ Goes(k, "kept")
    /\ UNCHANGED <<cachedId, chain, readXrp, bounds, excuses>>

CacheId(k) ==
    /\ act[k].at = "kept"
    /\ cachedId' = act[k].id
    /\ Goes(k, "using")
    /\ UNCHANGED <<storedId, chain, readXrp, bounds, excuses>>

\* A request throws.  A vault whose id had not reached the store is lost sight of.
CallThrows(k) ==
    /\ act[k].at \in {"asking", "checking", "creating", "created", "using"}
    /\ Glitch
    /\ Excuse(IF act[k].at = "created" THEN 1 ELSE 0)
    /\ Ends(k)
    /\ UNCHANGED <<cachedId, storedId, chain, readXrp, refusals, crashes>>

\* The deposit or withdrawal is made, or refused: the result is not looked at.
VaultUse(k) ==
    LET v == act[k].id
        ok == v \in DOMAIN holds /\ act[k].amt <= (IF act[k].out THEN holds[v] ELSE cash)
        sum == IF act[k].out THEN -act[k].amt ELSE act[k].amt
    IN  /\ act[k].at = "using"
        /\ IF ok THEN cash' = cash - sum /\ holds' = [holds EXCEPT ![v] = @ + sum]
           ELSE UNCHANGED <<cash, holds>>
        /\ Ends(k)
        /\ UNCHANGED <<cachedId, storedId, xrp, readXrp, bounds, excuses>>

\* The process restarts: the calls and the cached id are gone, and with them a
\* store that is only memory.
Restart ==
    /\ crashes < MostCrashes /\ crashes' = crashes + 1
    /\ act' = [k \in Tasks |-> Resting]
    /\ cachedId' = IF wired THEN 1 ELSE NoId
    /\ storedId' = IF durable THEN storedId ELSE NoId
    /\ Excuse(Cardinality({k \in Tasks : act[k].at = "created"})
                + (IF storedId # storedId' THEN 1 ELSE 0))
    /\ UNCHANGED <<chain, readXrp, glitches, refusals>>

\* What the vaults hold together.
Held == MapThenFoldSet(+, 0, LAMBDA v : holds[v], LAMBDA S : CHOOSE v \in S : TRUE, DOMAIN holds)

\* external: the account pays and is paid, in RLUSD and in XRP.
AccountMoves ==
    /\ \/ cash > 0 /\ cash' = 0 /\ UNCHANGED xrp
       \/ cash + Held < MostCash /\ cash' = cash + 1 /\ UNCHANGED xrp
       \/ xrp > 0 /\ xrp' = xrp - 1 /\ UNCHANGED cash
    /\ UNCHANGED <<cachedId, storedId, holds, readXrp, act, bounds, excuses>>

VaultNext ==
    \/ \E k \in Tasks :
        \/ EnsureLiquid(k) \/ SweepExcess(k) \/ StoreRead(k) \/ CheckReserve(k)
        \/ CreateLands(k) \/ CreateRefused(k) \/ StoreWrite(k) \/ CacheId(k)
        \/ CallThrows(k) \/ VaultUse(k)
    \/ Restart \/ AccountMoves

VaultSpec == VaultInit /\ [][VaultNext /\ UNCHANGED config]_<<config, vaultVars>>

\* What getState reports on: the cached id, or else the stored one.
ReportedId == IF cachedId # NoId THEN cachedId ELSE storedId

\* A treasury makes no second vault, and what it deposited is in the vault it
\* reports and withdraws from, but for calls that overlap, an answer that was
\* lost before the store had the id, and a store that forgot it.  An id that is
\* no vault's is held only after a refused VaultCreate (treasury.ts:95-140).
VaultKept ==
    /\ Len(holds) <= 1 + (IF wired THEN 0 ELSE excuses)
    /\ excuses = 0 =>
        /\ \A v \in DOMAIN holds : holds[v] > 0 => v = ReportedId
        /\ NoId \notin {cachedId, storedId} => cachedId = storedId
    /\ refusals = 0 => ReportedId \in DOMAIN holds \cup {NoId}

-------------------------------------------------------------------------------
(* The swap.                                                               *)

NoQuote == [drops |-> 0, out |-> 0, until |-> 0]
NoSwap == [at |-> "rest", out |-> 0, bps |-> 0, quote |-> NoQuote, cap |-> 0, cost |-> 0]

SwapInit ==
    /\ price \in [1..2 -> Prices]
    /\ swap = NoSwap
    /\ hour = 0

\* What the cheapest path asks for n units, as ripple_path_find lists the paths.
Offered(n) == {price[p] * n : p \in {q \in DOMAIN price : price[q] > 0}}
Cheapest(S) == CHOOSE c \in S : \A d \in S : c <= d

\* The cap on what a swap may spend, rounded up.
PadSendMaxDrops(d, bps) == (d * (10000 + bps) + 9999) \div 10000

\* quote() on its own, or swap() without one, asks for the paths.
AskQuote ==
    /\ swap.at \in {"rest", "quoted"}
    /\ \E n \in Outs, bps \in Bps, stage \in {"pricing", "quoting"} :
        IF Offered(n) = {} THEN swap' = NoSwap
        ELSE swap' = [NoSwap EXCEPT !.at = stage, !.out = n, !.bps = bps,
                          !.quote = [drops |-> Cheapest(Offered(n)), out |-> n, until |-> 0]]
    /\ UNCHANGED <<price, hour>>

Submitted(s, n, bps) ==
    [s EXCEPT !.at = "sent", !.out = n, !.bps = bps, !.cap = PadSendMaxDrops(s.quote.drops, bps)]

\* The answer to quote() is valid from its arrival; swap() goes on with its own.
QuoteArrives ==
    /\ \/ swap.at = "pricing" /\ swap' = Submitted(swap, swap.out, swap.bps)
       \/ /\ swap.at = "quoting"
          /\ swap' = [swap EXCEPT !.at = "quoted", !.quote.until = hour + QuoteTtl]
    /\ UNCHANGED <<price, hour>>

\* swap() with a quote in hand: refused when expired, never compared with what
\* is to be delivered.
SwapQuoted ==
    /\ swap.at = "quoted"
    /\ \E n \in Outs, bps \in Bps :
        swap' = IF hour > swap.quote.until THEN NoSwap ELSE Submitted(swap, n, bps)
    /\ UNCHANGED <<price, hour>>

\* external: the whole amount for no more than the cap, or nothing.
SwapSettles ==
    /\ swap.at = "sent"
    /\ LET S == Offered(swap.out) IN
        swap' = IF S = {} THEN [swap EXCEPT !.at = "dry"]
                ELSE [swap EXCEPT !.cost = Cheapest(S),
                          !.at = IF Cheapest(S) <= swap.cap THEN "swapped" ELSE "refused"]
    /\ UNCHANGED <<price, hour>>

\* The result is returned, or thrown.
SwapEnds ==
    /\ swap.at \in {"swapped", "refused", "dry"}
    /\ swap' = NoSwap
    /\ UNCHANGED <<price, hour>>

\* external: the market moves, and time passes.
MarketMoves ==
    /\ \E p \in DOMAIN price, x \in Prices : price' = [price EXCEPT ![p] = x]
    /\ UNCHANGED <<swap, hour>>

HourPasses == hour < MostHours /\ hour' = hour + 1 /\ UNCHANGED <<price, swap>>

SwapNext ==
    \/ AskQuote \/ QuoteArrives \/ SwapQuoted \/ SwapSettles \/ SwapEnds
    \/ MarketMoves \/ HourPasses

SwapSpec == SwapInit /\ [][SwapNext]_swapVars

\* A swap of what was quoted fails only when the market asks for more than the
\* quote and the slippage, and costs at most a drop over that: "we never
\* under-fund the swap" (utils.ts:147), through a market that moves after the
\* quote and paths that run dry.
SwapWithinSlippage ==
    LET limit == swap.quote.drops * (10000 + swap.bps) IN
    swap.quote.out = swap.out =>
        /\ swap.at = "refused" => swap.cost * 10000 > limit
        /\ swap.at = "swapped" => swap.cost * 10000 < limit + 10000

-------------------------------------------------------------------------------
(* The challenge.                                                          *)

Networks == {"mainnet", "testnet"}
Offers == [net : {"xrpl:0", "xrpl:1", "xrpl:2", "elsewhere"},
           asset : {"XRP", "RLUSD", "RLUSD_HEX", "otherHex"},
           issuer : {"absent", "registered", "other"},
           whole : BOOLEAN]    \* payTo, amount, timeout, invoice and tag are given

OfferInit == network \in Networks /\ offer = [of |-> NoId, as |-> "none", by |-> NoId, in |-> "absent"]

\* parseCaip2: the development ledger counts as the test ledger.
ParseCaip2(net) == IF net = "xrpl:0" THEN "mainnet" ELSE "testnet"

\* assertRequirements, that every decoded challenge passes.
AssertRequirements(c) ==
    /\ c.whole /\ c.net # "elsewhere" /\ c.asset # "RLUSD"
    /\ c.asset # "XRP" => c.issuer # "absent"

\* detect: a sound challenge for XRP or RLUSD is this adapter's.
Detects(c) == AssertRequirements(c) /\ c.asset \in {"XRP", "RLUSD_HEX"}

\* What pay makes of a challenge.
Outcome(c) ==
    IF ~Detects(c) THEN "left"
    ELSE IF ParseCaip2(c.net) # network \/ c.asset = "XRP" THEN "refused"
    ELSE "signed"

\* The merchant's routes; line is the answer of the trust-line preflight.
Routes == [net : {"absent", "xrpl:0", "xrpl:1", "xrpl:2", "elsewhere"},
           asset : {"absent", "RLUSD", "XRP"}, line : BOOLEAN, whole : BOOLEAN]

\* buildXrplChallenge: the test ledger and RLUSD unless the route says otherwise.
Challenge(r) ==
    [net |-> IF r.net = "absent" THEN "xrpl:1" ELSE r.net,
     asset |-> IF r.asset = "XRP" THEN "XRP" ELSE "RLUSD_HEX",
     issuer |-> IF r.asset = "XRP" THEN "absent" ELSE "registered",
     whole |-> r.whole]

\* The answer to an unpaid request: an error for a network that does not parse, for
\* RLUSD without a trust line and for a challenge that does not encode.
Serves(r) ==
    /\ r.net # "elsewhere"
    /\ r.asset # "XRP" => r.line
    /\ AssertRequirements(Challenge(r))

\* pay reads the challenge of this project's merchant, or of another.  The payment
\* is in the token of the challenge's issuer.
ReadOffer ==
    \E c \in Offers, by \in Routes \cup {NoId} :
        /\ by # NoId => Serves(by) /\ c = Challenge(by)
        /\ offer' = [of |-> c, as |-> Outcome(c), by |-> by,
                     in |-> IF Outcome(c) = "signed" THEN c.issuer ELSE "absent"]

OfferSpec == OfferInit /\ [][ReadOffer /\ UNCHANGED config]_<<config, offer>>

\* A signed payment is for the ledger the adapter is on, in RLUSD of the issuer the
\* challenge names; only challenges of the development ledger are signed for
\* another than theirs.  A merchant and a buyer of this project that are on one
\* ledger and deal in RLUSD come to a payment (adapters/xrpl.ts:203,
\* middleware.ts:265, utils.ts:71).
SignedForItsLedger ==
    /\ offer.as = "signed" =>
        /\ offer.of.asset = "RLUSD_HEX" /\ offer.in = offer.of.issuer
        /\ offer.of.net = "xrpl:0" <=> network = "mainnet"
        /\ offer.of.net \in {"xrpl:0", "xrpl:1", "xrpl:2"}
    /\ offer.by # NoId =>
        (offer.as = "signed" <=>
            offer.by.asset # "XRP" /\ ParseCaip2(offer.of.net) = network /\ offer.in = "registered")

-------------------------------------------------------------------------------
FundsInit == VaultInit /\ SwapInit /\ OfferInit
===============================================================================
