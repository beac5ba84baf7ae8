------------------------------- MODULE GoatPaths -------------------------------
(***************************************************************************)
(* The acquisition paths of src/goat/paths.ts as callers of their quote()  *)
(* and execute() drive them: BalanceSheetStrategy's choice, GoatDexSwap    *)
(* with its promise mutex, BitVMBridgeClient with its intents, and the     *)
(* LayerZero path, which quotes and then always throws.  The pool, the     *)
(* chain and the hosted bridge are external.                               *)
(***************************************************************************)
EXTENDS Integers, Sequences

CONSTANTS
    Swaps,          \* calls that quote and execute a swap
    TargetOf,       \* TargetOf[s]: the USDC s is for
    Rates,          \* the USDC a unit of PegBTC may be worth
    SlippageBps,    \* maxSlippageBps
    StartPeg,       \* the wallet's PegBTC
    QuoteTtl,       \* QUOTE_TTL_MS, in ticks
    MaxPathTime,    \* bound on time
    Pegins,         \* calls of BitVMBridgeClient.execute
    IntentOf,       \* IntentOf[x]: the intent of the quote x executes
    Tampered,       \* intents without a deposit address, an amount or a recipient
    Choosers,       \* calls of the router that choose among the paths
    Partners,       \* partnerChains
    Wanted,         \* the USDC that such a call is to bring
    SwapCosts,      \* what the pool may ask for it at most
    Routers,        \* what a router may be made of
    PathSets        \* allowedPaths, of the configuration or the call

ASSUME PathsAssumption ==
    /\ TargetOf \in [Swaps -> Nat \ {0}]
    /\ Rates \subseteq Nat /\ SlippageBps \in 0..10000
    /\ {StartPeg, QuoteTtl, MaxPathTime} \subseteq Nat
    /\ DOMAIN IntentOf = Pegins
    /\ Tampered \subseteq {IntentOf[x] : x \in Pegins}
    /\ Wanted \in Nat \ {0} /\ SwapCosts \subseteq Nat
    /\ Routers \subseteq [mock : BOOLEAN, enabled : BOOLEAN, pools : BOOLEAN, signer : BOOLEAN,
                          module : BOOLEAN, tokens : SUBSET {"USDC", "PegBTC"}, override : BOOLEAN]
    /\ PathSets \subseteq SUBSET {"swap", "oft", "pegin"}

VARIABLES
    pathNow,    \* Date.now()
    rate,       \* external: the pool's price
    peg,        \* external: the wallet's PegBTC
    swaps,      \* swaps[s]: where s stands, what its sheet showed, its quote, and histories:
                \* moved, the price moved since the quote; rivalled, PegBTC went elsewhere
                \* since the sheet; reverted, its transaction did
    swapQueue,  \* GoatDexSwap.mutex: the calls chained on it
    swapBroken, \* the chain is rejected
    pegins,     \* pegins[x]: where x stands
    seenIntents,
    bridged,    \* external: bridged[i]: the bridge's state of intent i
    signatures, \* history: signatures[i]: how often a transaction was signed for i
    router,     \* what the router was made of
    wealth,     \* external: what the wallet holds on GOAT and on the partner chains
    oftModule,  \* LayerZeroOftClient.mod is there
    choices     \* choices[d]: where d stands, what it may do, its sheet, its path, and
                \* history: why, what kept it from a path that was open to it

swapVars == <<pathNow, rate, peg, swaps, swapQueue, swapBroken>>
peginVars == <<pegins, seenIntents, bridged, signatures>>
choiceVars == <<router, wealth, oftModule, choices>>
pathVars == <<swapVars, peginVars, choiceVars>>

Intents == {IntentOf[x] : x \in Pegins}
PathNames == {"swap", "oft", "pegin"}
NoQuote == [exact |-> 0, most |-> 0, least |-> 0, until |-> 0]

Quotes == [exact : Nat, most : Nat, least : Nat, until : Nat]
SwapCalls ==
    [at : {"idle", "sheet", "quoted", "queued", "signing", "sent", "receipt", "threw"},
     held : Nat, quote : Quotes, moved : BOOLEAN, rivalled : BOOLEAN, reverted : BOOLEAN]
ChoiceCalls ==
    [at : {"idle", "reading", "swap", "oft", "chosen", "refused", "quoted", "receipt", "nopath",
           "threw"},
     allowed : PathSets \cup {{}}, dry : BOOLEAN, peg : Nat, usdc : [Partners -> Nat],
     path : PathNames \cup {"none"}, why : SUBSET {"read", "price"}]

SwapTypeOK ==
    /\ pathNow \in 0..MaxPathTime /\ rate \in Rates /\ peg \in 0..StartPeg
    /\ swaps \in [Swaps -> SwapCalls]
    /\ swapQueue \in Seq(Swaps) /\ swapBroken \in BOOLEAN

PeginTypeOK ==
    /\ pegins \in [Pegins -> {"idle", "quoted", "signing", "signed", "polling", "receipt", "threw"}]
    /\ seenIntents \subseteq Intents
    /\ bridged \in [Intents -> {"none", "pending", "minted", "failed"}]
    /\ signatures \in [Intents -> Nat]

ChoiceTypeOK ==
    /\ router \in Routers
    /\ wealth \in [peg : Nat, usdc : [Partners -> Nat]] /\ oftModule \in BOOLEAN
    /\ choices \in [Choosers -> ChoiceCalls]

\* One type invariant.
PathsTypeOK == SwapTypeOK /\ PeginTypeOK /\ ChoiceTypeOK

SwapInit ==
    /\ pathNow = 0 /\ rate \in Rates /\ peg = StartPeg
    /\ swaps = [s \in Swaps |-> [at |-> "idle", held |-> 0, quote |-> NoQuote, moved |-> FALSE,
                                 rivalled |-> FALSE, reverted |-> FALSE]]
    /\ swapQueue = << >> /\ swapBroken = FALSE

PeginInit ==
    /\ pegins = [x \in Pegins |-> "idle"] /\ seenIntents = {}
    /\ bridged = [i \in Intents |-> "none"] /\ signatures = [i \in Intents |-> 0]

-------------------------------------------------------------------------------
(* Choosing and quoting a swap.                                            *)

GoSwap(s, at) == swaps' = [swaps EXCEPT ![s].at = at]

\* The balance sheet; a read that fails counts as nothing held.
ReadSheet(s) ==
    /\ swaps[s].at = "idle"
    /\ \E held \in {peg, 0} :
          swaps' = [swaps EXCEPT ![s].at = IF held > 0 THEN "sheet" ELSE "threw", ![s].held = held,
                                  ![s].rivalled = FALSE]
    /\ UNCHANGED <<pathNow, rate, peg, swapQueue, swapBroken>>

\* The pool is probed with the target itself for its price; an empty pool is no path.
\* The amount that the probe suggests is exact, and most allows for slippage.
SwapQuote(target, probe) ==
    LET exact == (target * target) \div probe
    IN  [exact |-> exact,
         most |-> (exact * (10000 + SlippageBps)) \div 10000,
         least |-> (target * (10000 - SlippageBps)) \div 10000,
         until |-> pathNow + QuoteTtl]

\* The swap is chosen if the sheet covers what the quote may take at most; the
\* other paths are not to be had.
QuoteSwap(s) ==
    LET probe == TargetOf[s] * rate
        quote == SwapQuote(TargetOf[s], probe)
    IN  /\ swaps[s].at = "sheet"
        /\ IF probe # 0 /\ swaps[s].held >= quote.most
           THEN swaps' = [swaps EXCEPT ![s].at = "quoted", ![s].quote = quote, ![s].moved = FALSE]
           ELSE GoSwap(s, "threw")
        /\ UNCHANGED <<pathNow, rate, peg, swapQueue, swapBroken>>

-------------------------------------------------------------------------------
(* GoatDexSwap.execute.                                                    *)

\* An expired quote is refused; a fresh one waits for the swaps before it.
ExecuteSwap(s) ==
    /\ swaps[s].at = "quoted"
    /\ IF pathNow > swaps[s].quote.until
       THEN GoSwap(s, "threw") /\ UNCHANGED swapQueue
       ELSE GoSwap(s, "queued") /\ swapQueue' = Append(swapQueue, s)
    /\ UNCHANGED <<pathNow, rate, peg, swapBroken>>

FirstSwap(s) == swapQueue # << >> /\ Head(swapQueue) = s

\* A slip the code avoids: a swap that does not wait for its turn.
Bug_BeginSwapAtOnce(s) ==
    /\ swaps[s].at = "queued" /\ ~swapBroken
    /\ GoSwap(s, "signing")
    /\ UNCHANGED <<pathNow, rate, peg, swapQueue, swapBroken>>

\* Its turn: the address is asked for, and the call is encoded.
BeginSwap(s) ==
    /\ swaps[s].at = "queued" /\ FirstSwap(s) /\ ~swapBroken
    /\ GoSwap(s, "signing")
    /\ UNCHANGED <<pathNow, rate, peg, swapQueue, swapBroken>>

\* The wallet sends it.
SendSwap(s) ==
    /\ swaps[s].at = "signing"
    /\ GoSwap(s, "sent")
    /\ UNCHANGED <<pathNow, rate, peg, swapQueue, swapBroken>>

\* A swap that cannot be signed or sent, and every one chained behind it.
SwapThrows(s) ==
    /\ \/ swaps[s].at = "signing"
       \/ swaps[s].at = "queued" /\ FirstSwap(s) /\ swapBroken
    /\ GoSwap(s, "threw")
    /\ swapQueue' = Tail(swapQueue) /\ swapBroken' = TRUE
    /\ UNCHANGED <<pathNow, rate, peg>>

\* External: the router takes the exact amount if the pool still gives the
\* least, or reverts.  The wallet waits for the receipt and does not look at
\* its status: execute() answers the quote's amounts either way.
MineSwap(s) ==
    LET q == swaps[s].quote
        done == peg >= q.exact /\ q.exact * rate >= q.least
    IN  /\ swaps[s].at = "sent"
        /\ peg' = IF done THEN peg - q.exact ELSE peg
        /\ swaps' = [o \in Swaps |->
              IF o = s THEN [swaps[s] EXCEPT !.at = "receipt", !.reverted = ~done]
              ELSE [swaps[o] EXCEPT !.rivalled = @ \/ done]]
        /\ swapQueue' = Tail(swapQueue)
        /\ UNCHANGED <<pathNow, rate, swapBroken>>

\* External: the price moves, time passes.
MoveRate ==
    /\ rate' \in Rates \ {rate}
    /\ swaps' = [s \in Swaps |-> [swaps[s] EXCEPT !.moved = TRUE]]
    /\ UNCHANGED <<pathNow, peg, swapQueue, swapBroken>>

PathTick ==
    /\ pathNow < MaxPathTime
    /\ pathNow' = pathNow + 1
    /\ UNCHANGED <<rate, peg, swaps, swapQueue, swapBroken>>

SwapNext ==
    \/ \E s \in Swaps :
        \/ ReadSheet(s) \/ QuoteSwap(s) \/ ExecuteSwap(s) \/ BeginSwap(s) \/ SendSwap(s)
        \/ SwapThrows(s) \/ MineSwap(s)
    \/ MoveRate \/ PathTick

-------------------------------------------------------------------------------
(* BitVMBridgeClient.execute.                                              *)

GoPegin(x, at) == pegins' = [pegins EXCEPT ![x] = at]

\* quote(): the bridge is asked for an intent; an answer that is not heard or
\* lacks a field throws.
QuotePegin(x) ==
    /\ pegins[x] = "idle"
    /\ \E at \in {"quoted", "threw"} : GoPegin(x, at)
    /\ UNCHANGED <<seenIntents, bridged, signatures>>

\* An expired intent is refused, and so is one seen before; it is marked at
\* once, whatever becomes of it.
StartPegin(x) ==
    /\ pegins[x] = "quoted"
    /\ \E expired \in BOOLEAN :
          IF expired \/ IntentOf[x] \in seenIntents
          THEN GoPegin(x, "threw") /\ UNCHANGED seenIntents
          ELSE GoPegin(x, "signing") /\ seenIntents' = seenIntents \cup {IntentOf[x]}
    /\ UNCHANGED <<bridged, signatures>>

\* All that is validated: an address, an amount and a recipient are there.
OutputsMatchIntent(i) == i \notin Tampered

\* The caller's signer throws, or signs, and then the intent is validated.
SignPegin(x) ==
    LET i == IntentOf[x]
    IN  /\ pegins[x] = "signing"
        /\ \/ /\ GoPegin(x, IF OutputsMatchIntent(i) THEN "signed" ELSE "threw")
              /\ signatures' = [signatures EXCEPT ![i] = @ + 1]
           \/ GoPegin(x, "threw") /\ UNCHANGED signatures
        /\ UNCHANGED <<seenIntents, bridged>>

\* The transaction is handed to the bridge; an answer that is not heard throws.
BroadcastPegin(x) ==
    /\ pegins[x] = "signed"
    /\ \/ /\ bridged' = [bridged EXCEPT ![IntentOf[x]] = IF @ = "none" THEN "pending" ELSE @]
          /\ \E at \in {"polling", "threw"} : GoPegin(x, at)
       \/ GoPegin(x, "threw") /\ UNCHANGED bridged
    /\ UNCHANGED <<seenIntents, signatures>>

\* The status is polled: minted is a receipt, failed or expired throws, and so
\* do a lost answer, an abort, and GOAT_BRIDGE_TIMEOUT while it is pending.
PollPegin(x) ==
    /\ pegins[x] = "polling"
    /\ \/ GoPegin(x, "threw")
       \/ bridged[IntentOf[x]] = "minted" /\ GoPegin(x, "receipt")
    /\ UNCHANGED <<seenIntents, bridged, signatures>>

\* External: the bridge mints PegBTC, or fails.
MintPegin(i) ==
    /\ bridged[i] = "pending"
    /\ \E is \in {"minted", "failed"} : bridged' = [bridged EXCEPT ![i] = is]
    /\ UNCHANGED <<pegins, seenIntents, signatures>>

PeginNext ==
    \/ \E x \in Pegins :
        QuotePegin(x) \/ StartPegin(x) \/ SignPegin(x) \/ BroadcastPegin(x) \/ PollPegin(x)
    \/ \E i \in Intents : MintPegin(i)

-------------------------------------------------------------------------------
(* The router's choice: BalanceSheetStrategy over the adapters it was made *)
(* with.  Calls are served one at a time.                                  *)

\* GoatTokens: the override comes before the table.
Resolves(token) == token \in router.tokens \/ (token = "USDC" /\ router.override)

\* available() of the three adapters; the mocks always are.
Available(path) ==
    \/ router.mock
    \/ path = "swap" /\ router.pools /\ Resolves("USDC") /\ Resolves("PegBTC")
    \/ path = "oft" /\ Resolves("USDC")
    \/ path = "pegin" /\ router.signer /\ Resolves("PegBTC")

Eligible(d, path) == path \in choices[d].allowed /\ Available(path)

ChoiceInit ==
    /\ router \in Routers
    /\ wealth \in [peg : {0, 2 * Wanted}, usdc : [Partners -> {0, Wanted}]]
    /\ oftModule = FALSE
    /\ choices = [d \in Choosers |->
          [at |-> "idle", allowed |-> {}, dry |-> FALSE, peg |-> 0,
           usdc |-> [p \in Partners |-> 0], path |-> "none", why |-> {}]]

GoChoice(d, at) == choices' = [choices EXCEPT ![d].at = at]
Chooses(d, path) == choices' = [choices EXCEPT ![d].at = "chosen", ![d].path = path]

Serving == \E o \in Choosers : choices[o].at \in {"reading", "swap", "oft", "chosen"}

\* The mutex is a chain of promises: a call that rejected rejects the later ones.
Rejected == \E o \in Choosers : choices[o].at \in {"nopath", "threw"}

\* estimate() is dry and asks even a router that is not enabled; acquire() of
\* such a router is refused.
AskRouter(d) ==
    /\ choices[d].at = "idle" /\ ~Serving
    /\ \E allowed \in PathSets, dry \in BOOLEAN :
          choices' = [choices EXCEPT
              ![d].at = IF ~router.enabled /\ ~dry THEN "refused"
                        ELSE IF Rejected THEN "threw" ELSE "reading",
              ![d].allowed = allowed, ![d].dry = dry]
    /\ UNCHANGED <<router, wealth, oftModule>>

\* lazyReadKeys: PegBTC is asked for with the USDC, partner chains for the
\* LayerZero path alone.
WantsPartners(d) == "oft" \in choices[d].allowed

\* PegBTC is read whether or not swaps are allowed, partner chains only for the
\* LayerZero path, bitcoin never.  A read that fails counts as nothing held.
ReadColumns(d) ==
    /\ choices[d].at = "reading"
    /\ \E failed \in SUBSET (Partners \cup {"peg"}) :
          LET seen(p) == IF WantsPartners(d) /\ p \notin failed THEN wealth.usdc[p] ELSE 0
          IN  choices' = [choices EXCEPT
                  ![d].at = "swap",
                  ![d].peg = IF "peg" \in failed \/ ~Resolves("PegBTC") THEN 0 ELSE wealth.peg,
                  ![d].usdc = [p \in Partners |-> seen(p)],
                  ![d].why = IF failed = {} THEN {} ELSE {"read"}]
    /\ UNCHANGED <<router, wealth, oftModule>>

\* First the swap: a pool that is dry or does not answer ends the call, a price
\* the sheet does not cover sends it on.
TrySwap(d) ==
    /\ choices[d].at = "swap"
    /\ IF Eligible(d, "swap") /\ choices[d].peg > 0
       THEN \/ ~router.mock /\ GoChoice(d, "threw")
            \/ \E cost \in SwapCosts :
                  IF choices[d].peg >= cost
                  THEN Chooses(d, "swap")
                  ELSE choices' = [choices EXCEPT ![d].at = "oft", ![d].why = @ \cup {"price"}]
       ELSE GoChoice(d, "oft")
    /\ UNCHANGED <<router, wealth, oftModule>>

\* The LayerZero client quotes its whole fee budget, once its module is loaded.
OftQuotes == router.mock \/ oftModule \/ router.module

\* Then the LayerZero path, if some partner chain holds enough; a missing peer
\* dependency throws.  Pegins come last, and ask for bitcoin nobody read.
TryOft(d) ==
    /\ choices[d].at = "oft"
    /\ IF Eligible(d, "oft") /\ \E p \in Partners : choices[d].usdc[p] >= Wanted
       THEN IF OftQuotes
            THEN Chooses(d, "oft") /\ oftModule' = (oftModule \/ ~router.mock)
            ELSE GoChoice(d, "threw") /\ UNCHANGED oftModule
       ELSE GoChoice(d, "nopath") /\ UNCHANGED oftModule
    /\ UNCHANGED <<router, wealth>>

\* Every mock answers a receipt, whatever it is asked for.
MockAnswers == router.mock

\* A dry run answers its quote.  A swap answers a receipt or throws; the
\* LayerZero path always throws: it is not wired.
ExecuteChoice(d) ==
    /\ choices[d].at = "chosen"
    /\ IF choices[d].dry THEN GoChoice(d, "quoted")
       ELSE \/ (MockAnswers \/ choices[d].path = "swap") /\ GoChoice(d, "receipt")
            \/ ~MockAnswers /\ GoChoice(d, "threw")
    /\ UNCHANGED <<router, wealth, oftModule>>

ChoiceNext ==
    \E d \in Choosers :
        AskRouter(d) \/ ReadColumns(d) \/ TrySwap(d) \/ TryOft(d) \/ ExecuteChoice(d)

-------------------------------------------------------------------------------
(* The three keep separate state and do not wait for one another.          *)

SwapSpec == SwapInit /\ [][SwapNext]_swapVars
PeginSpec == PeginInit /\ [][PeginNext]_peginVars
ChoiceSpec == ChoiceInit /\ [][ChoiceNext]_choiceVars
PathsSpec == SwapSpec /\ PeginSpec /\ ChoiceSpec

-------------------------------------------------------------------------------
(* Properties.                                                             *)

\* The wallet has money for a path.
Funded(path) ==
    \/ path = "swap" /\ wealth.peg > 0 /\ Resolves("PegBTC")
    \/ path = "oft" /\ \E p \in Partners : wealth.usdc[p] >= Wanted

\* Swaps of a wallet are signed and mined one at a time, in the order of
\* execute().
OneSwapAtATime == \A s \in Swaps : swaps[s].at \in {"signing", "sent"} => FirstSwap(s)

\* A swap whose receipt hides a revert was overtaken, by the price or by
\* another swap, or its amount rounds down by more than the slippage it allows.
RevertsExplained ==
    \A s \in Swaps : swaps[s].reverted =>
        \/ swaps[s].moved \/ swaps[s].rivalled
        \/ (TargetOf[s] % rate) * 10000 > TargetOf[s] * SlippageBps

\* However often the quote of an intent is executed, its bitcoin is signed away
\* once, a tampered one never reaches the bridge, and a receipt means that the
\* bridge minted.
SignedOncePerIntent ==
    /\ \A i \in Intents : signatures[i] <= 1
    /\ \A i \in Tampered : bridged[i] = "none"
    /\ \A x \in Pegins : pegins[x] = "receipt" => bridged[IntentOf[x]] = "minted"

\* The router takes a path only if it was allowed, its tokens are known and the
\* wallet holds its money.  It reports that there is none only if the wallet
\* has no money on a path open to it, a read failed or the pool asks for too
\* much.  Without mocks a receipt is a swap's, and no call of a router that is
\* not enabled leaves more than a quote.
ChoiceExplained ==
    \A d \in Choosers :
        LET c == choices[d]
        IN  /\ c.path # "none" => /\ c.path \in c.allowed /\ Funded(c.path)
                                  /\ router.mock \/ Resolves("USDC")
            /\ c.at = "nopath" =>
                  \/ c.why # {}
                  \/ \A path \in c.allowed : Available(path) => ~Funded(path)
            /\ c.at = "receipt" => router.enabled /\ (router.mock \/ c.path = "swap")

PathsHold == ChoiceExplained /\ OneSwapAtATime /\ RevertsExplained /\ SignedOncePerIntent
===============================================================================
