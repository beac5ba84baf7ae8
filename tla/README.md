# Formal models of n-payment

n-payment is a TypeScript library that lets an agent pay for HTTP resources
(x402 and its relatives) over many rails, and lets a server charge for them. Its
own logic is small and asynchronous: a policy that bounds spending, a client that
answers 402 challenges, paywalls that check payments, queues and caches that sit
between the two, and long-running work against chains it does not control. Almost
every method is cut by an `await`, several calls of one object run at once, and
what was checked before the `await` is acted on after it. That is what these
TLA+ modules are about.

Contents: [the system](#1-the-system), [the modules](#2-the-modules),
[the runs](#3-the-runs), [fairness](#4-fairness), [the proofs](#5-the-proofs),
[what the code does not promise](#6-what-the-code-does-not-promise),
[what is left out](#7-what-is-left-out), [the plan](#8-the-plan).

To check everything: `tlc -workers 2 -config X.cfg MCM.tla` for a row of the table
in section 3, `tlapm M.tla` for a module of section 5.

## 1. The system

JavaScript is single-threaded: the code between two awaits runs without
interruption, and everything else that is alive (other calls, timers, the chain,
the network) may run at an `await`. In the modules one action is one such stretch
of code. What is outside the process (ledgers, facilitators, gateways) is marked
external in the modules.

| Component | State it keeps | Operations | Talks to | What makes it hard | What makes it correct |
|---|---|---|---|---|---|
| Policy engine, audit log, guard (`policy/`) | hourly and daily spend, byte counters, request window; audit entries | `check`, `checkBandwidth`, `record`, `recordBandwidth` | called by the client, synchronous | ask, pay, record are three calls with awaits between them; windows roll lazily | caps passed only by what was already admitted; the counters agree with the log |
| `PaymentClient` (`client.ts`) | adapters; the guard; nothing per call | construction, `fetchWithPayment` | adapters, SpaceRouter proxy | overlapping calls; the price is known only after the check; lists whose order decides | bounded overshoot; what is paid is logged; a challenge meets the adapter made for it |
| Rails: detection, adapters, paywall order (`detect.ts`, `adapters/`, `middleware.ts`) | none | detect, pay, retry, answer | merchant | two orders of tests, one on each side | nobody gives what is not asked, nobody is served for nothing |
| GOAT acquisition router (`goat/acquisition.ts`) | promise mutex, idempotency cache, acquisition log | `acquire`, `estimate` | paths, chain, audit log | a queue of promises, late funds, failing runs | exact caps, no overfill, one execution per key, everyone is answered |
| GOAT paths (`goat/paths.ts`) | swap mutex, seen intents, loaded module | `quote`, `execute` | pool, bridge | a quote grows old in the queue; signed before validated | one swap at a time, an intent once, a path only with its money |
| Initia corridor (`initia/`) | none | `ensureIusd`, `pay` | Skip, LayerZero, chain | overlapping calls see the same balance | nothing is sent that has not arrived |
| SpaceRouter receipts (`spacerouter/gateway.ts`) | buffer, in-flight mark, timer | `enqueue`, `flush`, `close` | gateway | flushes fail and overlap with enqueues | receipts arrive, in order, none lost |
| SpaceRouter client and escrow (`spacerouter/client.ts`, `escrow.ts`) | lazily made scheduler and SDK | `fetch`, `close`, `deposit`, withdrawals | scheduler, escrow contract | overlapping first fetches, transactions not yet mined | every receipt is reachable, deposits and withdrawals land |
| Paywall, XRPL route (`middleware.ts`) | invoices | challenge, settle | facilitator | two awaits between the test of an invoice and its mark; lost answers; restarts | a payment is served once, and only if it landed |
| Paywall, RLUSD and NTT transfers (`middleware.ts`) | consumed hashes | verify | chain | same, with an age limit instead of an expiry | same, within the replay window |
| Wallet (`ows/`, `transactor.ts`, `faucet.ts`) | driver being loaded, account | address, sign, send | driver, node | calls before the driver is known; nonces | one account per wallet; an answer is a transaction that was sent |
| Celo rail (`celo/`) | visa counts | settle, record, corridor | chain, store | read, await, write | a payment is counted once |
| Stellar sessions (`stellar/session.ts`) | totals on both sides, latest signature | sign, verify, close | channel contract | vouchers lost, repeated, overtaken; overlapping calls | vouchers add up; the close pays what was signed |
| Stellar gate, facilitator client, assets (`stellar/`) | loaded SDK, warned symbols | gate, settle, route, parse | oracle, facilitator | a credential that grows old on its way; timeouts | who is admitted was entitled; a success happened |
| Trustless Work escrow (`stellar/escrow-manager.ts`) | job status, milestones | fund, submit, approve and release, dispute, resolve | escrow contract | status tested before and assigned after awaits; half-done release | never ahead of the contract; released means paid |
| Off-ramp (`offramp/`) | anchor registry with shared descriptors | `initiate`, `quote`, `b2bPayout` | anchors | descriptors read, awaited, written; timeouts | a handle stands for a withdrawal the anchor made |
| XRPL trust line (`xrpl/payments.ts`) | answer cache, shared works | `ensureTrustline` | ledger | callers with different rights share one work | ok means there is a line; it is made once |
| XRPL buyer (`adapters/xrpl.ts`, `xrpl/`) | per-address promise chain, balance cache, sweep timer, vault id | `pay`, `ensureLiquid`, `sweepExcess`, `ensureVault`, swap | ledger, vault, store, merchant | stale balances, failed rescues, restarts between creation and record | swaps buy the shortage; the queue moves; one vault |
| Morph facilitator and its buyer (`morph/`, `adapters/morph-x402.ts`) | set of seen nonces | `/v2/verify`, `/v2/settle`, `pay` | chain | awaits between test and mark; two timeouts of different length | success means charged; a nonce is not blocked for nothing |
| Flare: gasless, bridge, x402 (`flare/`) | per-wallet queue | relay, mint, redeem, poll, settle | forwarder, asset manager, XRPL | one nonce signed by two calls; lost answers | a report is true; the sponsor pays for nothing stale |
| Agent: provider, sessions, escrow, delegation (`agent/`) | budgets, jobs | charge, run, complete, reject, split | wallet | charge before a handler that may throw; overlapping verdicts | budgets hold; the status is the contract's |
| Settlement, AP2 mandates (`settlement/`, `ap2/`) | in-memory ledgers | vouchers, streams, mandates | none | sequences nobody wrote a test for | nothing is spent or refunded twice |
| Allocation vault (`contracts/`, `vault/`) | shares, protocol balances | deposit, withdraw, rebalance, pay | Morpho, Aave, Pendle | accounting across protocols | shares keep their value |
| Research (`research/`) | none | read, check the causal graph, score, advise | protocols | ratios of zero; repeated ids and edges | a score and an action follow from the position; a graph with a cycle is refused |
| Wormhole, discovery, analytics, chain tables | tables and thin wrappers | | | | |

`PROJECT.json` lists every part with its files and status, and under "hazards" the
places, line by line, where the code is hard to test.

**How the parts meet.** `fetchWithPayment` asks the guard, sends the request,
reads the challenge and hands it to an adapter (`Rails` is that choice, on both
sides of the request). The XRPL adapter is such an adapter (`XrplBuyer`), which
first runs the trust-line preflight (`XrplTrustline`), lives on a vault and a swap
(`XrplFunds`), and whose payment ends at a paywall (`XrplPaywall`) through a
facilitator; the Morph and Flare adapters end at a facilitator (`MorphFacilitator`),
a relay (`GaslessRelay`) or the paywall's Flare branch (`FlareX402`). The
acquisition router writes to the audit log the guard reads and drives the paths
(`GoatPaths`). The SpaceRouter client owns the receipt scheduler. The paywalls share
no state with each other, except the two transfer verifiers, which share the set of
consumed hashes.

## 2. The modules

Sizes are in the number of concurrent actors ("slots"): a slot is one call under
way, with the point it has reached as its state.

| Module | Models | State to code |
|---|---|---|
| `AuditLog` | `AuditLog` of `policy/index.ts` | a total per tick instead of a list of entries; `SpentSince` is `getSpent` over the last hour or day, `AcquisitionAllows` is `checkAcquisition` |
| `PolicyEngine` | `PolicyEngine.evaluate` and its rules | one record with the private fields, the request window as the number of requests at each tick it holds; `Evaluated` is the state after a call, `Allows` its answer, in the order of the rules, so a refused call may already have taken a rate slot |
| `SpendingGuard` | the guard used directly | `Check`, `CheckBandwidth`, `RecordPayment`, `RecordBandwidth`; `Abandon` is work that failed and is never recorded; `config` is a `PolicyConfig`, whose rules `HasRule` and `Limit` are `fromConfig` |
| `PaymentClient` | `fetchWithPayment` | `call[c]` is where the call stands; `Start` is the check and the first request, `Paywalled` the 402, `Resolves`/`OverCap`/`AdapterThrows` the three ends of `adapter.pay()`, `Fallback` the SpaceRouter fallback |
| `AcquisitionRouter` | `acquire`, `estimate` | `mutex` is the queue of `this.mutex.then(...)` callbacks, `poisoned` a rejected chain with the call that broke it, `transit` funds that have not landed |
| `GoatPaths` | the paths of the router | `swapQueue` is `GoatDexSwap.mutex`, `pegins` the intents under execution, `choices` the calls of `BalanceSheetStrategy` over whatever the router was made of (`router`) |
| `IusdCorridor` | the Initia adapter and orchestrator | `transfers[c]` a pay under way, `flying` routes that have not landed |
| `ReceiptScheduler` | the scheduler | `buffer`, `batch` (taken by the flush under way), `flushing`, `closing` |
| `SpaceRouterClient` | client with `deposit()`, and the withdrawal calls as a part of their own | `scheduler` is `scheduler_lazy`, `buffers` the buffers of all schedulers made, `pool` transactions in nonce order |
| `Rails` | which adapter a client has, which it takes, what it gives away, what the paywall answers | configuration, challenge and route are records of facts; one round trip per behaviour step |
| `OwsWallet` | `ows/wallet.ts`, its driver, the key, the faucet; and `ows/lifecycle.ts` | `wops[o]` a call under way, the chain's nonces; `life[l]` a lifecycle call, `sdk` the one import |
| `CeloRail` | settlement, visa tracker, Mento corridors | `settling`, `recording` calls, `store` and `file` the two storages |
| `StellarRails` | KYA gate, facilitator client, asset router, figures, issuers | a visit, two `settle()` calls, one choice at a time; what a buyer is told to fund is a set, so the order that `dedupe()` keeps is not in it |
| `PaidAccess` | abstract: what every paywall promises | a payment lands once, and opens the resource once and only then |
| `XrplPaywall` | the XRPL route | `invoices` with expiry and `consumed`; `Admit`, `Verified`, `Settle`, `Serve`, `Refuse` are the stretches of `settleXrplPayment` |
| `TransferVerifier` | `verifyExactRlusdPayment`, `verifyWormholeNttPayment` | `consumed` is `idempotencyCache`; `Receipt`, `Accept`, `RefuseProof` |
| `StellarSession` | client and server of a channel | `cumulative`, `vouchers` (the network, which never forgets), `highest`, `signature`, `closing` |
| `TrustlessEscrow` | one job | `status`, `milestones`, and the contract's own record |
| `XrplTrustline` | `ensureTrustline` for one line | `known` the cache, `lock` the shared work, `looseSets` transactions nobody waits for |
| `XrplFunds` | `ensureVault` and the store, the swap by quote and cap, the reading of a challenge | `act[k]` a treasury call under way |
| `XrplBuyer` | `pay`, cache, treasury, swap | `tail` the promise chain, `run[p]` the pay's stretch, `timer` the debounced sweep |
| `MorphFacilitator` | the two routes; and a buyer who calls one, with the timeouts of both | `seen` is `seenNonces`; `loose` are transactions nobody waits for; `posts` the buyer's attempts |
| `GaslessRelay` | `flare/gasless.ts`: pays, executor, forwarder | pays that sign one nonce, jobs of the executor |
| `FlareBridge` | mint queue, redemption, poll | `mintXRP` calls on the promise chain of a wallet, drawn XRPL sequences |
| `FlareX402` | the Flare branch of buyer and paywall | deliveries of one retry, authorizations on the token |
| `AgentProvider` | tools, sessions, surge price | `toolCalls` charged and running, sessions with budget and expiry; `demand` is the window of a `DemandStrategy`, as the number of demands it holds of each instant |
| `AgentEscrow` | jobs and verdicts | status beside what the contract did |
| `AgentBudgets` | delegation, settlement and mandates: three synchronous ledgers | their maps, one step per call |
| `AnchorOfframp` | calls at SEP-10/24/31/38 anchors | registry, shared descriptors, what each anchor made; the candidates of a call are places in the registry, since anchors are only ever added at its end |
| `AllocationVault` | the Solidity vault, the strategy engine, the bridge | cash, positions, shares; a transaction is one step |
| `LendingResearch` | registry, five adapters, score, action, graph check | `audit` is what was asked, read and reported; `sorting` holds the variables of `assertAcyclic()`, whose loop is one step for each turn (nothing else runs between two turns, and nothing else reads them); its queue is a set, since what is counted does not depend on its order |
| `*Proofs`, `DataLemmas` | theorems (section 5), and the facts on sums and queues they share | |
| `MC*` | instances for TLC (section 3) | |

Conventions. Time is a number of ticks with a bound. A variable commented
"history" is not in the code: it remembers something for a property, and no guard
reads it. A variable or action commented "external" is a chain, a facilitator or
the network. A definition `Bug_X...` next to `X` is a slip a maintainer could make
in `X`; nothing uses it, except to check that the properties would notice.

## 3. The runs

An MC module puts the components of one subsystem in one model. Unless said
otherwise they share no variable, and a behaviour runs one of them (the variable
`running`) while the others rest in an initial state, so the states are the sum and
not the product. Where a run checks one property over several components, that
property is the conjunction of a named property of each.

| Run | Module, cfg | States | Checks |
|---|---|---|---|
| spending | `MCSpending`, `Spending.cfg` | 0.25 M | `OvershootBounded`, `LedgerTracksMoney`, `GuardHolds` (= `SummaryCoversWindow`, `RateLimited`, `GuardOvershootBounded`, `ConfiguredLimitsHold`), `TypesOK` |
| acquisition | `MCAcquisitionRouter`, `AcquisitionRouter.cfg` | 0.45 M | `AcquisitionHolds` (= `AcquisitionCapsExact`, `NeverOverfills`), `OneExecutionPerKey`, `EveryAcquireSettles` (liveness), `PathsHold` (= `OneSwapAtATime`, `RevertsExplained`, `SignedOncePerIntent`, `ChoiceExplained`), `CorridorHolds` (= `NoBlindSend`, `ProofMeansPaid`), `TypesOK` |
| spacerouter | `MCSpaceRouter`, `SpaceRouter.cfg` | 0.2 M | `PendingInOrder`, `EveryReceiptSettles` (liveness), `NoReceiptLost` (= `ReceiptsAccountedFor`, `CloseReachesReceipts`), `EscrowHolds` (= `DepositsLand`, `WithdrawalsLand`) |
| paywall | `MCPaywall`, `Paywall.cfg` | 1.2 M | `ServesWhatIsPaid` (refinement of `PaidAccess`), `ChargedIsNotConsumed`, `AcceptedOnce`, `ReplayWindowClosed`, `RailsHold`, `WalletsHold` (= `WalletHolds`, `LifecycleHolds`, `CeloHolds`, `StellarHolds`) |
| sessions | `MCSessions`, `Sessions.cfg` | 1.18 M | `ServedOnce`, `ClosePaysSigned`, `VouchersAddUp`, `ReleasedMeansPaid`, `OutcomesStick`, `VerdictIsTheContracts`, `BudgetsHold` (= `BudgetsNest`, `StreamsBalance`, `AcceptedStaysCovered`, `SessionsBalance`, `VaultHolds`), `AuditHolds` (= `KahnIsRight`, `ReportHolds`), `AnchorHolds`, `TypesOK` |
| xrpl | `MCXrpl`, `Xrpl.cfg` | 0.65 M | `UncoveredOnlyByDebit`, `SwapsOnlyShortage`, `QueueMoves` (liveness), `FundsHold` (the trust line's `OkMeansLine` and `TrustSetOnce`, and `XrplFunds`) |
| facilitator | `MCFacilitators`, `Facilitators.cfg` | 1.7 M | `SuccessMeansCharged` (refinement of `PaidAccess`), `MorphHolds` (= `SeenIsBacked`, `FailedMeansUnpaid`, `BuyerPaysOnce`), `RelayKeepsItsWord`, `BridgeHolds`, `FlareServesOnce`, `TypesOK` |
| client_cap | `MCSpending`, `Spending_cap.cfg` | violation | `NothingSignedOverCap`, what the README says of the policy |
| acquisition_poison | `MCAcquisitionRouter`, `AcquisitionRouter_poison.cfg` | violation | `OwnFailuresOnly`, what the doc comment of `acquire` says |
| corridor_fee | `MCAcquisitionRouter`, `IusdCorridor_fee.cfg` | violation | `BridgesWhatIsRequired`, what the doc comment of `ensureIusd` says |
| receipts_close | `MCSpaceRouter`, `SpaceRouter_close.cfg` | violation | `CloseFlushesAll`, what the doc comment of `close` says |
| celo_rail | `MCPaywall`, `Rails_celo.cfg` | violation | `CeloWins`, what a comment of the client's constructor says |

Each property has a mutant under "mutants" in `PROJECT.json`: a definition of the
model changed the way a slip in that code would change it, for which TLC finds the
property violated.

**What the runs show, and why the bounds are enough.**

- *spending.* Two overlapping calls with prices at and above the cap, two ways of
  stating a price, three ticks against an hour of one and a day of two: both windows
  roll with calls in flight. The guard's users mix amounts, bytes, a listed
  recipient, places and abandoned work. The caps are overshot by at most one maximal payment
  per concurrent call; two callers are where the overshoot first exceeds one
  payment. Every configuration of five limits that are left out, 0, 1 or 2, against
  totals up to 3: below, at and above each limit and the default of an hour.
- *acquisition.* Two calls, with and without a key, targets below and at the hourly
  cap, funds that land at once, later, or after the poll has given up, outside
  deposits and spending, balance reads that fail, transactions that revert unseen.
  Two calls are enough for one to run while the other waits, and for a rejected run
  to have a successor. Two swaps of a wallet that cannot pay for both, at prices
  that move while they queue; three pegins, two of one intent and one of an intent
  that pays nobody; two calls that choose, one after the other, over eight makings of
  the router (mocks, no pool, no token, an override, with and without the peer
  dependency, not enabled) and a wallet with money on GOAT, on a partner chain, on
  both or on none. The corridor has two pays of one wallet, for 2 out of 1 iUSD and
  5 USDC, with and without the LayerZero leg.
- *spacerouter.* Five receipts and a threshold of two: a flush can fail while its
  buffer fills past the threshold again, be retried, and fail again. Two overlapping
  fetches with top-ups, two schedulers (the second is the one an overlap makes),
  tokens for two deposits (a third reverts for lack of money, not of allowance). Two
  withdrawal calls at a time, four in all, over a lock of one day of two: a request
  can be made, cancelled, made again and withdrawn, and two calls can act on one.
- *paywall.* Two payments, two invoices, one of them pinned by its route, two
  overlapping requests, one restart, invoices that expire while a request is under
  way; the facilitator settles a payment once (what it does when it settles again is
  in section 6). The verifier sees three transactions, one of which pays a stranger,
  on a chain of four blocks with a window of one. A buyer of up to two chains, in
  either order, with every set of credentials that makes a difference, meets every
  route the paywall can make and the challenges of other merchants, and repeats the
  request once. Two wallet calls overlap while the driver loads, in every setup, and
  two lifecycle calls while the SDK does, or is installed; two settlements race over one
  Celo authorization; three payments of two agents, one address written in two ways, are counted by both storages. A visit of the KYA gate
  in every setup takes up to three ticks against a maximal age of one; two
  facilitator calls of which one may be given up; every choice between three assets.
- *sessions.* Two overlapping calls on either side of a channel, amounts 1 and 2 up to
  a total of 3: several vouchers are outstanding and overtake one another. A job of two
  milestones, single- and multi-release, two overlapping operations, each of whose
  submissions fails, lands, or lands without being answered. Three tool calls against a
  session that pays for two and ends after a tick; two jobs and three verdicts, so that
  two verdicts of one job overlap; a delegation budget that three hops exhaust; a batch
  and a stream that can be overdrawn; mandates with and without a budget; two calls at
  two anchors, of which one may publish no withdrawals; a vault of two depositors beside
  a market others also use; and lending positions that are empty, healthy, kinked or
  sunken. Every graph of three edges or less over three ids, and some with repeated edges or
  edges that dangle, is sorted in every order of the queue; most of them for an audit of
  Pendle, three of them for every position.
- *xrpl.* Two owners with the signer, one stranger, one reader; one lost answer, one
  `tec` result, one expiry of the cache. Three queued pays (a queue with a middle),
  one sweep, every combination of treasury and auto-swap, balances of 0 to 2 against
  needs of 1 and 2, one lost submission. Two treasury calls at a time with one failed
  store write, one refused creation and one restart; a swap in a market of two paths
  whose prices move; every challenge of the two ledgers.
- *facilitator.* One good authorization, one with a wrong signature, two overlapping
  requests, one throw, one late receipt, one restart. More requests on one nonce
  only repeat the overlap of two. Two gasless pays of a buyer who can afford one, in
  three executions (one request is executed twice); three mints that queue and two
  redemptions of one balance; two x402 pays in three deliveries; and a Morph buyer
  whose client waits one tick and whose facilitator waits two, for two attempts.

**Deadlock.** It is checked wherever the system always has something to do
(the spending runs stutter at the end of bounded time by design of their
`Tick`/`Next`). The cfgs that say `CHECK_DEADLOCK FALSE` are of systems that
may really come to rest: everything paid, closed, or past the bound on time.

## 4. Fairness

Liveness is claimed only under what the code guarantees:

- `AcquisitionRouter!FairSpec`: weak fairness of `Advance(c)`, the continuation of a
  run. Every promise a run awaits (an RPC call, a path's `execute`, a sleep of the
  poll) settles, by answer or by timeout, and the engine runs its reaction. Nothing
  is assumed of the callers. `EveryAcquireSettles` then says that whoever queues on
  the mutex is answered, by a result or by an error.
- `ReceiptScheduler!Fairness`: weak fairness of the end of a flush (the gateway
  client gives up after a timeout), of the timer (`setInterval`), and that not every
  attempt fails for ever. `EveryReceiptSettles` says that an enqueued receipt reaches
  the gateway unless the scheduler is closed.
- `XrplBuyer!Fairness`: weak fairness of `Start(p)` only: reactions of a settled
  promise are run. `QueueMoves` has the rest as a hypothesis: *if* every pay that has
  entered the locked section leaves it, every queued pay starts. The code has no
  timeout on the calls made inside the section, so nothing stronger is true.

## 5. The proofs

TLAPS proves the following for every value of the constants that satisfies the
assumption named in the component's module: any number of callers, slots, receipts,
payments, any cap, price, threshold, time to live and bound. A theorem in bold states a
property of a passing run of section 3 in full.

| Module | Theorem | Statement |
|---|---|---|
| `SpendingProofs` | **`OvershootAlwaysBounded`** | the client's counters exceed a cap by at most `MaxCap` per concurrent call |
| | `InductiveInvariant`, `RoomAlways` | a counter beyond its cap leaves room for every call in flight |
| | `AdmissionAlwaysStopsAtCap` | no call starts while a counter is beyond its cap |
| | **`LedgerAlwaysTracksMoney`** | while every challenge paid states its price where the client looks, log and money agree |
| | **`GuardAlwaysHolds`** | the guard: the log covers the counters, the rate rule is a sliding window, a cap is exceeded by one maximal request for every other user, configured limits hold beside the defaults they bring |
| | **`SpendingTyped`** | types of client, guard and configured engine |
| `RouterProofs` | `ChainAlwaysExact` | the promise chain lets one run at a time through, in the order of arrival |
| | **`AcquisitionAlwaysHolds`** | the acquisition caps are exact; no run acquires for a balance that sufficed |
| | **`AlwaysOneExecutionPerKey`** | a second execution of a key needs funds that were late or spent |
| | **`PathsAlwaysHold`** | one swap at a time, reverts explained, an intent signed once, a chosen path had its money |
| | **`CorridorAlwaysHolds`** | nothing is sent that was not seen to have arrived; a proof stands for a payment |
| | `RouterTyped`, `PathsTyped`, **`AcquisitionTyped`** | types |
| `SpaceRouterProofs` | **`PendingAlwaysInOrder`**, `NeverGapAtGateway` | no receipt is lost, held twice or reordered; the gateway never has one without all older ones |
| | **`NeverReceiptLost`** | a receipt is with the gateway, in a buffer or dropped by a close, and a close reaches the scheduler the client knows |
| | **`EscrowAlwaysHolds`** | a deposit has its allowance unless deposits overlapped; a withdrawal executes what was initiated |
| | `SchedulerTyped` | types; a flush is marked exactly while a batch is out |
| `PaywallProofs` | **`PaywallImplementsPaidAccess`** | if the facilitator settles a payment once, the XRPL route implements `PaidAccess`, with overlap, pinned ids, lost answers and restarts |
| | **`ChargedIsNeverConsumed`** | what is charged and not served belongs to a request under way, or an answer was lost, or the process restarted |
| | **`AcceptedAtMostOnce`**, **`ReplayWindowAlwaysClosed`** | a second acceptance of a transfer needs an overlap or a restart; only mined payments to the merchant are accepted, within `maxBlockAge` |
| | **`RailsAlwaysHold`** | for any buyers and merchants: what is given away was asked for, nobody who gave nothing is served, and who is turned away without a question |
| | **`WalletsAlwaysHold`** | the wallet answers with transactions it sent; a lifecycle keeps its first import; the Celo rail answers settlements that were made and counts a payment once; the Stellar gate, facilitator client, asset router and figures say what is so |
| | `VerifierImplementsPaidAccess`, `PaywallTyped` | while neither happens, the verifier implements `PaidAccess`; types |
| `XrplProofs` | **`UncoveredAlwaysByDebit`** | a payment the account does not cover is sent only after a debit its balance did not show |
| | **`SwapsAlwaysOnlyShortage`** | no step starts a swap for more than the pay is short of, unless something landed and then threw |
| | `LineAlwaysThere`, `VaultAlwaysKept`, `SwapAlwaysWithinSlippage`, `OfferAlwaysForItsLedger`, **`FundsAlwaysHold`** | ok means a line, made once; one vault but for what excuses another; a swap costs quote and slippage; what is signed is for the ledger of the challenge; and the four together |
| `FacilitatorProofs` | **`FacilitatorServesPaid`** | the Morph facilitator implements `PaidAccess` |
| | **`MorphAlwaysHolds`** | a failed authorization is unpaid unless a receipt was late, a call threw or the process restarted; a buyer pays twice only after a wait ran out |
| | **`RelayAlwaysKeepsItsWord`**, `RelayTyped` | the gasless relay reports what happened and pays for nothing stale |
| | **`FlareAlwaysServesOnce`** | an authorization opens the Flare route once and only when settled |
| | **`BridgeAlwaysHolds`**, `BridgeTyped` | mints of a wallet are apart; receipts and polls tell what the chain said |
| | **`FacilitatorsTyped`** | types of all four |
| `SessionProofs` | **`CloseAlwaysPaysSigned`**, `AlwaysBackedByVoucher` | a close pays the total its signature covers; the server counts on signed totals only |
| | **`AlwaysServedOnce`**, **`VouchersAlwaysAddUp`** | until two verifications (two signatures) overlap, what was served is what the channel pays (each voucher stands its amount above an earlier one) |
| | **`ReleasedAlwaysPaid`**, **`OutcomesAlwaysStick`**, `NeverAhead`, `EscrowTyped` | the Trustless Work job: released means paid, outcomes are final, nothing is shown that has not landed, with the exceptions of section 6 |
| | **`VerdictAlwaysTheContracts`** | an agent's job shows what the contract did with its money |
| | `BudgetsAlwaysNest`, `StreamsAlwaysBalance`, `AcceptedAlwaysCovered`, `SessionsAlwaysBalance`, `VaultAlwaysHolds`, **`BudgetsAlwaysHold`** | delegations, batches and streams, mandates, sessions of tool calls, the allocation vault; and the five beside one another |
| | **`AnchorAlwaysHolds`** | a handle stands for a transaction an anchor of the corridor made, a call that threw left nothing behind, and calls that share a descriptor leave each other its URLs |
| | **`AuditAlwaysHolds`** | exactly the graphs without a cycle and without a repeated id pass; a report says what was read of the position |
| | **`SessionsTyped`** | types of all of them |
| `DataLemmas` | | sums of a function over a finite set (`SumFunctionOnSet`) when a value changes, an element comes or the set splits; queues that hold each member once |

The statements of the runs' specifications (`FacilitatorsTyped`, `AcquisitionTyped`,
`FundsAlwaysHold`, `BudgetsAlwaysHold`, `SessionsTyped`, `WalletsAlwaysHold`, `SpendingTyped`,
`GuardAlwaysHolds`) are about
the specification TLC runs, for all constants; the values an `MC*` module gives them are
not used in any proof.

**The assumptions.** Each is an `ASSUME` that TLC evaluates on the instances. Most give
constants their types. The others: finitely many callers, pays, slots or holders where
something is counted or summed (a process makes finitely many calls); an hour, a day and
a rate window are not empty; a slippage is at most the whole (10000 basis points), a PT
weight at most four quarters, the threshold of a lending market at most all of the
collateral; `Tens` is the powers of ten; a name that stands for "none" is not a name; the anchors' registry
is a list; ids of the treasury are not numbers of vaults. Nothing is assumed of the order
in which anything happens.

**The arguments.** A property is seldom inductive; what is proved with it is named here.

- *Overshoot of the client.* Nothing in "at most one maximal payment beyond the cap per
  caller" says how many payments are still to come. `RoomForInFlight` counts them: a
  counter beyond its cap, plus `MaxCap` for every call in flight, is within the bound.
  Starting a call is allowed only under the cap, where the clause is void; finishing one
  adds at most `MaxCap` and takes one call out of flight. The step is one inequality
  (`RoomArithmetic`) and a count of a finite set (`FinishCounts`).
- *The guard.* Here a request states its size before it is admitted, so the sharper
  bound is that a counter and the sum of everything promised and not yet recorded are
  within the cap and one maximal request for every *other* user (`PaymentsFit`,
  `BytesFit`): only a request that itself fits below the cap is admitted, and recording it
  moves its size from one side of the sum to the other. The counters stand for less than
  the log since the start of their window (`CountersCovered`), which is how the hourly
  summary covers them although the windows roll lazily. For the moments still within the
  rate window the engine holds as many requests as took a slot (`WindowTracksSlots`); a
  span that ends in the present is counted before another request is granted. What a
  configuration allows is a matter of a single request (`AnsweredByRules`).
- *Acquisition.* `ChainExact`: the chain of promises holds exactly the calls
  outstanding, each once, and the call that reads or executes is its head; so there is one
  execution at a time, and what it is about to record still fits both rolling caps
  (`CapsLeaveRoom`), since the log's window only moves on. Unless a balance read failed,
  balance, funds under way and what the executing call asks for are together within the
  largest target (`FillLeavesRoom`). `KeyIsFresh` says that a call without an overlapping
  twin finds nothing cached under its key and nobody of its key before it.
- *Paths.* The swap mutex is a queue of its members (`Queues` of `DataLemmas`); a quote
  stays within what the sheet showed until PegBTC goes elsewhere and is true of the price
  until the price moves (`QuoteStands`), and the only other cause of a revert is that the
  division of the probe rounds away more than the slippage, which is a fact about integer
  quotients. A pegin's signature is of the one call that marked its intent (`PeginInv`),
  and a choice was made of what the sheets showed (`ChoiceStands`).
- *Corridor.* The iUSD of the wallet and all that was paid are within the start and what
  landed (`CorridorInv`), a sum over the finite set of pays.
- *Receipts.* The pending receipts are `batch \o buffer`: every action moves the boundary
  between the two, takes the batch off the front, or adds at the end. Of several
  schedulers (`CarriesOne`), the last one made is the one the client knows, and a fetch
  that waits for the signer carries one receipt of its own.
- *SpaceRouter's escrow.* Until deposits overlap, the pool holds one transaction, which
  is the approve its call waits for or a deposit with its allowance (`OneDeposit`); of the
  withdrawals only the first of the pool can still stand on what its caller checked
  (`WithdrawalsInv`).
- *Paywall.* `HoldingInv` ties a settled request to its payment: landed, not served, and
  held by that request alone. `OnceIssued` says that a random invoice id pays for one
  payment and is consumed only by it, which leaves a lost answer or a restart to explain a
  payment that was charged in vain.
- *Rails.* The adapter in use is that of the detected protocol or claims the challenge
  (`Picked`), which is why it can read what it is asked for (`Reads`). What was given away
  follows from that (`Given`), and so do the headers of the repeated request (`SentFor`), which
  the paywall's tests then meet in their own order.
- *Transfer verifier.* `WindowInv`: a call that has read its receipt holds that of a
  mined, matching transaction; `RememberedInv`: what was accepted is in `consumed` or was
  exposed, and an unexposed transaction is under verification once at most.
- *XRPL buyer.* Every balance a pay holds, has cached or is being told is tagged, by a
  history, with the number of debits at the time it was read; as long as that number is the present one,
  the account holds at least that much (`TrueSince`, `BeliefsInv`). That pays go one at a
  time is again a queue of promises, each but the first waiting for the one before
  (`ChainHolds`); with it the account holds no *more* than a balance in use
  (`AnswersHold`, `CacheHolds`), and so a swap is for no more than the shortage.
- *XRPL funds.* One caller works on the trust line, and TrustSets sent are bounded by
  lost and refused ones (`LineInv`). A swap under way carries the cap of its own quote
  (`SwapInv`), and padding the quote costs a drop of rounding. Vaults made, plus calls that
  may yet make one, are within one and the number of excuses (`Excused`); without an excuse
  one call at a time looks for the vault (`Orderly`).
- *Morph.* The request whose transaction charged an authorization is the one that
  serves it (`OnePays`), and as long as nothing was late, lost or restarted nothing is charged behind the
  requests' back (`Accounted`). Every post of the buyer belongs to the call he waits for
  or to one he was left unsure about (`CallInv`).
- *Relay, x402 and bridge of Flare.* The forwarder's nonce counts the payments it
  made, each of a smaller nonce (`NonceCounts`), and every payment left a trace (`Traced`).
  A delivery with a receipt stands for the one settlement (`ServeInv`). Mints stand in
  line (`Line`); the sequence numbers left suffice for every call that still owes
  a payment (`SequencesSuffice`), and unless an answer was lost the one in hand is the next
  (`SequenceStands`). A poll's last look supports the verdict it will give (`LookStands`).
- *Session.* `CoveredInv`: `highest` and `signature` belong to one voucher, and so does
  what a close holds. `StillNext`: the single verification under way is above the
  highest total. `FromReached`: `cumulative` is a signed total plus what is being signed.
- *Trustless Work escrow.* An operation whose submission landed has its effect in the
  contract's record (`EscrowInv`); every milestone shown as approved is released, being
  released, or noted as unreleased (`MoneyTraced`); until operations overlap, the state
  the operation tested still stands (`StillValid`).
- *Verdicts and budgets.* Without overlap one verdict of a job is under way and the
  contract stands where a mined one put it (`OneVerdict`). A session has spent the sum of
  what its calls were charged (`CallsCounted`, over finite sets of calls). In a delegation
  tree what all contexts hold and spent is the root's budget (`BudgetKept`), and each
  accounts for what it was given (`SharesKept`): both are sums over the contexts made, to
  which a hop adds one. Streams and mandates are arithmetic on their own fields.
- *Allocation vault.* No move makes or loses money (`Balanced`: the contract's balance,
  what is invested, what went out and what was redeemed). That shares are worth what was
  put in is about the floors of two quotients, one when shares are minted and one when
  they are burned.
- *Cashing out.* A call's candidates are places of the registry, of anchors that serve
  the corridor or were named, and nothing was posted before there was a token
  (`CashingOut`). Until a toml changes, a descriptor is empty or is what its anchor
  publishes (`ServicesKnown`), so that a second writer can take nothing away from a call
  that has already looked.

- *Wallet and lifecycle.* The nonces of an account are below the number of its transactions,
  mined or in the pool, and each of those is of a call that is past sending (`NoncesFit`); so
  a nonce that is refused was taken by one of them (`WalletInv`). A call of the lifecycle is
  with the SDK, or at the command line in its place, only once the one import has resolved
  to what says so (`LifeStands`).
- *Celo.* Two counts are kept: what was stored, or read and not yet written back, is never
  more than what is done (`SoundInv`), and for an agent written in one way, alone in its
  file, it is exactly that, for the stored count and for the one a record works with
  (`ExactFor`). The second needs the lock: a record works only at the head of the line of its
  key (`LineHolds`), so that nobody writes between its read and its write. That every corridor
  between 18 and 6 decimals is beyond the tolerance is about the floor of one quotient
  (`UnitsTell`).
- *Stellar gate, facilitator client, routes and figures.* A credential speaks of a tier the
  oracle saw at the tick it was issued, and a visit that passed the checks carries what they
  found (`Truthful`, `VisitStands`). A success is on the ledger, where it stays
  (`FacilitatorInv`). What a route says is computed in one step from what was asked
  (`RouteInv`), where the tolerance is a fact about quotients that are rounded up. That
  figures parse back (`FiguresHold`) is a fact about quotients by powers of ten, and needs no
  state.
- *Audits.* "Every id that was counted was rightly counted" says nothing of the ids that
  will never be. `SortingInv` says what a degree is in the middle of the sort: the number of
  edges that come from ids not yet taken from the queue; an id is taken or queued when
  that number is zero, and the count of visited ids is the number taken. A set of ids in which
  each has a cause in the set keeps its edges as long as none of it is taken, so none of it
  ever comes down to zero: when the queue is empty, what was not taken is such a set, and if
  everything was, there is none. Ids are fewer than nodes exactly when one is repeated. The
  report is what `Score` and `Action` say of the snapshot that some fact of the chain made
  (`AsRead`); the rest is arithmetic on products.
- *Types of the sessions.* A type is often not kept by itself: a voucher is signed for a total
  above zero only because whoever signs has raised it and a reset waits for him
  (`ChannelTyped`), the Trustless Work calls, the delegations, the off-ramp and the vault are
  typed by the invariants above, and the number of ids an audit has visited is a number
  because those taken are finitely many.

**Only model-checked.** Liveness (`EveryAcquireSettles`, `EveryReceiptSettles`,
`QueueMoves`), which like ENABLED is out of the prover's reach. Every invariant and every
other property of a passing run is a theorem. The runs that expect a violation end
in a counterexample, which needs no proof.

No module uses RECURSIVE operators.

## 6. What the code does not promise

Five statements of the documentation are false of the code, and a run shows each:

- *"A blocked payment never touches a private key."* `fetchWithPayment` compares the
  amount with the cap after `adapter.pay()` has signed and sent (`client.ts:504`); the
  call then throws and the payment is not recorded. (run client_cap)
- *A call can be retried with other paths.* After one rejected run the promise that
  serves as the mutex stays rejected, and every later `acquire()` or `estimate()` fails
  with that first error (`acquisition.ts:254`). (run acquisition_poison)
- *`close()` flushes any remaining receipts.* Not while another flush is under way:
  what was enqueued meanwhile stays, and the timer is gone (`gateway.ts:245`).
  (run receipts_close)

- *`ensureIusd` lands iUSD in the required quantity, regardless of source.* A route
  that keeps a fee leaves the wallet short by it, and the call can only time out
  (`initia/corridor.ts:400`). (run corridor_fee)
- *The Celo adapter wins over the generic x402 adapter.* It is put in front of the
  list, but adapters are looked up by the challenge's protocol first, which is x402
  (`client.ts:401, 485`). (run celo_rail)

The following limits were met while modelling. Where a property is stated "unless ...",
a history variable carries the exception, and the runs show that nothing else breaks it.

*Client, paywall and rails.*

- A configured limit of 0 is no limit when it stands alone and refuses everything beside
  another one; any limit given brings a default of 100000000 for an hour, below the default
  of 1000000000 for a payment (`policy/index.ts:125-134`; `ConfiguredLimitsHold`).
- The SDK of the OWS lifecycle is looked for once per process (`lifecycle.ts:46`); an error of
  its backup or restore has no code, against line 7 of that file; and a policy or key that is
  not found is told as a missing wallet, a "not found" of the command line as its absence
  (`LifecycleHolds`).
- The guard's blocklist never sees the recipient of a challenge, and an amount stated
  anywhere but in `accepts[0].maxAmountRequired` is recorded as 0 (`client.ts:420, 580`;
  `LedgerTracksMoney`).
- The x402 adapter repeats the request with a header the paywall's x402 branch does not
  read (`adapters/x402.ts:155`, `middleware.ts:119`), and never looks at
  `accept.network`. `detectProtocol` never answers "goat". A challenge that names no asset is
  signed for the adapter's own chain whatever network it names. An x402 route may name any
  network; of another family (Stellar, Flare, XRPL) it is paid by that family's adapter, whose
  header its paywall does not read (`middleware.ts:119`, `151`; `RailsHold`).
- Overlapping verifications of one transfer are all accepted (`middleware.ts:601`;
  `AcceptedOnce`), and a restart reopens the transactions of the last `maxBlockAge`
  blocks (`ReplayWindowClosed`).
- With a facilitator that confirms a payment it has already settled, overlapping
  requests with one XRPL payment are all served, and so is an old payment after a new
  challenge on a pinned id (`middleware.ts:410, 367`; the constant `SettlesAgain`).
- The driver of the wallet reads its nonce at 'latest' and does not wait for receipts;
  the visa tracker's lock is kept per address as written while its state is kept in lower
  case, its file loses updates between agents, and a stored `selfAgentIdProvided` is
  overwritten with false (`celo/agent-visa.ts:54-81`); Mento's slippage compares 18 with
  6 decimals, so no corridor is offered below a tolerance of 9999 basis points
  (`celo/mento.ts:88, 158`; `WalletsHold`).

*Acquisition, corridor, SpaceRouter.*

- Two `acquire()` calls with one key that overlap both execute when the funds of the
  first have not landed or were spent (`acquisition.ts:249`; `OneExecutionPerKey`).
- A swap's receipt says nothing of a revert, and its quote may be stale once the mutex is
  had (`goat/paths.ts:19, 409`). A pegin is signed before its intent is validated
  (`paths.ts:628`), and the default strategy never picks one, because the router never
  reads bitcoin (`acquisition.ts:277`). The LayerZero path is picked for money on any
  partner chain, quotes the first of them, and then always throws (`paths.ts:522`), though
  a pegin might have served (`ChoiceExplained`).
- Two overlapping first fetches make two schedulers, and the client's `close()` and
  `syncReceipts()` know one (`spacerouter/client.ts:206`; `CloseReachesReceipts`). A failed
  load of the SDK is cached for good, and a top-up is made before it is noticed.
- A `deposit()` begun before an earlier one is mined may count on the allowance that one
  uses, skip the approve, and revert (`spacerouter/escrow.ts:208`; `DepositsLand`); hashes
  of deposits and withdrawals are returned without waiting for receipts, so overlapping
  withdrawal calls may revert (`WithdrawalsLand`).

*Stellar and the off-ramp.*

- Overlapping verifications of one voucher are both valid, and overlapping signatures
  share a total, after which the server rejects both (`session.ts:196, 104`;
  `ServedOnce`, `VouchersAddUp`).
- A multi-release job whose release failed is called released once every milestone is
  approved (`escrow-manager.ts:133`; `ReleasedMeansPaid`), and of overlapping operations
  the last to end has the last word on the status (`OutcomesStick`).
- The KYA gate answers a 402 of its own without a payment-required header, which no adapter
  reads; the adapter brings a credential only when `accepts[0].extra.kya_required` says so;
  a failed import of the gate's SDK is cached for good; `assertVerifiedIssuer` warns and does
  not assert (`stellar/assets.ts:115`; `KyaHolds`, `WarnedOnce`).
- A descriptor of an anchor is shared, read, awaited and written by overlapping calls, and the
  SEP-31 status is asked of the SEP-24 server (`AnchorHolds`).

*XRPL.*

- A `TrustSet` validated with a `tec` code is taken for success (`payments.ts:162`;
  `OkMeansLine`), and "missing" found for a caller without a signer is told, for the life
  of the cache, to one that brings it (`payments.ts:109`).
- A pay may act on a balance from before the previous payment (`adapters/xrpl.ts:130`;
  `UncoveredOnlyByDebit`), a withdrawal that lands and then throws is bought a second
  time (`SwapsOnlyShortage`), and a sweep may take the account below `minIdleBalance`
  (`treasury.ts:184`).
- A vault may be made that nothing points to (a restart, a failing store), and the hash of a
  refused `VaultCreate` is kept as a vault id (`treasury.ts:131`); detection accepts XRP, which
  `pay` then refuses; a swap reports its cap as the amount it took (`FundsHold`).

*Facilitators.*

- When the receipt of a submitted authorization comes late the facilitator answers a
  failure and frees the nonce, although the transfer may land; overlapping settles of one
  nonce both submit, and one of them reverts (`facilitator.ts:280, 252`;
  `FailedMeansUnpaid`). The client gives up after 15 seconds and the facilitator after 60, so
  a buyer who signs anew may pay twice (`morph/client.ts:126`; `BuyerPaysOnce`).
- Overlapping gasless pays sign one forwarder nonce, of which one is made
  (`flare/gasless.ts:249`); an x402 authorization whose receipt is late is settled and not
  served (`FlareServesOnce`).

*Agents and the vault.*

- The session is charged before the tool runs and nothing is given back
  (`paid-tool.ts:112`); overlapping verdicts are both signed, and the status is the last to
  end (`agent/escrow.ts:58`; `VerdictIsTheContracts`); cancelling a stream twice refunds again
  (`settlement/index.ts`).
- The vault's `totalAssets` leaves out what is in other protocols; `tier1TargetBps` is not read.
  The audit of a Morpho borrower takes the address for the market and the market's debt for the
  borrower's; with no collateral the health is infinite; past its kink every market is an
  emergency; two of the actions are never advised; repeated node ids make the graph check refuse
  an acyclic graph (`AuditHolds`).

## 7. What is left out

- Data: addresses, signatures, headers, amounts beyond what a guard compares, messages
  and logging. A signature is a fact ("this voucher was signed"), not a string; hashes
  are compared as written, as `verifyExactRlusdPayment` does.
- Analytics, and what an audit entry holds beside its type, time and amount.
- `recordBandwidth` is never called with served bytes by the client (`client.ts:457`), so
  the byte counters matter only to direct users of the guard.
- Wormhole NTT and the pay router: the registry's outbound limits are static zeros, so the
  preflight refuses every transfer, and the corridor is a pure table. Neither adapter is
  reached by `fetchWithPayment`.
- Parts that are pure I/O or single calls of an SDK: Aave, GOAT lending and
  identity, SpaceRouter's signer, discovery, the Stellar wallet and signers, XRPL connection,
  oracle and keys, the MoonPay mock.
- The volume of a Celo visa (it grows like its count), USDC and Tempo drips of the faucet (no
  caller waits on them), owner setters of the vault that nothing reads, the events and wording
  of a research report, the closed formulas of `research/risk/invariants.ts`.

## 8. The plan

What is modelled covers the library's stateful parts. What is worth adding, in order:

1. Abstract specifications: an idempotent executor for the acquisition router and the bridges
   ("at most one execution per intent"), and a budget ("what was admitted never exceeds the
   grant") for delegation, sessions and mandates, with the refinements. `PaidAccess` is already
   implemented by three components.
2. Compositions: `PaymentClient` over `Rails`, so that one behaviour carries a call from the
   guard to the paywall's answer.
