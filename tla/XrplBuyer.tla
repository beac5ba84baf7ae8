------------------------------ MODULE XrplBuyer ------------------------------
(***************************************************************************)
(* The buyer's side of an XRPL payment: XrplAdapter.pay of                 *)
(* src/adapters/xrpl.ts with its chain of promises per address, the cached *)
(* account state of src/xrpl/payments.ts, the treasury of                  *)
(* src/xrpl/treasury.ts (withdraw when short, a debounced sweep of the     *)
(* excess) and the swap of src/xrpl/swap.ts.  A process is a pay or a      *)
(* sweep; every await is a step boundary.  The trust line is in place      *)
(* (XrplTrustline) and the vault id is configured.  The ledger and the     *)
(* merchant's facilitator are external.                                    *)
(***************************************************************************)
EXTENDS Integers, FiniteSets

CONSTANTS
    Pays,       \* calls of pay(), one challenge each
    Sweepers,   \* sweepExcess calls under way together
    Need,       \* Need[p]: the RLUSD the challenge of p asks for
    Balances,   \* RLUSD the account may start with
    Supplies,   \* RLUSD the vault may start with
    MinIdle,    \* minIdleBalance
    CacheTtl,   \* CACHE_TTL_MS, in ticks
    Debounce,   \* sweepDebounceMs, in ticks
    None,
    MaxTime,    \* bound on time
    MaxLost,    \* bound on requests and submissions that throw
    MaxMoney    \* bound on the money in play, for TypeOK

ASSUME BuyerAssumption ==
    /\ Pays \cap Sweepers = {} /\ None \notin Pays \cup Sweepers
    /\ Need \in [Pays -> Nat]
    /\ Balances \subseteq Nat /\ Supplies \subseteq Nat
    /\ {MinIdle, CacheTtl, Debounce, MaxTime, MaxLost, MaxMoney} \subseteq Nat

VARIABLES
    treasury,   \* treasury.isEnabled()
    autoSwap,   \* options.autoSwap, with a swap client
    bal,        \* external: liquid RLUSD of the account
    vault,      \* external: RLUSD the account holds in the vault
    loose,      \* external: signed payments whose response was lost
    cache,      \* stateCache: the balance read and when it expires
    tail,       \* locks: the last pay of the chain, or None
    run,        \* run[x]: where pay or sweep x stands
    asked,      \* asked[x]: the ledger's answer on its way to x, or None
    timer,      \* sweepTimer: when it fires, or None
    now,
    lost,
    debits      \* history: debits of the account so far

options == <<treasury, autoSwap>>
money == <<bal, vault, loose, debits>>
counters == <<now, lost>>
vars == <<options, money, cache, tail, run, asked, timer, counters>>

\* A stage; have is the balance the process believes in, asOf the debits when
\* it was read (history), amt the amount of a submission, prev the pay before.
At(stage) == [at |-> stage, have |-> 0, asOf |-> 0, amt |-> 0, prev |-> None]
NoEntry == [have |-> 0, asOf |-> 0, until |-> 0]

Reading == {"first", "rescue", "fresh", "sweep"}
Submitting == {"withdrawing", "swapping", "depositing"}
Stages == Reading \cup Submitting \cup
    {"idle", "queued", "withdrew", "swapped", "unswapped", "deposited",
     "signing", "sent", "answered", "resolved", "rejected"}

Money == 0..MaxMoney
Debits == 0..(Cardinality(Pays) + MaxTime)

TypeOK ==
    /\ treasury \in BOOLEAN /\ autoSwap \in BOOLEAN
    /\ bal \in Money /\ vault \in Money
    /\ loose \subseteq Pays
    /\ cache \in [have : Money, asOf : Debits, until : 0..(MaxTime + CacheTtl)]
    /\ tail \in Pays \cup {None}
    /\ run \in [Pays \cup Sweepers -> [at : Stages, have : Money, asOf : Debits,
                   amt : Money, prev : Pays \cup {None}]]
    /\ asked \in [Pays \cup Sweepers ->
                   [have : Money, asOf : Debits, until : 0..(MaxTime + CacheTtl)] \cup {None}]
    /\ timer \in 0..(MaxTime + Debounce) \cup {None}
    /\ now \in 0..MaxTime /\ lost \in 0..MaxLost /\ debits \in Debits

Init ==
    /\ treasury \in BOOLEAN /\ autoSwap \in BOOLEAN
    /\ bal \in Balances /\ vault \in Supplies
    /\ loose = {}
    /\ cache = NoEntry
    /\ tail = None
    /\ run = [x \in Pays \cup Sweepers |-> At("idle")]
    /\ asked = [x \in Pays \cup Sweepers |-> None]
    /\ timer = None
    /\ now = 0 /\ lost = 0 /\ debits = 0

Settled(p) == run[p].at \in {"resolved", "rejected"}
InSection(p) == run[p].at \notin {"idle", "queued", "resolved", "rejected"}
Fresh == cache.until > now
Become(x, r) == run' = [run EXCEPT ![x] = r]
Reach(x, stage) == run' = [run EXCEPT ![x].at = stage]

\* A request or a submission throws: a dropped connection, an error answer.
Throw == lost < MaxLost /\ lost' = lost + 1 /\ UNCHANGED now

-------------------------------------------------------------------------------
(* The chain of pays.                                                      *)

\* pay() chains its work after the last one and becomes the last itself.
Pay(p) ==
    /\ run[p].at = "idle"
    /\ Become(p, [At("queued") EXCEPT !.prev = tail])
    /\ tail' = p
    /\ UNCHANGED <<money, cache, asked, timer, counters>>

\* A slip the code avoids: .then() without a branch for a rejection.
Bug_StartAfterSuccess(p) ==
    /\ run[p].at = "queued"
    /\ run[p].prev # None => run[run[p].prev].at = "resolved"
    /\ Become(p, At("first"))
    /\ UNCHANGED <<money, cache, tail, asked, timer, counters>>

\* The work starts when the one before it settles, resolved or rejected.
Start(p) ==
    /\ run[p].at = "queued"
    /\ run[p].prev # None => Settled(run[p].prev)
    /\ Become(p, At("first"))
    /\ UNCHANGED <<money, cache, tail, asked, timer, counters>>

\* The finally block of pay(): only the last work cuts the chain.
Release(p) ==
    /\ Settled(p) /\ tail = p
    /\ tail' = None
    /\ UNCHANGED <<money, cache, run, asked, timer, counters>>

-------------------------------------------------------------------------------
(* What follows a balance.                                                 *)

\* Enough is signed for; a shortage is swapped for, or refused.
Cover(p, have, asOf) ==
    IF have >= Need[p] THEN [At("signing") EXCEPT !.have = have, !.asOf = asOf]
    ELSE IF autoSwap
    THEN [At("swapping") EXCEPT !.have = have, !.asOf = asOf, !.amt = Need[p] - have]
    ELSE At("rejected")

\* The first balance: a shortage is the treasury's business first.
AfterFirst(p, have, asOf) ==
    IF treasury /\ have < Need[p]
    THEN [At("rescue") EXCEPT !.have = have, !.asOf = asOf]
    ELSE Cover(p, have, asOf)

\* ensureLiquid: nothing to do, or a withdrawal of the shortage.
AfterRescue(p, have) ==
    IF have >= Need[p] THEN [run[p] EXCEPT !.at = "fresh"]
    ELSE [run[p] EXCEPT !.at = "withdrawing", !.amt = Need[p] - have]

\* sweepExcess: nothing to do, or a deposit of the excess.
AfterSweep(have) ==
    IF have > MinIdle THEN [At("depositing") EXCEPT !.amt = have - MinIdle]
    ELSE At("idle")

AfterRead(x, have, asOf) ==
    CASE run[x].at = "first" -> AfterFirst(x, have, asOf)
      [] run[x].at = "rescue" -> AfterRescue(x, have)
      [] run[x].at = "fresh" -> Cover(x, have, asOf)
      [] run[x].at = "sweep" -> AfterSweep(have)

\* A rescue that throws is swallowed when a swap may follow: the pay goes on
\* with the balance it read before it.
AfterFailedRescue(p) ==
    IF autoSwap THEN Cover(p, run[p].have, run[p].asOf) ELSE At("rejected")

-------------------------------------------------------------------------------
(* readAccountState.                                                       *)

\* A fresh entry serves a read that may use the cache.
ReadHit(x) ==
    /\ run[x].at \in {"first", "rescue"} /\ Fresh /\ asked[x] = None
    /\ Become(x, AfterRead(x, cache.have, cache.asOf))
    /\ UNCHANGED <<money, cache, tail, asked, timer, counters>>

\* Otherwise the ledger is asked; the entry will expire CacheTtl from here.
ReadAsk(x) ==
    /\ \/ run[x].at \in {"first", "rescue"} /\ ~Fresh
       \/ run[x].at \in {"fresh", "sweep"}
    /\ asked[x] = None
    /\ asked' = [asked EXCEPT ![x] =
                    [have |-> bal, asOf |-> debits, until |-> now + CacheTtl]]
    /\ UNCHANGED <<money, cache, tail, run, timer, counters>>

\* The answer replaces the entry, whatever became of it in the meantime.
ReadAnswer(x) ==
    /\ asked[x] # None
    /\ cache' = asked[x]
    /\ Become(x, AfterRead(x, asked[x].have, asked[x].asOf))
    /\ asked' = [asked EXCEPT ![x] = None]
    /\ UNCHANGED <<money, tail, timer, counters>>

\* The read throws: a sweep gives up, a pay fails unless the read belongs to
\* the rescue.
ReadFails(x) ==
    /\ asked[x] # None
    /\ Throw
    /\ Become(x, CASE run[x].at = "sweep" -> At("idle")
                   [] run[x].at = "first" -> At("rejected")
                   [] OTHER -> AfterFailedRescue(x))
    /\ asked' = [asked EXCEPT ![x] = None]
    /\ UNCHANGED <<money, cache, tail, timer>>

-------------------------------------------------------------------------------
(* Treasury withdrawal and swap.                                           *)

\* The ledger takes the withdrawal, or refuses one the vault cannot pay.
WithdrawLands(p) ==
    /\ run[p].at = "withdrawing"
    /\ IF vault >= run[p].amt
       THEN bal' = bal + run[p].amt /\ vault' = vault - run[p].amt
       ELSE UNCHANGED <<bal, vault>>
    /\ Reach(p, "withdrew")
    /\ UNCHANGED <<loose, debits, cache, tail, asked, timer, counters>>

\* A slip the code avoids: the withdrawal is trusted, the balance not reread.
Bug_WithdrawTrusted(p) ==
    /\ run[p].at = "withdrew"
    /\ Become(p, Cover(p, run[p].have + run[p].amt, run[p].asOf))
    /\ UNCHANGED <<money, cache, tail, asked, timer, counters>>

\* withdraw() returns either way, and the balance is read afresh.
WithdrawReturns(p) ==
    /\ run[p].at = "withdrew"
    /\ Reach(p, "fresh")
    /\ UNCHANGED <<money, cache, tail, asked, timer, counters>>

\* withdraw() throws, before or after it landed.
WithdrawThrows(p) ==
    /\ run[p].at \in {"withdrawing", "withdrew"}
    /\ Throw
    /\ Become(p, AfterFailedRescue(p))
    /\ UNCHANGED <<money, cache, tail, asked, timer>>

\* The ledger delivers the swap exactly, or not at all.
SwapLands(p) ==
    /\ run[p].at = "swapping"
    /\ \/ bal' = bal + run[p].amt /\ Reach(p, "swapped")
       \/ UNCHANGED bal /\ Reach(p, "unswapped")
    /\ UNCHANGED <<vault, loose, debits, cache, tail, asked, timer, counters>>

\* A slip the code avoids: the cached balance survives the swap.
Bug_SwapReturnsStale(p) ==
    /\ \/ run[p].at = "swapped" /\ Reach(p, "signing")
       \/ run[p].at = "unswapped" /\ Become(p, At("rejected"))
    /\ UNCHANGED <<money, cache, tail, asked, timer, counters>>

\* swap() drops the cached balance and checks the result.
SwapReturns(p) ==
    /\ \/ run[p].at = "swapped" /\ Reach(p, "signing")
       \/ run[p].at = "unswapped" /\ Become(p, At("rejected"))
    /\ cache' = NoEntry
    /\ UNCHANGED <<money, tail, asked, timer, counters>>

\* swap() throws before that, having landed or not.
SwapThrows(p) ==
    /\ run[p].at \in {"swapping", "swapped", "unswapped"}
    /\ Throw
    /\ Become(p, At("rejected"))
    /\ UNCHANGED <<money, cache, tail, asked, timer>>

-------------------------------------------------------------------------------
(* The payment.                                                            *)

\* Build, sign, and retry the request with the signed payment.
Send(p) ==
    /\ run[p].at = "signing"
    /\ Reach(p, "sent")
    /\ UNCHANGED <<money, cache, tail, asked, timer, counters>>

\* Building or signing throws.
SendFails(p) ==
    /\ run[p].at = "signing"
    /\ Throw
    /\ Become(p, At("rejected"))
    /\ UNCHANGED <<money, cache, tail, asked, timer>>

\* The facilitator settles a payment the account covers, or refuses it.
Facilitator(p) ==
    /\ run[p].at = "sent"
    /\ \/ bal >= Need[p] /\ bal' = bal - Need[p] /\ debits' = debits + 1
       \/ UNCHANGED <<bal, debits>>
    /\ Reach(p, "answered")
    /\ UNCHANGED <<vault, loose, cache, tail, asked, timer, counters>>

\* The response arrives, and scheduleSweep starts the timer anew.
Response(p) ==
    /\ run[p].at = "answered"
    /\ Become(p, At("resolved"))
    /\ timer' = IF treasury THEN now + Debounce ELSE timer
    /\ UNCHANGED <<money, cache, tail, asked, counters>>

\* The retry throws; its payment may still be settled.
FetchThrows(p) ==
    /\ run[p].at \in {"sent", "answered"}
    /\ Throw
    /\ loose' = IF run[p].at = "sent" THEN loose \cup {p} ELSE loose
    /\ Become(p, At("rejected"))
    /\ UNCHANGED <<bal, vault, debits, cache, tail, asked, timer>>

LooseSettles(p) ==
    /\ p \in loose
    /\ loose' = loose \ {p}
    /\ bal >= Need[p] /\ bal' = bal - Need[p] /\ debits' = debits + 1
    /\ UNCHANGED <<vault, cache, tail, run, asked, timer, counters>>

-------------------------------------------------------------------------------
(* The sweep and the clock.                                                *)

\* The timer fires and sweepExcess starts.
Sweep(w) ==
    /\ run[w].at = "idle"
    /\ timer # None /\ timer <= now
    /\ timer' = None
    /\ Reach(w, "sweep")
    /\ UNCHANGED <<money, cache, tail, asked, counters>>

\* The ledger takes the deposit, or refuses one the account cannot pay.
DepositLands(w) ==
    /\ run[w].at = "depositing"
    /\ IF bal >= run[w].amt
       THEN /\ bal' = bal - run[w].amt
            /\ vault' = vault + run[w].amt
            /\ debits' = debits + 1
       ELSE UNCHANGED <<bal, vault, debits>>
    /\ Reach(w, "deposited")
    /\ UNCHANGED <<loose, cache, tail, asked, timer, counters>>

\* deposit() returns or throws; the sweep ends without a word either way.
SweepEnds(w) ==
    /\ \/ run[w].at = "deposited" /\ UNCHANGED counters
       \/ run[w].at = "depositing" /\ Throw
    /\ Become(w, At("idle"))
    /\ UNCHANGED <<money, cache, tail, asked, timer>>

\* Timers fire on time: a due one fires before the clock moves on.
Tick ==
    /\ now < MaxTime
    /\ timer # None => timer > now
    /\ now' = now + 1
    /\ UNCHANGED <<money, cache, tail, run, asked, timer, lost>>

Next ==
    /\ UNCHANGED options
    /\ \/ \E p \in Pays :
            \/ Pay(p) \/ Start(p) \/ Release(p)
            \/ WithdrawLands(p) \/ WithdrawReturns(p) \/ WithdrawThrows(p)
            \/ SwapLands(p) \/ SwapReturns(p) \/ SwapThrows(p)
            \/ Send(p) \/ SendFails(p) \/ Facilitator(p) \/ Response(p) \/ FetchThrows(p)
            \/ LooseSettles(p)
       \/ \E x \in Pays \cup Sweepers :
            ReadHit(x) \/ ReadAsk(x) \/ ReadAnswer(x) \/ ReadFails(x)
       \/ \E w \in Sweepers : Sweep(w) \/ DepositLands(w) \/ SweepEnds(w)
       \/ Tick

Spec == Init /\ [][Next]_vars

\* Reactions of a settled promise are run by the engine, come what may.
Fairness == \A p \in Pays : WF_vars(Start(p) /\ UNCHANGED options)

-------------------------------------------------------------------------------
(* Properties.                                                             *)

\* A pay that fails does not hold up the next: if every started pay settles,
\* every queued pay starts (adapters/xrpl.ts:90).
QueueMoves ==
    (\A p \in Pays : []<>~InSection(p)) =>
        \A p \in Pays : run[p].at = "queued" ~> run[p].at # "queued"

\* A payment the account does not cover is sent only because money left the
\* account after the balance was read: the balance a pay acts on was true,
\* through rescues that fail and swaps (adapters/xrpl.ts:129).
UncoveredOnlyByDebit ==
    \A p \in Pays :
        run[p].at = "signing" /\ bal < Need[p] => debits > run[p].asOf

\* A swap buys no more than what is missing (the mutex "prevents concurrent
\* double-swap on parallel calls", adapters/xrpl.ts:58), unless
\* a withdrawal or a swap landed and then threw, leaving a stale balance.
SwapsOnlyShortage ==
    [][\A p \in Pays :
        lost' = 0 /\ run[p].at # "swapping" /\ run'[p].at = "swapping" =>
            bal + run'[p].amt <= Need[p]]_vars
===============================================================================
