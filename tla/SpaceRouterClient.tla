-------------------------- MODULE SpaceRouterClient --------------------------
(***************************************************************************)
(* SpaceRouterClient of src/spacerouter/client.ts with the deposit() of    *)
(* src/spacerouter/escrow.ts it tops the escrow up with.  fetch() awaits   *)
(* the escrow balance, the deposit's transactions, the proxied response    *)
(* and the signer's address, so calls overlap; a slot is one fetch() under *)
(* way.  The receipt scheduler is reduced to its buffer here: its flushes, *)
(* with their failures and retries, are the subject of ReceiptScheduler.   *)
(* The withdrawals of escrow.ts are a part of their own below.  The chain  *)
(* mines the account's transactions in nonce order.                        *)
(***************************************************************************)
EXTENDS Integers, Sequences, FiniteSets

CONSTANTS
    Slots,          \* fetch() calls under way together
    MinBalance,     \* autoEscrow.minBalance, 0 when absent
    TopUp,          \* autoEscrow.topUpAmount
    Threshold,      \* autoEscrow.claimThreshold, 0 when absent
    Timed,          \* autoEscrow.syncIntervalMs is set
    Wallet,         \* tokens the account starts with
    Funded,         \* escrow balance it starts with
    MaxFetches,     \* bound on the fetch() calls
    MaxSchedulers,  \* bound on the schedulers created
    Withdrawers,    \* calls of the withdrawal operations under way together
    Sums,           \* amounts a withdrawal may be for
    Lock,           \* external: the contract's time lock, in ticks
    MaxCalls,       \* bound on the withdrawal calls
    MaxDays         \* bound on the chain's time

ASSUME SpaceRouterAssumption ==
    /\ {MinBalance, Threshold, Wallet, Funded, MaxFetches} \subseteq Nat
    /\ {TopUp, MaxSchedulers} \subseteq Nat \ {0}
    /\ Timed \in BOOLEAN
    /\ Sums \subseteq Nat \ {0} /\ {Lock, MaxCalls, MaxDays} \subseteq Nat
    /\ Threshold # 0 \/ Timed    \* otherwise there is no scheduler at all

VARIABLES
    wallet, allowance, escrow,  \* external: the chain
    pool,           \* external: transactions submitted and not mined
    reverted,       \* history: has the chain refused a deposit?
    crowded,        \* history: has a deposit() begun before an earlier one was mined?
    stage,          \* stage[s]: what the fetch() in slot s waits for
    carried,        \* carried[s]: receipt of its response, 0 if none
    scheduler,      \* this.scheduler_lazy, 0 if none
    created,        \* schedulers created so far
    buffers,        \* buffers[k]: the buffer of scheduler k
    closed,         \* schedulers that have been closed
    sdk,            \* the wrapped SDK: "unknown", "loaded" or "missing" for good
    fetches,        \* fetch() calls so far
    received,       \* receipts returned by the gateway so far
    flushed,        \* history: receipts handed to the gateway
    dropped         \* history: receipts refused by a closed scheduler

chain == <<wallet, allowance, escrow, pool, reverted, crowded>>
receipts == <<scheduler, created, buffers, closed, flushed, dropped>>
clientVars == <<chain, stage, carried, receipts, received, sdk, fetches>>

Schedulers == 1..MaxSchedulers
ClientReceipts == 1..MaxFetches
Stages == {"idle", "balance", "allowance", "approve", "approved", "loading", "response", "address"}
Tx == [kind : {"approve", "deposit"}, from : Slots]

ClientTypeOK ==
    /\ {wallet, allowance, escrow} \subseteq Nat /\ {reverted, crowded} \subseteq BOOLEAN
    /\ pool \in Seq(Tx)
    /\ stage \in [Slots -> Stages]
    /\ carried \in [Slots -> 0..MaxFetches]
    /\ scheduler \in 0..created
    /\ created \in 0..MaxSchedulers
    /\ buffers \in [Schedulers -> SUBSET ClientReceipts]
    /\ closed \subseteq 1..created
    /\ sdk \in {"unknown", "loaded", "missing"}
    /\ received \in 0..fetches /\ fetches \in 0..MaxFetches
    /\ flushed \subseteq ClientReceipts /\ dropped \subseteq ClientReceipts

ClientInit ==
    /\ wallet = Wallet /\ allowance = 0 /\ escrow = Funded
    /\ pool = << >>
    /\ reverted = FALSE /\ crowded = FALSE
    /\ stage = [s \in Slots |-> "idle"]
    /\ carried = [s \in Slots |-> 0]
    /\ scheduler = 0 /\ created = 0
    /\ buffers = [k \in Schedulers |-> {}]
    /\ closed = {}
    /\ received = 0 /\ fetches = 0 /\ sdk = "unknown"
    /\ flushed = {} /\ dropped = {}

At(s, here, there) == stage[s] = here /\ stage' = [stage EXCEPT ![s] = there]
Submit(kind, s) == pool' = Append(pool, [kind |-> kind, from |-> s])

-------------------------------------------------------------------------------
(* The chain.                                                              *)

\* The oldest transaction is mined.  approve sets the allowance; a deposit
\* without the allowance or the tokens reverts.
Mine ==
    /\ pool # << >>
    /\ pool' = Tail(pool)
    /\ LET tx == Head(pool) IN
       \/ /\ tx.kind = "approve"
          /\ allowance' = TopUp
          /\ stage' = IF stage[tx.from] = "approve"
                         THEN [stage EXCEPT ![tx.from] = "approved"] ELSE stage
          /\ UNCHANGED <<wallet, escrow, reverted>>
       \/ /\ tx.kind = "deposit"
          /\ allowance >= TopUp /\ wallet >= TopUp
          /\ allowance' = allowance - TopUp
          /\ wallet' = wallet - TopUp
          /\ escrow' = escrow + TopUp
          /\ UNCHANGED <<reverted, stage>>
       \/ /\ tx.kind = "deposit"
          /\ allowance < TopUp \/ wallet < TopUp
          /\ reverted' = TRUE
          /\ UNCHANGED <<wallet, allowance, escrow, stage>>
    /\ UNCHANGED <<crowded, carried, receipts, received, sdk, fetches>>

\* The providers claim what they have served from the escrow.
Claim ==
    /\ escrow > 0
    /\ escrow' = escrow - 1
    /\ UNCHANGED <<wallet, allowance, pool, reverted, crowded, stage, carried, receipts, received, sdk, fetches>>

-------------------------------------------------------------------------------
(* fetch().                                                                *)

StartFetch(s) ==
    /\ fetches < MaxFetches
    /\ fetches' = fetches + 1
    /\ At(s, "idle", "balance")
    /\ UNCHANGED <<chain, carried, receipts, received, sdk>>

\* ensureBalance(): below the minimum it goes on to deposit(); an empty
\* escrow with no top-up configured throws EscrowEmptyError.
EnsureBalance(s) ==
    /\ \/ MinBalance # 0 /\ escrow < MinBalance /\ At(s, "balance", "allowance")
       \/ (MinBalance = 0 \/ escrow >= MinBalance) /\ escrow = 0 /\ At(s, "balance", "idle")
       \/ (MinBalance = 0 \/ escrow >= MinBalance) /\ escrow > 0 /\ At(s, "balance", "loading")
    /\ UNCHANGED <<chain, carried, receipts, received, sdk, fetches>>

Depositing(s) == stage[s] \in {"allowance", "approve", "approved"}

\* A slip the code avoids: depositing whatever the allowance is.
Bug_ReadAllowanceNeverApproves(s) ==
    /\ At(s, "allowance", "loading") /\ Submit("deposit", s)
    /\ crowded' = (crowded \/ pool # << >> \/ \E t \in Slots \ {s} : Depositing(t))
    /\ UNCHANGED <<wallet, allowance, escrow, reverted, carried, receipts, received, sdk, fetches>>

\* deposit(): the allowance decides whether an approve goes first.
ReadAllowance(s) ==
    /\ \/ allowance < TopUp /\ At(s, "allowance", "approve") /\ Submit("approve", s)
       \/ allowance >= TopUp /\ At(s, "allowance", "loading") /\ Submit("deposit", s)
    /\ crowded' = (crowded \/ pool # << >> \/ \E t \in Slots \ {s} : Depositing(t))
    /\ UNCHANGED <<wallet, allowance, escrow, reverted, carried, receipts, received, sdk, fetches>>

\* The approve has its receipt: the deposit is submitted, and fetch() goes
\* on without waiting for it to be mined.
SubmitDeposit(s) ==
    /\ At(s, "approved", "loading")
    /\ Submit("deposit", s)
    /\ UNCHANGED <<wallet, allowance, escrow, reverted, crowded, carried, receipts, received, sdk, fetches>>

\* loadWrappedClient(), after a top-up if there was one: a module that could not
\* be loaded once is not tried again.
LoadSdk(s) ==
    /\ \/ sdk # "missing" /\ sdk' = "loaded" /\ At(s, "loading", "response")
       \/ sdk # "loaded" /\ sdk' = "missing" /\ At(s, "loading", "idle")
    /\ UNCHANGED <<chain, carried, receipts, received, fetches>>

\* enqueue() of receipt r at scheduler k: a closed scheduler throws, which is
\* swallowed, and at the threshold the buffer is flushed.
EnqueueAt(k, r) ==
    LET full == buffers[k] \cup {r} IN
    IF r = 0 THEN UNCHANGED <<buffers, flushed, dropped>>
    ELSE IF k \in closed
    THEN dropped' = dropped \cup {r} /\ UNCHANGED <<buffers, flushed>>
    ELSE /\ UNCHANGED dropped
         /\ IF Threshold # 0 /\ Cardinality(full) >= Threshold
            THEN /\ flushed' = flushed \cup full
                 /\ buffers' = [buffers EXCEPT ![k] = {}]
            ELSE /\ buffers' = [buffers EXCEPT ![k] = full]
                 /\ UNCHANGED flushed

\* The response is there, with the header of a new receipt or without.  With
\* a scheduler the receipt is enqueued, without one the signer's address is
\* awaited first.
Respond(s, r) ==
    /\ r \in {0, received + 1}
    /\ received' = IF r = 0 THEN received ELSE r
    /\ \/ /\ scheduler = 0
          /\ At(s, "response", "address")
          /\ carried' = [carried EXCEPT ![s] = r]
          /\ UNCHANGED receipts
       \/ /\ scheduler # 0
          /\ At(s, "response", "idle")
          /\ EnqueueAt(scheduler, r)
          /\ UNCHANGED <<carried, scheduler, created, closed>>
    /\ UNCHANGED <<chain, sdk, fetches>>

\* The proxied request fails: fetch() rejects.
ProxyFails(s) ==
    /\ At(s, "response", "idle")
    /\ UNCHANGED <<chain, carried, receipts, received, sdk, fetches>>

\* ensureScheduler() after its await: a scheduler is created and stored,
\* whether or not another call has stored one in between.
EnsureScheduler(s) ==
    /\ created < MaxSchedulers
    /\ At(s, "address", "idle")
    /\ created' = created + 1
    /\ scheduler' = created'
    /\ EnqueueAt(created', carried[s])
    /\ carried' = [carried EXCEPT ![s] = 0]
    /\ UNCHANGED <<chain, closed, received, sdk, fetches>>

\* The timer of scheduler k, open or orphaned, or syncReceipts().
FlushBuffer(k) ==
    /\ k <= created /\ buffers[k] # {}
    /\ (Timed /\ k \notin closed) \/ k = scheduler
    /\ flushed' = flushed \cup buffers[k]
    /\ buffers' = [buffers EXCEPT ![k] = {}]
    /\ UNCHANGED <<chain, stage, carried, scheduler, created, closed, dropped, received, sdk, fetches>>

\* A slip the code avoids: throwing the buffer away.
Bug_CloseClientDiscards ==
    /\ scheduler # 0 /\ scheduler \notin closed
    /\ closed' = closed \cup {scheduler}
    /\ buffers' = [buffers EXCEPT ![scheduler] = {}]
    /\ UNCHANGED <<chain, stage, carried, scheduler, created, flushed, dropped, received, sdk, fetches>>

\* close(): the scheduler, if there is one, stops its timer and flushes.
CloseClient ==
    /\ scheduler # 0 /\ scheduler \notin closed
    /\ closed' = closed \cup {scheduler}
    /\ flushed' = flushed \cup buffers[scheduler]
    /\ buffers' = [buffers EXCEPT ![scheduler] = {}]
    /\ UNCHANGED <<chain, stage, carried, scheduler, created, dropped, received, sdk, fetches>>

ClientNext ==
    \/ Mine \/ Claim \/ CloseClient
    \/ \E k \in Schedulers : FlushBuffer(k)
    \/ \E s \in Slots :
        \/ StartFetch(s) \/ EnsureBalance(s) \/ ReadAllowance(s) \/ SubmitDeposit(s) \/ LoadSdk(s)
        \/ \E r \in 0..MaxFetches : Respond(s, r)
        \/ ProxyFails(s) \/ EnsureScheduler(s)

ClientSpec == ClientInit /\ [][ClientNext]_clientVars

-------------------------------------------------------------------------------
(* Withdrawals.                                                            *)

VARIABLES
    owed,           \* external: the escrow balance
    request,        \* external: the pending withdrawal, amount and unlock time
    day,            \* external: time of the chain
    ahead,          \* how far the caller's clock is ahead of it
    calls,          \* calls[w]: what the operation in slot w is about
    mempool,        \* external: withdrawal transactions submitted and not mined
    made,           \* operations so far
    paidOut,        \* history: what was withdrawn
    denied          \* history: the last transaction refused and why it may be

withdrawVars == <<owed, request, day, ahead, calls, mempool, made, paidOut, denied>>

NoRequest == [amount |-> 0, unlockAt |-> 0]
NoCall == [at |-> "idle", sum |-> 0, seen |-> NoRequest]
NoDenial == [kind |-> "none", excused |-> TRUE]

WithdrawInit ==
    /\ owed = TopUp
    /\ request = NoRequest
    /\ day = 0 /\ ahead \in {0, 1}
    /\ calls = [w \in Withdrawers |-> NoCall]
    /\ mempool = << >>
    /\ made = 0 /\ paidOut = 0
    /\ denied = NoDenial

\* initiateWithdrawal and executeWithdrawal ask for the request first.
BeginWithdrawal(w) ==
    /\ calls[w].at = "idle" /\ made < MaxCalls /\ made' = made + 1
    /\ \E kind \in {"initiate", "execute"}, sum \in Sums :
        calls' = [calls EXCEPT ![w] = [at |-> kind, sum |-> sum, seen |-> request]]
    /\ UNCHANGED <<owed, request, day, ahead, mempool, paidOut, denied>>

\* A transaction goes out; what it was based on has changed, or may change before
\* it is mined, when another is on its way.
Send(kind, sum, seen) ==
    mempool' = Append(mempool, [kind |-> kind, sum |-> sum,
                  shaky |-> \/ seen # request \/ mempool # << >>
                            \/ (kind = "execute" /\ day < seen.unlockAt)])

\* initiateWithdrawal throws when a request is pending.
Initiate(w) ==
    /\ calls[w].at = "initiate"
    /\ IF calls[w].seen.amount > 0 THEN UNCHANGED mempool
       ELSE Send("initiate", calls[w].sum, calls[w].seen)
    /\ calls' = [calls EXCEPT ![w] = NoCall]
    /\ UNCHANGED <<owed, request, day, ahead, made, paidOut, denied>>

\* executeWithdrawal throws when there is none, or it is locked by the caller's clock.
Execute(w) ==
    /\ calls[w].at = "execute"
    /\ IF calls[w].seen.amount > 0 /\ day + ahead >= calls[w].seen.unlockAt
       THEN Send("execute", 0, calls[w].seen)
       ELSE UNCHANGED mempool
    /\ calls' = [calls EXCEPT ![w] = NoCall]
    /\ UNCHANGED <<owed, request, day, ahead, made, paidOut, denied>>

\* cancelWithdrawal asks for nothing.
Cancel ==
    /\ made < MaxCalls /\ made' = made + 1
    /\ mempool' = Append(mempool, [kind |-> "cancel", sum |-> 0, shaky |-> TRUE])
    /\ UNCHANGED <<owed, request, day, ahead, calls, paidOut, denied>>

\* external: the contract takes one request at a time, locks it, and pays it from
\* what is left.
MineWithdrawal ==
    /\ mempool # << >> /\ mempool' = Tail(mempool)
    /\ LET tx == Head(mempool) IN
       \/ /\ tx.kind = "initiate" /\ request = NoRequest /\ tx.sum <= owed
          /\ request' = [amount |-> tx.sum, unlockAt |-> day + Lock]
          /\ UNCHANGED <<owed, paidOut, denied>>
       \/ /\ tx.kind = "execute" /\ request # NoRequest
          /\ day >= request.unlockAt /\ request.amount <= owed
          /\ owed' = owed - request.amount /\ paidOut' = paidOut + request.amount
          /\ request' = NoRequest /\ UNCHANGED denied
       \/ /\ tx.kind = "cancel" /\ request # NoRequest
          /\ request' = NoRequest
          /\ UNCHANGED <<owed, paidOut, denied>>
       \/ LET sum == IF tx.kind = "initiate" THEN tx.sum ELSE request.amount IN
          /\ CASE tx.kind = "initiate" -> request # NoRequest \/ sum > owed
               [] tx.kind = "execute" -> request = NoRequest \/ day < request.unlockAt \/ sum > owed
               [] tx.kind = "cancel" -> request = NoRequest
          /\ denied' = [kind |-> tx.kind, excused |-> tx.shaky \/ sum > owed]
          /\ UNCHANGED <<owed, request, paidOut>>
    /\ UNCHANGED <<day, ahead, calls, made>>

\* external: the providers claim, and a day passes.
EscrowAges ==
    /\ \/ owed > 0 /\ owed' = owed - 1 /\ UNCHANGED day
       \/ day < MaxDays /\ day' = day + 1 /\ UNCHANGED owed
    /\ UNCHANGED <<request, ahead, calls, mempool, made, paidOut, denied>>

WithdrawNext ==
    \/ \E w \in Withdrawers : BeginWithdrawal(w) \/ Initiate(w) \/ Execute(w)
    \/ Cancel \/ MineWithdrawal \/ EscrowAges

WithdrawSpec == WithdrawInit /\ [][WithdrawNext]_withdrawVars

-------------------------------------------------------------------------------
(* Properties.                                                             *)

Buffered == UNION {buffers[k] : k \in Schedulers}
Carried == {carried[s] : s \in Slots} \ {0}

\* Every receipt the gateway returned is in exactly one place: carried by a
\* fetch(), in a buffer, handed to the gateway, or refused by a scheduler
\* that was closed before it arrived.
ReceiptsAccountedFor ==
    /\ 1..received = Carried \cup Buffered \cup flushed \cup dropped
    /\ Carried \cap (Buffered \cup flushed \cup dropped) = {}
    /\ Buffered \cap (flushed \cup dropped) = {} /\ flushed \cap dropped = {}
    /\ \A k, l \in Schedulers : k # l => buffers[k] \cap buffers[l] = {}
    /\ dropped # {} => closed # {}

\* Every receipt still waiting is in the buffer of the scheduler that close()
\* will flush, unless two first fetches overlapped and each made a scheduler.
CloseReachesReceipts ==
    created <= 1 =>
        \A k \in Schedulers : buffers[k] # {} => k = scheduler /\ k \notin closed

\* A deposit the account has tokens for does not revert, unless one was begun
\* before an earlier one was mined and counted on the allowance that one used.
DepositsLand == reverted => wallet < TopUp \/ crowded

\* The checks of initiateWithdrawal and executeWithdrawal keep a transaction from
\* being refused by the chain, unless another withdrawal transaction came between,
\* the caller's clock is ahead of the chain's, or the providers have claimed what
\* was to be withdrawn (spacerouter/escrow.ts:224-255).
WithdrawalsLand == denied.kind = "none" \/ denied.excused

\* No receipt is lost on its way: each is in one place, and the ones that wait
\* are where close() flushes them (spacerouter/client.ts:206-240).
NoReceiptLost == ReceiptsAccountedFor /\ CloseReachesReceipts

\* What the escrow is asked for it can do: deposits that the wallet covers, and
\* withdrawals that the checks found possible (spacerouter/escrow.ts:190-265).
EscrowHolds == DepositsLand /\ WithdrawalsLand
===============================================================================
