----------------------------- MODULE GaslessRelay -----------------------------
(***************************************************************************)
(* Gasless FXRP payments, src/flare/gasless.ts: a buyer who reads the      *)
(* forwarder's nonce, signs a request and posts it, and the relayer's      *)
(* executor, which checks the signature and the deadline once more before  *)
(* its sponsor pays gas.  Pays of one buyer may overlap, and a signed      *)
(* request may be posted again (submitToRelayer is public).  The forwarder *)
(* contract, the chain and the network are external.                       *)
(***************************************************************************)
EXTENDS Integers, FiniteSets

CONSTANTS
    GaslessPays,    \* payments of the one buyer, one unit of FXRP each
    Jobs,           \* executions of the relayer's handler
    NoPay,
    Validity,       \* deadlineSeconds, in ticks
    MaxChainTime,   \* bound on time
    StartFunds      \* the buyer's FXRP

ASSUME GaslessAssumption ==
    /\ NoPay \notin GaslessPays /\ IsFiniteSet(GaslessPays)
    /\ Validity \in Nat \ {0} /\ MaxChainTime \in Nat /\ StartFunds \in Nat

VARIABLES
    forwarder,  \* external: the buyer's nonce, funds and approval, and the payments made
    chainTime,  \* external: the time of the latest block
    signed,     \* signed[p]: the buyer's side of payment p
    jobs        \* jobs[j]: one execution of the handler; heard while the buyer's
                \* connection is open; stale (history) when its nonce was used up on arrival

gaslessVars == <<forwarder, chainTime, signed, jobs>>

Nonces == 0..Cardinality(GaslessPays)
NoJob == [at |-> "free", pay |-> NoPay, read |-> 0, heard |-> FALSE, stale |-> FALSE]

\* One type invariant.
GaslessTypeOK ==
    /\ forwarder \in [nonce : Nonces, funds : 0..StartFunds, approved : BOOLEAN,
                      paid : SUBSET GaslessPays]
    /\ chainTime \in 0..MaxChainTime
    /\ signed \in [GaslessPays -> [at : {"idle", "nonce", "signed", "posted", "paid", "threw"},
                                   nonce : Nonces, deadline : 0..(MaxChainTime + Validity)]]
    /\ jobs \in [Jobs -> [at : {"free", "arrived", "read", "verified", "sent", "ok",
                                "reverted", "answered", "refused", "late"},
                          pay : GaslessPays \cup {NoPay}, read : Nonces,
                          heard : BOOLEAN, stale : BOOLEAN]]

GaslessInit ==
    /\ forwarder = [nonce |-> 0, funds |-> StartFunds, approved |-> FALSE, paid |-> {}]
    /\ chainTime = 0
    /\ signed = [p \in GaslessPays |-> [at |-> "idle", nonce |-> 0, deadline |-> 0]]
    /\ jobs = [j \in Jobs |-> NoJob]

GoJob(j, at) == jobs' = [jobs EXCEPT ![j].at = at]

\* The answer of j, if the buyer still hears it, settles the payment's call.
Tell(j, outcome) ==
    signed' = IF jobs[j].heard THEN [signed EXCEPT ![jobs[j].pay].at = outcome] ELSE signed

-------------------------------------------------------------------------------
(* The buyer.                                                              *)

\* approve: the one transaction the buyer pays for.
Approve ==
    /\ ~forwarder.approved
    /\ forwarder' = [forwarder EXCEPT !.approved = TRUE]
    /\ UNCHANGED <<chainTime, signed, jobs>>

\* createAndSign reads the nonce the forwarder expects next.
ReadNonce(p) ==
    /\ signed[p].at = "idle"
    /\ signed' = [signed EXCEPT ![p].at = "nonce", ![p].nonce = forwarder.nonce]
    /\ UNCHANGED <<forwarder, chainTime, jobs>>

\* The deadline counts from the time of the latest block; a wallet may refuse.
SignRequest(p) ==
    /\ signed[p].at = "nonce"
    /\ \/ signed' = [signed EXCEPT ![p].at = "signed", ![p].deadline = chainTime + Validity]
       \/ signed' = [signed EXCEPT ![p].at = "threw"]
    /\ UNCHANGED <<forwarder, chainTime, jobs>>

\* submitToRelayer posts a signed request: the first time, or once more after
\* an earlier post of it threw.
PostRequest(p, j) ==
    /\ jobs[j].at = "free"
    /\ \/ signed[p].at = "signed"
       \/ signed[p].at = "threw" /\ \E k \in Jobs : jobs[k].pay = p
    /\ signed' = [signed EXCEPT ![p].at = "posted"]
    /\ jobs' = [jobs EXCEPT ![j] = [at |-> "arrived", pay |-> p, read |-> 0, heard |-> TRUE,
                                    stale |-> forwarder.nonce > signed[p].nonce]]
    /\ UNCHANGED <<forwarder, chainTime>>

-------------------------------------------------------------------------------
(* The executor, one step between two awaits.                              *)

\* It reads the nonce itself: the request carries none.
ReadExpected(j) ==
    /\ jobs[j].at = "arrived"
    /\ jobs' = [jobs EXCEPT ![j].at = "read", ![j].read = forwarder.nonce]
    /\ UNCHANGED <<forwarder, chainTime, signed>>

\* A slip the code avoids: the signature is left to the contract to check.
Bug_VerifySignatureSkipped(j) ==
    /\ jobs[j].at = "read"
    /\ GoJob(j, "verified")
    /\ UNCHANGED <<forwarder, chainTime, signed>>

\* FLARE_GASLESS_BAD_SIGNATURE unless the signature is over the nonce read.
VerifySignature(j) ==
    /\ jobs[j].at = "read"
    /\ IF signed[jobs[j].pay].nonce = jobs[j].read
       THEN GoJob(j, "verified") /\ UNCHANGED signed
       ELSE GoJob(j, "refused") /\ Tell(j, "threw")
    /\ UNCHANGED <<forwarder, chainTime>>

\* FLARE_GASLESS_EXPIRED, or executePayment is sent.
CheckDeadline(j) ==
    /\ jobs[j].at = "verified"
    /\ IF signed[jobs[j].pay].deadline > chainTime
       THEN GoJob(j, "sent") /\ UNCHANGED signed
       ELSE GoJob(j, "refused") /\ Tell(j, "threw")
    /\ UNCHANGED <<forwarder, chainTime>>

\* A read or the write fails before a transaction is sent.
ExecutorFails(j) ==
    /\ jobs[j].at \in {"arrived", "read", "verified"}
    /\ GoJob(j, "refused") /\ Tell(j, "threw")
    /\ UNCHANGED <<forwarder, chainTime>>

\* A receipt that is a success is answered with success, a reverted one is
\* FLARE_GASLESS_REVERT.
AnswerReceipt(j) ==
    /\ \/ jobs[j].at = "ok" /\ GoJob(j, "answered") /\ Tell(j, "paid")
       \/ jobs[j].at = "reverted" /\ GoJob(j, "refused") /\ Tell(j, "threw")
    /\ UNCHANGED <<forwarder, chainTime>>

\* The receipt does not come within receiptTimeoutMs; the transaction may land.
RelayReceiptLate(j) ==
    /\ jobs[j].at = "sent"
    /\ GoJob(j, "late") /\ Tell(j, "threw")
    /\ UNCHANGED <<forwarder, chainTime>>

\* The buyer's connection drops: submitToRelayer throws, the executor goes on.
Disconnect(j) ==
    /\ jobs[j].heard /\ signed[jobs[j].pay].at = "posted"
    /\ jobs[j].at \notin {"answered", "refused", "late"}
    /\ jobs' = [jobs EXCEPT ![j].heard = FALSE]
    /\ Tell(j, "threw")
    /\ UNCHANGED <<forwarder, chainTime>>

-------------------------------------------------------------------------------
(* External: executePayment, and the chain's clock.                        *)

\* The contract takes the signature over its own nonce, before the deadline,
\* and pulls the token; it counts the nonce up with the payment.
ContractTakes(p) ==
    /\ signed[p].nonce = forwarder.nonce
    /\ chainTime < signed[p].deadline
    /\ forwarder.approved /\ forwarder.funds > 0

Pull(p) == forwarder' = [forwarder EXCEPT !.nonce = @ + 1, !.funds = @ - 1, !.paid = @ \cup {p}]

MineExecution(j) ==
    /\ jobs[j].at = "sent"
    /\ IF ContractTakes(jobs[j].pay)
       THEN Pull(jobs[j].pay) /\ GoJob(j, "ok")
       ELSE GoJob(j, "reverted") /\ UNCHANGED forwarder
    /\ UNCHANGED <<chainTime, signed>>

\* A transaction nobody waits for any longer lands.
MineLate(j) ==
    /\ jobs[j].at = "late" /\ ContractTakes(jobs[j].pay)
    /\ Pull(jobs[j].pay)
    /\ UNCHANGED <<chainTime, signed, jobs>>

GaslessTick ==
    /\ chainTime < MaxChainTime
    /\ chainTime' = chainTime + 1
    /\ UNCHANGED <<forwarder, signed, jobs>>

GaslessNext ==
    \/ Approve \/ GaslessTick
    \/ \E p \in GaslessPays :
        \/ ReadNonce(p) \/ SignRequest(p)
        \/ \E j \in Jobs : PostRequest(p, j)
    \/ \E j \in Jobs :
        \/ ReadExpected(j) \/ VerifySignature(j) \/ CheckDeadline(j) \/ ExecutorFails(j)
        \/ AnswerReceipt(j) \/ RelayReceiptLate(j) \/ Disconnect(j)
        \/ MineExecution(j) \/ MineLate(j)

GaslessSpec == GaslessInit /\ [][GaslessNext]_gaslessVars

-------------------------------------------------------------------------------
(* Properties.                                                             *)

\* A pay that reports success was made, whatever overlapped it.
PaidMeansTransferred ==
    \A p \in GaslessPays : signed[p].at = "paid" => p \in forwarder.paid

\* A pay that was rejected without a lost answer or a late receipt on the way
\* was not made: the buyer may sign again without paying twice.
RejectedMeansUnpaid ==
    \A p \in GaslessPays : signed[p].at = "threw" /\ p \in forwarder.paid =>
        \E j \in Jobs : jobs[j].pay = p /\ (jobs[j].at = "late" \/ ~jobs[j].heard)

\* A request whose nonce was used up before it arrived costs the sponsor no
\* gas ("catches bad domain/nonce before paying gas", gasless.ts:352).
NoGasForStale ==
    \A j \in Jobs : jobs[j].stale => jobs[j].at \in {"arrived", "read", "refused"}

\* Overlapping pays of one buyer sign the same nonce; the relay keeps its word
\* all the same.
RelayKeepsItsWord == PaidMeansTransferred /\ RejectedMeansUnpaid /\ NoGasForStale
===============================================================================
