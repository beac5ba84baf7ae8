------------------------------ MODULE AgentBudgets ------------------------------
(***************************************************************************)
(* The managers of what an agent may spend for somebody else, each of      *)
(* which keeps state of its own and does every operation in one            *)
(* synchronous step:                                                       *)
(*   - DelegationManager of src/agent/delegation.ts: a budget handed down  *)
(*     from agent to agent; what matters is the order in which agents      *)
(*     split and spend what they hold;                                     *)
(*   - BatchSettlementManager and StreamingPaymentManager of               *)
(*     src/settlement/index.ts: one batch session and its vouchers, one    *)
(*     stream with its intervals;                                          *)
(*   - AP2Client and VerifiableIntentSigner of src/ap2/index.ts: a         *)
(*     checkout mandate that the user opens with constraints, the agent    *)
(*     closes with a cart and pays from, and whoever is shown the two      *)
(*     verifies.  Signatures are placeholders in the code and are not      *)
(*     modelled.                                                           *)
(***************************************************************************)
EXTENDS Integers, FiniteSets, Functions

CONSTANTS
    Contexts,       \* delegation contexts that can be made
    RootBudget,     \* createRoot's budget
    MaxDepth,       \* maxDepth
    HopPercent,     \* maxPerHopPercent
    BatchBudget, StreamBudget,
    MaxPerInterval, \* 0: not set
    Usages,         \* amounts of vouchers and of usage
    Budgets,        \* values of constraints.maxBudget; 0n is no budget
    Totals,         \* totals of carts, and amounts of payments
    MandateTtl,     \* ticks until a mandate expires
    MaxMandateTime  \* bound on time

ASSUME DelegationAssumption == {RootBudget, MaxDepth, HopPercent} \subseteq Nat

ASSUME SettlementAssumption ==
    /\ {BatchBudget, StreamBudget, MaxPerInterval} \subseteq Nat /\ Usages \subseteq Nat \ {0}

ASSUME MandateAssumption ==
    /\ Budgets \subseteq Nat /\ Totals \subseteq Nat /\ {MandateTtl, MaxMandateTime} \subseteq Nat

-------------------------------------------------------------------------------
(* Delegation.                                                             *)

VARIABLES
    contexts,   \* contexts[x]: a context, made or not
    passedOn    \* passedOn[x]: history: what x spent itself

delegationVars == <<contexts, passedOn>>

Unmade == [made |-> FALSE, depth |-> 0, total |-> 0, remaining |-> 0, parent |-> {}]
Made == {x \in Contexts : contexts[x].made}
Children(x) == {y \in Made : contexts[y].parent = {x}}

\* One type invariant.
DelegationTypeOK ==
    /\ contexts \in [Contexts -> [made : BOOLEAN, depth : 0..MaxDepth, total : Nat, remaining : Nat,
                                  parent : SUBSET Contexts]]
    /\ passedOn \in [Contexts -> Nat]

DelegationInit ==
    /\ contexts = [x \in Contexts |-> Unmade]
    /\ passedOn = [x \in Contexts |-> 0]

CreateRoot(x) ==
    /\ Made = {}
    /\ contexts' = [contexts EXCEPT ![x] = [made |-> TRUE, depth |-> 0, total |-> RootBudget,
                                            remaining |-> RootBudget, parent |-> {}]]
    /\ UNCHANGED passedOn

\* The share of what is left that one hop may take.
HopAllows(x, amount) ==
    /\ contexts[x].depth < MaxDepth
    /\ amount * 100 <= contexts[x].remaining * HopPercent
    /\ amount <= contexts[x].remaining

Delegate(x, y, amount) ==
    /\ x \in Made /\ y \notin Made /\ HopAllows(x, amount)
    /\ contexts' = [contexts EXCEPT
           ![x].remaining = @ - amount,
           ![y] = [made |-> TRUE, depth |-> contexts[x].depth + 1, total |-> amount,
                   remaining |-> amount, parent |-> {x}]]
    /\ UNCHANGED passedOn

SpendDelegated(x, amount) ==
    /\ x \in Made /\ amount <= contexts[x].remaining
    /\ contexts' = [contexts EXCEPT ![x].remaining = @ - amount]
    /\ passedOn' = [passedOn EXCEPT ![x] = @ + amount]

DelegationNext ==
    \E x \in Contexts :
        \/ CreateRoot(x)
        \/ \E amount \in 1..RootBudget :
              SpendDelegated(x, amount) \/ \E y \in Contexts : Delegate(x, y, amount)

DelegationSpec == DelegationInit /\ [][DelegationNext]_delegationVars

-------------------------------------------------------------------------------
(* Batches and streams.                                                    *)

VARIABLES
    batch,      \* the BatchSession
    batchVouchers,  \* vouchers signed for it: their cumulative amount by nonce
    stream,     \* the StreamSession
    paidOut     \* history: what settleInterval() and the last cancelStream() answered

settlementVars == <<batch, batchVouchers, stream, paidOut>>

\* One type invariant.
SettlementTypeOK ==
    /\ batch \in [spent : Nat, nonce : Nat, status : {"active", "settled"}]
    /\ batchVouchers \in [1..batch.nonce -> Nat]
    /\ stream \in [total : Nat, interval : Nat, status : {"active", "cancelled", "exhausted"}]
    /\ paidOut \in [settled : Nat, refund : Nat]

SettlementInit ==
    /\ batch = [spent |-> 0, nonce |-> 0, status |-> "active"] /\ batchVouchers = << >>
    /\ stream = [total |-> 0, interval |-> 0, status |-> "active"]
    /\ paidOut = [settled |-> 0, refund |-> 0]

\* Batches.
SignBatchVoucher(amount) ==
    LET total == batch.spent + amount
    IN  /\ batch.status = "active" /\ total <= BatchBudget
        /\ batch' = [batch EXCEPT !.spent = total, !.nonce = @ + 1]
        /\ batchVouchers' = [n \in 1..(batch.nonce + 1) |-> IF n \in DOMAIN batchVouchers THEN batchVouchers[n] ELSE total]
        /\ UNCHANGED <<stream, paidOut>>

\* verifyVoucher looks at the budget only, not at what was signed.
BatchVoucherVerifies(total, nonce) == total <= BatchBudget /\ nonce > 0

SettleBatch ==
    /\ batch' = [batch EXCEPT !.status = "settled"]
    /\ UNCHANGED <<batchVouchers, stream, paidOut>>

\* Streams.
\* Usage beyond the budget exhausts the stream; usage beyond the interval's
\* limit is refused and leaves it as it is.
RecordUsage(amount) ==
    /\ stream.status = "active"
    /\ IF stream.total + amount > StreamBudget
       THEN stream' = [stream EXCEPT !.status = "exhausted"]
       ELSE /\ MaxPerInterval # 0 => stream.interval + amount <= MaxPerInterval
            /\ stream' = [stream EXCEPT !.total = @ + amount, !.interval = @ + amount]
    /\ UNCHANGED <<batch, batchVouchers, paidOut>>

\* A slip the code avoids: an interval settled is not cleared.
Bug_SettleIntervalKeeps ==
    /\ paidOut' = [paidOut EXCEPT !.settled = @ + stream.interval]
    /\ stream.interval > 0
    /\ UNCHANGED <<batch, batchVouchers, stream>>

\* Settles whatever the status.
SettleInterval ==
    /\ paidOut' = [paidOut EXCEPT !.settled = @ + stream.interval]
    /\ stream' = [stream EXCEPT !.interval = 0]
    /\ UNCHANGED <<batch, batchVouchers>>

\* Cancels whatever the status; a second cancel answers the refund again.
CancelStream ==
    /\ stream' = [stream EXCEPT !.status = "cancelled"]
    /\ paidOut' = [paidOut EXCEPT !.refund = StreamBudget - stream.total]
    /\ UNCHANGED <<batch, batchVouchers>>

SettlementNext ==
    \/ \E amount \in Usages : SignBatchVoucher(amount) \/ RecordUsage(amount)
    \/ SettleBatch \/ SettleInterval \/ CancelStream

SettlementSpec == SettlementInit /\ [][SettlementNext]_settlementVars

-------------------------------------------------------------------------------
(* Mandates.                                                               *)

VARIABLES
    mandateNow, \* Date.now()
    checkout,   \* the CheckoutMandate
    payments,   \* amounts of the PaymentMandates made from it
    accepted    \* history: amounts accepted by verifyMandateChain

mandateVars == <<mandateNow, checkout, payments, accepted>>

\* One type invariant.
MandatesTypeOK ==
    /\ mandateNow \in 0..MaxMandateTime
    /\ checkout \in [type : {"none", "open", "closed"}, budget : Nat, total : Nat, until : Nat]
    /\ payments \subseteq Nat /\ accepted \subseteq payments

MandatesInit ==
    /\ mandateNow = 0 /\ payments = {} /\ accepted = {}
    /\ checkout = [type |-> "none", budget |-> 0, total |-> 0, until |-> 0]

CreateCheckout(budget) ==
    /\ checkout.type = "none"
    /\ checkout' = [type |-> "open", budget |-> budget, total |-> 0, until |-> mandateNow + MandateTtl]
    /\ UNCHANGED <<mandateNow, payments, accepted>>

\* The cart must fit a budget that is set; expiry, recipients and categories
\* are not looked at.
CloseCheckout(total) ==
    /\ checkout.type = "open"
    /\ checkout.budget # 0 => total <= checkout.budget
    /\ checkout' = [checkout EXCEPT !.type = "closed", !.total = total]
    /\ UNCHANGED <<mandateNow, payments, accepted>>

\* A payment may be for any amount.
CreatePayment(amount) ==
    /\ checkout.type = "closed"
    /\ payments' = payments \cup {amount}
    /\ UNCHANGED <<mandateNow, checkout, accepted>>

VerifyChain(amount) ==
    /\ amount \in payments /\ checkout.type = "closed"
    /\ amount <= checkout.total /\ mandateNow <= checkout.until
    /\ accepted' = accepted \cup {amount}
    /\ UNCHANGED <<mandateNow, checkout, payments>>

MandateTick ==
    /\ mandateNow < MaxMandateTime
    /\ mandateNow' = mandateNow + 1
    /\ UNCHANGED <<checkout, payments, accepted>>

MandatesNext ==
    \/ \E budget \in Budgets : CreateCheckout(budget)
    \/ \E amount \in Totals : CloseCheckout(amount) \/ CreatePayment(amount) \/ VerifyChain(amount)
    \/ MandateTick

MandatesSpec == MandatesInit /\ [][MandatesNext]_mandateVars

-------------------------------------------------------------------------------
(* Properties.                                                             *)

\* What each context was given.
Shares == [x \in Contexts |-> contexts[x].total]

\* However agents split and spend it, the budget is all there: what a context
\* was given is what it holds, spent and handed down, so the tree never spends
\* more than its root had; and nobody's children hold more than a hop may take.
BudgetsNest ==
    /\ \A x \in Made :
          contexts[x].total = contexts[x].remaining + passedOn[x]
                                 + SumFunctionOnSet(Shares, Children(x))
    /\ SumFunctionOnSet(passedOn, Made) <= RootBudget
    /\ \A x \in Made : \A y \in Children(x) :
          /\ contexts[y].total * 100 <= contexts[x].total * HopPercent
          /\ contexts[y].depth <= MaxDepth

\* Every voucher signed verifies, a later one is for more, and the last is for
\* all that was spent; what a stream settled and is yet to settle is its usage,
\* so that with its refund it gives out its budget and no more, in whatever
\* order it is used, settled, exhausted and cancelled.
StreamsBalance ==
    /\ \A n \in DOMAIN batchVouchers :
          /\ BatchVoucherVerifies(batchVouchers[n], n)
          /\ \A m \in DOMAIN batchVouchers : m < n => batchVouchers[m] < batchVouchers[n]
    /\ batch.nonce > 0 => batchVouchers[batch.nonce] = batch.spent
    /\ paidOut.settled + stream.interval = stream.total
    /\ stream.status = "cancelled" => paidOut.settled + stream.interval + paidOut.refund = StreamBudget

\* A payment that was ever accepted is covered by the cart the mandate stands
\* for now, and by the budget the user set.
AcceptedStaysCovered ==
    \A amount \in accepted :
        amount <= checkout.total /\ (checkout.budget # 0 => amount <= checkout.budget)
===============================================================================
