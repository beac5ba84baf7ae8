---------------------------- MODULE StellarSession ----------------------------
(***************************************************************************)
(* StellarSessionClient and StellarSessionServer of src/stellar/session.ts *)
(* on one payment channel.  signCommitment(), verifyVoucher() and          *)
(* closeChannel() each await in the middle; a slot is one call under way.  *)
(* Requests carry vouchers over a network that delays, reorders, repeats   *)
(* and loses them.  The client is honest: every voucher is signed by       *)
(* signCommitment(), and the server declares the amount the client signed  *)
(* for.                                                                    *)
(***************************************************************************)
EXTENDS Integers

CONSTANTS
    ClientSlots,    \* signCommitment() calls under way together
    ServerSlots,    \* verifyVoucher() calls under way together
    Amounts,        \* amounts signed for
    MaxCumulative,  \* bound on the client's total
    MaxServed       \* bound on the total the server serves

ASSUME SessionAssumption ==
    /\ Amounts \subseteq Nat \ {0}
    /\ MaxCumulative \in Nat /\ MaxServed \in Nat

VARIABLES
    cumulative,     \* client: this.cumulative
    signing,        \* signing[s]: amount of the call in slot s, 0 if none
    mixed,          \* history: have two signatures been under way together?
    vouchers,       \* history: every voucher signed, all still deliverable
    highest,        \* server: this.highestCumulative
    signature,      \* server: the total this.highestSignature signs, 0 if none
    verifying,      \* verifying[s]: voucher whose signature slot s checks
    crossed,        \* history: have two verifications been under way together?
    closing,        \* closeChannel(): "open", "building", "sending", "closed"
    onChain,        \* amount and signature of the close() transaction
    served          \* history: total of the amounts served

server == <<highest, signature, verifying, crossed, closing, onChain, served>>
client == <<cumulative, signing, mixed, vouchers>>
vars == <<client, server>>

NoVoucher == [total |-> 0, amount |-> 0]
Voucher == [total : 1..MaxCumulative, amount : Amounts]

TypeOK ==
    /\ cumulative \in 0..MaxCumulative
    /\ signing \in [ClientSlots -> Amounts \cup {0}]
    /\ vouchers \subseteq Voucher
    /\ highest \in 0..MaxCumulative
    /\ signature \in 0..MaxCumulative
    /\ verifying \in [ServerSlots -> Voucher \cup {NoVoucher}]
    /\ closing \in {"open", "building", "sending", "closed"}
    /\ onChain \in [total : 0..MaxCumulative, signature : 0..MaxCumulative]
    /\ served \in Nat
    /\ {mixed, crossed} \subseteq BOOLEAN

Init ==
    /\ cumulative = 0
    /\ signing = [s \in ClientSlots |-> 0]
    /\ vouchers = {}
    /\ highest = 0 /\ signature = 0
    /\ verifying = [s \in ServerSlots |-> NoVoucher]
    /\ closing = "open"
    /\ onChain = [total |-> 0, signature |-> 0]
    /\ served = 0
    /\ mixed = FALSE /\ crossed = FALSE

-------------------------------------------------------------------------------
(* The client.                                                             *)

\* signCommitment() up to its await: the total is raised at once ...
StartSign(s, amount) ==
    /\ signing[s] = 0
    /\ cumulative + amount <= MaxCumulative
    /\ cumulative' = cumulative + amount
    /\ signing' = [signing EXCEPT ![s] = amount]
    /\ mixed' = (mixed \/ \E r \in ClientSlots : signing[r] # 0)
    /\ UNCHANGED vouchers /\ UNCHANGED server

\* A slip the code avoids: adding the amount a second time when signing.
Bug_FinishSignAddsAgain(s) ==
    /\ signing[s] # 0
    /\ vouchers' = vouchers \cup {[total |-> cumulative + signing[s],
                                   amount |-> signing[s]]}
    /\ signing' = [signing EXCEPT ![s] = 0]
    /\ UNCHANGED <<cumulative, mixed>> /\ UNCHANGED server

\* ... and after the await the voucher is signed for whatever the total is
\* then.
FinishSign(s) ==
    /\ signing[s] # 0
    /\ vouchers' = vouchers \cup {[total |-> cumulative, amount |-> signing[s]]}
    /\ signing' = [signing EXCEPT ![s] = 0]
    /\ UNCHANGED <<cumulative, mixed>> /\ UNCHANGED server

\* resetCumulative(), as documented: after the server has confirmed the
\* close, and with no signature under way.
Reset ==
    /\ closing = "closed" /\ cumulative > 0
    /\ \A s \in ClientSlots : signing[s] = 0
    /\ cumulative' = 0
    /\ UNCHANGED <<signing, mixed, vouchers>> /\ UNCHANGED server

-------------------------------------------------------------------------------
(* The server.                                                             *)

\* A slip the code avoids: forgetting the replay check.
Bug_StartVerifyReplays(s, v) ==
    /\ verifying[s] = NoVoucher /\ served < MaxServed
    /\ v.total <= highest + v.amount
    /\ verifying' = [verifying EXCEPT ![s] = v]
    /\ crossed' = (crossed \/ \E r \in ServerSlots : verifying[r] # NoVoucher)
    /\ UNCHANGED <<highest, signature, closing, onChain, served>>
    /\ UNCHANGED client

\* verifyVoucher() up to its await, for any voucher ever sent.  A voucher
\* that fails a check is answered with valid: false and changes nothing.
StartVerify(s, v) ==
    /\ verifying[s] = NoVoucher /\ served < MaxServed
    /\ v.total > highest
    /\ v.total - highest = v.amount
    /\ verifying' = [verifying EXCEPT ![s] = v]
    /\ crossed' = (crossed \/ \E r \in ServerSlots : verifying[r] # NoVoucher)
    /\ UNCHANGED <<highest, signature, closing, onChain, served>>
    /\ UNCHANGED client

\* A slip the code avoids: keeping the old signature.
Bug_FinishVerifyKeepsSignature(s) ==
    /\ verifying[s] # NoVoucher
    /\ highest' = verifying[s].total
    /\ signature' = IF signature = 0 THEN verifying[s].total ELSE signature
    /\ served' = served + verifying[s].amount
    /\ verifying' = [verifying EXCEPT ![s] = NoVoucher]
    /\ UNCHANGED <<crossed, closing, onChain>> /\ UNCHANGED client

\* The signature is good: total and signature are stored and the request is
\* served.
FinishVerify(s) ==
    /\ verifying[s] # NoVoucher
    /\ highest' = verifying[s].total
    /\ signature' = verifying[s].total
    /\ served' = served + verifying[s].amount
    /\ verifying' = [verifying EXCEPT ![s] = NoVoucher]
    /\ UNCHANGED <<crossed, closing, onChain>> /\ UNCHANGED client

\* closeChannel() up to the account lookup.
StartClose ==
    /\ closing = "open" /\ signature # 0
    /\ closing' = "building"
    /\ UNCHANGED <<highest, signature, verifying, crossed, onChain, served>>
    /\ UNCHANGED client

\* The transaction is built from the total and the signature of this moment.
BuildClose ==
    /\ closing = "building"
    /\ onChain' = [total |-> highest, signature |-> signature]
    /\ closing' = "sending"
    /\ UNCHANGED <<highest, signature, verifying, crossed, served>> /\ UNCHANGED client

SendClose ==
    /\ closing = "sending"
    /\ closing' = "closed"
    /\ UNCHANGED <<highest, signature, verifying, crossed, onChain, served>>
    /\ UNCHANGED client

\* An RPC of closeChannel() failed: the call rejects and can be made again.
CloseFails ==
    /\ closing \in {"building", "sending"}
    /\ closing' = "open"
    /\ onChain' = [total |-> 0, signature |-> 0]
    /\ UNCHANGED <<highest, signature, verifying, crossed, served>> /\ UNCHANGED client

Next ==
    \/ \E s \in ClientSlots :
        \/ \E amount \in Amounts : StartSign(s, amount)
        \/ FinishSign(s)
    \/ Reset
    \/ \E s \in ServerSlots :
        \/ \E v \in vouchers : StartVerify(s, v)
        \/ FinishVerify(s)
    \/ StartClose
    \/ BuildClose
    \/ SendClose
    \/ CloseFails

Spec == Init /\ [][Next]_vars

-------------------------------------------------------------------------------
(* Properties.                                                             *)

\* "Replay-protected: voucher with cumulative <= highestSeen is rejected":
\* what has been served is exactly what the channel will pay, whatever the
\* network repeats, reorders or loses, unless two verifications overlapped
\* and both compared with the same highest total.
ServedOnce == crossed \/ served = highest

\* The close transaction pays only what one signature of the client covers:
\* total and signature always go together, even when vouchers are verified
\* while the channel is being closed.
ClosePaysSigned == onChain.total = onChain.signature

\* The server never counts on more than some voucher signed by the client.
BackedByVoucher == highest # 0 => \E v \in vouchers : v.total = highest

\* "Sign a new voucher for amount more units": each voucher stands exactly
\* its amount above an earlier one (or above zero), so the server can accept
\* all of them in order, unless two signatures overlapped and both signed
\* for the total that held both amounts.
VouchersAddUp ==
    mixed \/ \A v \in vouchers :
        v.total = v.amount \/ \E w \in vouchers : w.total = v.total - v.amount
===============================================================================
