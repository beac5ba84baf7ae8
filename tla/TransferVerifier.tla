--------------------------- MODULE TransferVerifier ---------------------------
(***************************************************************************)
(* verifyExactRlusdPayment and verifyWormholeNttPayment of                 *)
(* src/middleware.ts: a payment is proved by the receipt of a transaction, *)
(* and a process-wide set of consumed hashes keeps a proof from being used *)
(* twice.  The two functions share the set and differ only in the log they *)
(* look for.  Both await the receipt and then the block number; a slot is  *)
(* one call under way.  The chain is external.                             *)
(***************************************************************************)
EXTENDS Integers

CONSTANTS
    Txs,            \* transactions
    Matching,       \* those whose logs pay the merchant enough
    Verifications,  \* verifications under way together
    MaxBlockAge,    \* maxBlockAge
    NoTx,
    MaxBlock,       \* bound on the chain's height
    MaxReboots      \* bound on process reboots

ASSUME VerifierAssumption ==
    /\ Matching \subseteq Txs
    /\ NoTx \notin Txs
    /\ MaxBlockAge \in Nat /\ MaxBlock \in Nat /\ MaxReboots \in Nat

VARIABLES
    tip,        \* external: the chain's height
    block,      \* external: block[t] that holds transaction t, 0 if none yet
    consumed,   \* idempotencyCache
    calls,      \* calls[s]: the verification in slot s
    accepted,   \* accepted[t]: how often ok: true was answered for t
    usedAt,     \* history: usedAt[t], the tip t was last accepted at
    exposed,    \* history: transactions that were under way twice together, or
                \*   whose use a restart made the process forget
    reboots     \* process restarts

proved == <<tip, block>>
answers == <<consumed, accepted, usedAt, exposed, reboots>>
verifierVars == <<proved, calls, answers>>

NoCall == [stage |-> "idle", tx |-> NoTx]
Call == [stage : {"receipt", "tip"}, tx : Txs] \cup {NoCall}

VerifierTypeOK ==
    /\ tip \in 0..MaxBlock
    /\ block \in [Txs -> 0..MaxBlock]
    /\ consumed \subseteq Txs
    /\ calls \in [Verifications -> Call]
    /\ accepted \in [Txs -> Nat]
    /\ usedAt \in [Txs -> 0..MaxBlock]
    /\ exposed \subseteq Txs
    /\ reboots \in 0..MaxReboots

VerifierInit ==
    /\ tip = 0
    /\ block = [t \in Txs |-> 0]
    /\ consumed = {}
    /\ calls = [s \in Verifications |-> NoCall]
    /\ accepted = [t \in Txs |-> 0]
    /\ usedAt = [t \in Txs |-> 0]
    /\ exposed = {}
    /\ reboots = 0

-------------------------------------------------------------------------------
(* The chain.                                                              *)

\* A block with one new transaction, or an empty one.
Mine(t) ==
    /\ tip < MaxBlock /\ block[t] = 0
    /\ tip' = tip + 1
    /\ block' = [block EXCEPT ![t] = tip']
    /\ UNCHANGED <<calls, answers>>

MineEmpty ==
    /\ tip < MaxBlock
    /\ tip' = tip + 1
    /\ UNCHANGED <<block, calls, answers>>

-------------------------------------------------------------------------------
(* The verifier.                                                           *)

\* A call up to its first await.  A consumed hash is refused at once.
Start(s, t) ==
    /\ calls[s] = NoCall
    /\ t \notin consumed
    /\ calls' = [calls EXCEPT ![s] = [stage |-> "receipt", tx |-> t]]
    /\ exposed' = exposed \cup {u \in {t} : \E r \in Verifications : calls[r].tx = u}
    /\ UNCHANGED <<proved, consumed, accepted, usedAt, reboots>>

\* The receipt is there and its status is success.
Receipt(s) ==
    /\ calls[s].stage = "receipt"
    /\ block[calls[s].tx] # 0
    /\ calls' = [calls EXCEPT ![s].stage = "tip"]
    /\ UNCHANGED <<proved, answers>>

\* A slip the code avoids: comparing the other way round.
Bug_RecentReversed(t) == block[t] - tip <= MaxBlockAge

\* "tx must be in last N blocks"
Recent(t) == tip - block[t] <= MaxBlockAge

\* A slip the code avoids: not remembering the hash.
Bug_AcceptForgets(s) ==
    LET t == calls[s].tx IN
    /\ calls[s].stage = "tip"
    /\ Recent(t)
    /\ t \in Matching
    /\ accepted' = [accepted EXCEPT ![t] = @ + 1]
    /\ usedAt' = [usedAt EXCEPT ![t] = tip]
    /\ calls' = [calls EXCEPT ![s] = NoCall]
    /\ UNCHANGED <<proved, consumed, exposed, reboots>>

\* The block number arrives: the receipt is recent and holds the transfer,
\* so the hash is remembered and the call answers ok.
Accept(s) ==
    LET t == calls[s].tx IN
    /\ calls[s].stage = "tip"
    /\ Recent(t)
    /\ t \in Matching
    /\ consumed' = consumed \cup {t}
    /\ accepted' = [accepted EXCEPT ![t] = @ + 1]
    /\ usedAt' = [usedAt EXCEPT ![t] = tip]
    /\ calls' = [calls EXCEPT ![s] = NoCall]
    /\ UNCHANGED <<proved, exposed, reboots>>

\* No receipt, a reverted transaction, one too old, one that pays somebody
\* else, or an RPC that throws: the call ends and nothing is remembered.
RefuseProof(s) ==
    /\ calls[s] # NoCall
    /\ calls' = [calls EXCEPT ![s] = NoCall]
    /\ UNCHANGED <<proved, answers>>

\* The process restarts: the set and the calls under way are gone.
Reboot ==
    /\ reboots < MaxReboots
    /\ reboots' = reboots + 1
    /\ consumed' = {}
    /\ exposed' = exposed \cup consumed
    /\ calls' = [s \in Verifications |-> NoCall]
    /\ UNCHANGED <<proved, accepted, usedAt>>

VerifierNext ==
    \/ MineEmpty
    \/ \E t \in Txs : Mine(t)
    \/ Reboot
    \/ \E s \in Verifications :
        \/ \E t \in Txs : Start(s, t)
        \/ Receipt(s) \/ Accept(s) \/ RefuseProof(s)

VerifierSpec == VerifierInit /\ [][VerifierNext]_verifierVars

-------------------------------------------------------------------------------
(* Properties.                                                             *)

\* A mined transaction that pays the merchant is a payment that has landed.
Paid == {t \in Matching : block[t] # 0}

\* "In-memory cache of consumed tx hashes": a proof is accepted once, unless
\* it was submitted again while its first verification was still under way,
\* or a restart lost the cache.
AcceptedOnce == \A t \in Txs : accepted[t] <= 1 \/ t \in exposed

\* "Max block age allowed for replay protection": a restart forgets the
\* consumed hashes, but every acceptance, a repeated one included, falls
\* within maxBlockAge of the payment, and is of a mined payment.
ReplayWindowClosed ==
    \A t \in Txs : accepted[t] > 0 =>
        /\ t \in Paid
        /\ usedAt[t] - block[t] <= MaxBlockAge
===============================================================================
