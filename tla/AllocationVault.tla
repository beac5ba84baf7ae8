----------------------------- MODULE AllocationVault -----------------------------
(***************************************************************************)
(* The vault contract (contracts/src/AutonomousDeFiAllocationVault.sol):   *)
(* an ERC-4626 vault whose owner moves its cash to Morpho, to Aave and     *)
(* into Pendle and back, and which pays for a router out of its cash and   *)
(* then out of Morpho; the engine that plans the moves (vault/DeFi-        *)
(* AllocationStrategyEngine.ts); and the bridge that asks the vault to pay *)
(* (vault/vault-bridge.ts).                                                *)
(*                                                                         *)
(* A transaction is one step: a call that reverts leaves no trace and is   *)
(* not a step.  Of the entries of ERC-4626, deposit and redeem stand for   *)
(* all four.                                                               *)
(***************************************************************************)
EXTENDS Integers, FiniteSets, Functions

CONSTANTS
    Depositors,   \* those who deposit
    Unbonded,     \* calls of executeUnbondedPayment()
    VaultAmounts, \* of deposits, moves and payments
    OtherSupply,  \* what others supply to the Morpho market
    Treasury,     \* treasuryTotalAssets of the engine, fixed when it is made
    PtWeights,    \* currentWeightBps a caller gives, in quarters
    FlashFees,    \* of a flash loan
    MaxDeposited  \* bound on what is deposited in all

\* A weight is a part of the treasury, in quarters, as its name says; the engine
\* does not look.
ASSUME VaultAssumption ==
    /\ IsFiniteSet(Depositors)
    /\ VaultAmounts \subseteq Nat /\ FlashFees \subseteq Nat /\ PtWeights \subseteq 0..4
    /\ {OtherSupply, Treasury, MaxDeposited} \subseteq Nat

VARIABLES
    reserve,   \* the contract's own balance
    invested,  \* what it holds in each protocol
    shares,    \* ERC-20 balances of the vault's shares
    borrowed,  \* external: what the market has lent out
    bridged,   \* the amount of each bridged payment that is not mined yet, or 0
    deposited, \* history: all that was deposited, at most MaxDeposited
    redeemed,  \* history: what each holder has redeemed less what it deposited
    outflow    \* history: payments and fees

vaultVars == <<reserve, invested, shares, borrowed, bridged, deposited, redeemed, outflow>>

Protocols == {"morpho", "aave", "pendle"}

VaultTypeOK ==
    /\ reserve \in Nat /\ invested \in [Protocols -> Nat] /\ shares \in [Depositors -> Nat]
    /\ borrowed \in Nat /\ bridged \in [Unbonded -> VaultAmounts \cup {0}]
    /\ deposited \in 0..MaxDeposited /\ redeemed \in [Depositors -> Int] /\ outflow \in Nat

VaultInit ==
    /\ reserve = 0 /\ invested = [p \in Protocols |-> 0] /\ shares = [h \in Depositors |-> 0]
    /\ borrowed \in 0..OtherSupply
    /\ bridged = [q \in Unbonded |-> 0]
    /\ deposited = 0 /\ redeemed = [h \in Depositors |-> 0] /\ outflow = 0

ShareSupply == SumFunction(shares)

\* External: cash of the Morpho market.
MarketCash == invested["morpho"] + OtherSupply - borrowed

-------------------------------------------------------------------------------
(* External: ERC-4626 of OpenZeppelin, with no decimals offset.            *)

\* totalAssets() is the contract's own balance: what is out does not count.
ToShares(a) == (a * (ShareSupply + 1)) \div (reserve + 1)
ToAssets(s) == (s * (reserve + 1)) \div (ShareSupply + 1)

PutIn(h, a) ==
    /\ deposited + a <= MaxDeposited
    /\ reserve' = reserve + a /\ deposited' = deposited + a
    /\ redeemed' = [redeemed EXCEPT ![h] = @ - a]
    /\ shares' = [shares EXCEPT ![h] = @ + ToShares(a)]
    /\ UNCHANGED <<invested, borrowed, bridged, outflow>>

TakeOut(h, s) ==
    /\ s \in 1..shares[h]
    /\ reserve' = reserve - ToAssets(s) /\ redeemed' = [redeemed EXCEPT ![h] = @ + ToAssets(s)]
    /\ shares' = [shares EXCEPT ![h] = @ - s]
    /\ UNCHANGED <<invested, borrowed, bridged, deposited, outflow>>

\* Others borrow from the market and repay it.
Lend(b) ==
    /\ b \in 0..(invested["morpho"] + OtherSupply) /\ b \in {borrowed - 1, borrowed + 1}
    /\ borrowed' = b
    /\ UNCHANGED <<reserve, invested, shares, bridged, deposited, redeemed, outflow>>

-------------------------------------------------------------------------------
(* What the owner moves.                                                   *)

CanWithdraw(p, a) == a <= invested[p] /\ (p = "morpho" => a <= MarketCash)

\* rebalanceReserveToMorpho(), rebalanceReserveToAave(), and the arbitrary call
\* that buys a principal token.
Allocate(p, a) ==
    /\ a <= reserve
    /\ reserve' = reserve - a /\ invested' = [invested EXCEPT ![p] = @ + a]
    /\ UNCHANGED <<shares, borrowed, bridged, deposited, redeemed, outflow>>

\* rebalanceFromMorphoToReserve(), rebalanceFromAaveToReserve(), and the call
\* that redeems a principal token.
Recall(p, a) ==
    /\ CanWithdraw(p, a)
    /\ reserve' = reserve + a /\ invested' = [invested EXCEPT ![p] = @ - a]
    /\ UNCHANGED <<shares, borrowed, bridged, deposited, redeemed, outflow>>

\* executeAtomicRebalance() and the callback of its flash loan: the loan goes to
\* one protocol, another position is unwound, and loan and fee go back, or
\* all of it reverts.
AtomicRebalance(a, to, from, unwound, fee) ==
    LET held == [invested EXCEPT ![to] = @ + a]
        free == held["morpho"] + OtherSupply - borrowed
    IN /\ unwound <= held[from] /\ (from = "morpho" => unwound <= free)
       /\ reserve + unwound >= a + fee
       /\ reserve' = reserve + unwound - a - fee
       /\ invested' = [held EXCEPT ![from] = @ - unwound]
       /\ outflow' = outflow + fee
       /\ UNCHANGED <<shares, borrowed, bridged, deposited, redeemed>>

-------------------------------------------------------------------------------
(* Payments.                                                               *)

\* What the contract takes out of Morpho for a payment: exactly what is missing.
Deficit(a) == IF a > reserve THEN a - reserve ELSE 0

\* executeUnbondedPayment() answers with the hash of a transaction it does not
\* wait for.
AskVault(q, a) ==
    /\ bridged[q] = 0
    /\ bridged' = [bridged EXCEPT ![q] = a]
    /\ UNCHANGED <<reserve, invested, shares, borrowed, deposited, redeemed, outflow>>

\* instantWithdrawForPayment() pays all of it or reverts: what is in Aave or
\* Pendle is out of its reach.
InstantWithdraw(q) ==
    /\ bridged[q] # 0
    /\ bridged' = [bridged EXCEPT ![q] = 0]
    /\ IF CanWithdraw("morpho", Deficit(bridged[q]))
       THEN /\ reserve' = reserve + Deficit(bridged[q]) - bridged[q]
            /\ invested' = [invested EXCEPT !["morpho"] = @ - Deficit(bridged[q])]
            /\ outflow' = outflow + bridged[q]
       ELSE UNCHANGED <<reserve, invested, outflow>>
    /\ UNCHANGED <<shares, borrowed, deposited, redeemed>>

-------------------------------------------------------------------------------
(* evaluateAllocations(), which reads the market and changes nothing.      *)

\* The market lends more than 92.5% of what it has.
Breached == borrowed * 1000 > 925 * (invested["morpho"] + OtherSupply)

\* The caller gives a Morpho and a Pendle allocation.  Its own figure of the
\* market may be old; either is enough.  A quarter of the
\* weight of the treasury is to leave Morpho, or a tenth of the treasury is to
\* go to Pendle if the spread is worth it and Pendle weighs less than 35%.
Evaluate(weight, given, spread, light) ==
    CASE given \/ Breached -> [kind |-> "kink", amount |-> (Treasury * weight) \div 16]
      [] ~(given \/ Breached) /\ spread /\ light ->
            [kind |-> "arbitrage", amount |-> Treasury \div 10]
      [] OTHER -> [kind |-> "none", amount |-> 0]

VaultNext ==
    \/ \E h \in Depositors, a \in VaultAmounts : PutIn(h, a)
    \/ \E h \in Depositors : \E s \in {1, shares[h]} : TakeOut(h, s)
    \/ \E b \in 0..(OtherSupply + MaxDeposited) : Lend(b)
    \/ \E p \in Protocols, a \in VaultAmounts : Allocate(p, a) \/ Recall(p, a)
    \/ \E a, unwound \in VaultAmounts, to, from \in Protocols, fee \in FlashFees :
          AtomicRebalance(a, to, from, unwound, fee)
    \/ \E q \in Unbonded, a \in VaultAmounts : AskVault(q, a)
    \/ \E q \in Unbonded : InstantWithdraw(q)

VaultSpec == VaultInit /\ [][VaultNext]_vaultVars

-------------------------------------------------------------------------------
\* What a deposit of a is worth once it is in.
Worth(a) == (ToShares(a) * (reserve + a + 1)) \div (ShareSupply + ToShares(a) + 1)

\* All money is somewhere: no move, payment, flash loan or failed call of the
\* vault loses or makes any.  The cash covers the shares at their price, so
\* that no redeem waits for capital that is out, and a deposit is worth no more
\* than was put in.  A market past its kink is left before anything is bought,
\* whatever the caller believes of it, by no more than a quarter of the
\* treasury.
VaultHolds ==
    /\ reserve + SumFunction(invested) + outflow + SumFunction(redeemed) = 0
    /\ SumFunction([h \in Depositors |-> ToAssets(shares[h])]) <= reserve
    /\ \A a \in VaultAmounts : Worth(a) <= a
    /\ \A weight \in PtWeights, given, spread, light \in BOOLEAN :
          LET plan == Evaluate(weight, given, spread, light)
          IN /\ Breached => plan.kind = "kink"
             /\ 4 * plan.amount <= Treasury
==================================================================================
