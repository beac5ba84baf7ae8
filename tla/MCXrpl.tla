-------------------------------- MODULE MCXrpl --------------------------------
(***************************************************************************)
(* The trust line with two callers who bring the owner's signer, one who   *)
(* brings another wallet and one who brings none; the buyer with three     *)
(* parallel pays of one or two RLUSD each and one sweep at a time, for     *)
(* every choice of the options; the treasury with two calls at a time; one *)
(* swap at a time in a market of two paths; and every challenge.           *)
(*                                                                         *)
(* They keep separate state, so a behaviour runs one of them while the     *)
(* others rest in one of their initial states.                             *)
(***************************************************************************)
EXTENDS XrplTrustline, XrplBuyer, XrplFunds

CONSTANTS owner1, owner2, stranger, reader, p1, p2, p3, w1, c1, c2

MCCallers == {owner1, owner2, stranger, reader}
MCSigning == {owner1, owner2}
MCForeign == {stranger}
MCPays == {p1, p2, p3}
MCSweepers == {w1}
MCNeed == [p \in Pays |-> IF p = p1 THEN 1 ELSE 2]
MCBalances == 0..2
MCSupplies == {0, 2}
MCTasks == {c1, c2}
MCRescue == {1}
MCPrices == {0, 10, 11, 12}
MCOuts == {1, 3}
MCBps == {100, 1000}

VARIABLE running    \* which of them the behaviour is about

MCInit ==
    /\ running \in {"line", "buyer", "vault", "swap", "offer"}
    /\ LineInit /\ (running # "line" => line)
    /\ Init
    /\ running # "buyer" => bal = 0 /\ vault = 0 /\ ~treasury /\ ~autoSwap
    /\ VaultInit /\ (wired => ~durable /\ ~autoCreate)    \* which then make no difference
    /\ cash \in {0, MostCash} /\ xrp \in {0, MostXrp}
    /\ running # "vault" => ~durable /\ ~autoCreate /\ ~wired /\ cash = 0 /\ xrp = 0
    /\ SwapInit /\ (running # "swap" => \A p \in DOMAIN price : price[p] = 0)
    /\ OfferInit /\ (running # "offer" => network = "testnet")

MCNext ==
    /\ UNCHANGED <<running, config>>
    /\ \/ running = "line" /\ LineNext /\ UNCHANGED <<vars, vaultVars, swapVars, offer>>
       \/ running = "buyer" /\ Next /\ UNCHANGED <<lineVars, vaultVars, swapVars, offer>>
       \/ running = "vault" /\ VaultNext /\ UNCHANGED <<vars, lineVars, swapVars, offer>>
       \/ running = "swap" /\ SwapNext /\ UNCHANGED <<vars, lineVars, vaultVars, offer>>
       \/ running = "offer" /\ ReadOffer /\ UNCHANGED <<vars, lineVars, vaultVars, swapVars>>

MCSpec == MCInit /\ [][MCNext]_<<running, vars, lineVars, fundsVars>> /\ Fairness

\* The trust-line preflight answers what the ledger says, and makes the ledger
\* say it with one transaction however many callers ask (xrpl/payments.ts:31,87).
\* The funds behind a payment are where the code looks for them: one vault, found
\* again after a restart; a swap within its slippage; and a payment on the ledger
\* of its challenge (xrpl/treasury.ts:95, xrpl/swap.ts:113, adapters/xrpl.ts:203).
FundsHold ==
    /\ OkMeansLine /\ TrustSetOnce
    /\ running = "vault" => VaultKept
    /\ running = "swap" => SwapWithinSlippage
    /\ running = "offer" => SignedForItsLedger
===============================================================================
