-------------------------- MODULE MCAcquisitionRouter --------------------------
(***************************************************************************)
(* Where the money of a payment comes from.  The GOAT router: two callers  *)
(* with targets 1 and 2 under caps of 2 an hour and 3 a day; an hour and   *)
(* the idempotency window are one tick, a day is two.  Its paths: two      *)
(* swaps of a wallet that cannot always afford both, and three pegins, two *)
(* of one intent and one of an intent that pays nobody; and two calls that *)
(* choose among the paths, with one partner chain, whatever the router was *)
(* made of.  The Initia corridor: two pays of 2 iUSD out of 1 iUSD and of  *)
(* 5 USDC on two chains.                                                   *)
(*                                                                         *)
(* They keep separate state, so a behaviour runs one of them while the     *)
(* others rest in their initial states.                                    *)
(***************************************************************************)
EXTENDS AcquisitionRouter, GoatPaths, IusdCorridor

CONSTANTS c1, c2, k1, w1, w2, x1, x2, x3, b1, b2, sa, sb, d1, d2, pa

MCCallers == {c1, c2}
MCKeys == {k1}
MCTargets == {1, 2}
MCSwaps == {w1, w2}
MCTargetOf == [s \in MCSwaps |-> IF s = w1 THEN 5 ELSE 6]
MCRates == {0, 2, 3}
MCPegins == {x1, x2, x3}
MCIntentOf == [x \in MCPegins |-> IF x = x3 THEN "i2" ELSE "i1"]
MCTampered == {"i2"}
MCChoosers == {d1, d2}
MCPartners == {pa}
MCSwapCosts == {1, 3}
MCRouter(mock, pools, module, tokens) ==
    [mock |-> mock, enabled |-> TRUE, pools |-> pools, signer |-> TRUE, module |-> module,
     tokens |-> tokens, override |-> FALSE]
MCRouters ==
    {MCRouter(m, p, FALSE, {"USDC", "PegBTC"}) : m \in BOOLEAN, p \in BOOLEAN}
        \cup {MCRouter(FALSE, TRUE, TRUE, {"USDC", "PegBTC"}), MCRouter(FALSE, TRUE, TRUE, {"PegBTC"}),
              [MCRouter(FALSE, TRUE, TRUE, { }) EXCEPT !.override = TRUE],
              [MCRouter(TRUE, TRUE, FALSE, {"USDC", "PegBTC"}) EXCEPT !.enabled = FALSE]}
MCPathSets == {{"swap"}, {"swap", "oft"}, {"oft", "pegin"}}
MCIusdPays == {b1, b2}
MCPriceOf == [c \in MCIusdPays |-> 2]
MCSources == <<sa, sb>>
MCStartUsdc == [s \in {sa, sb} |-> IF s = sa THEN 2 ELSE 3]

\* The component that runs; the others rest.
VARIABLE running

MCInit ==
    /\ running \in {"router", "swap", "pegin", "choice", "corridor"}
    /\ Init /\ SwapInit
    /\ running # "swap" => rate = 2
    /\ PeginInit /\ ChoiceInit
    /\ running # "choice" => /\ router = MCRouter(FALSE, TRUE, FALSE, {"USDC", "PegBTC"})
                             /\ wealth = [peg |-> 0, usdc |-> [p \in Partners |-> 0]]
    /\ CorridorInit

MCNext ==
    /\ \/ running = "router" /\ Next /\ UNCHANGED <<pathVars, corridorVars>>
       \/ running = "swap" /\ SwapNext /\ UNCHANGED <<vars, peginVars, choiceVars, corridorVars>>
       \/ running = "pegin" /\ PeginNext /\ UNCHANGED <<vars, swapVars, choiceVars, corridorVars>>
       \/ running = "choice" /\ ChoiceNext /\ UNCHANGED <<vars, swapVars, peginVars, corridorVars>>
       \/ running = "corridor" /\ CorridorNext /\ UNCHANGED <<vars, pathVars>>
    /\ UNCHANGED running

MCSpec == MCInit /\ [][MCNext]_<<running, vars, pathVars, corridorVars>>

\* The router's calls settle under the same fairness as on their own.
MCFairSpec == MCSpec /\ \A c \in Callers : WF_vars(Advance(c))

\* The router, the paths and the corridor stay well typed.
TypesOK == TypeOK /\ PathsTypeOK /\ CorridorTypeOK
===============================================================================
