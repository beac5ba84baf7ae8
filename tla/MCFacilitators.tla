---------------------------- MODULE MCFacilitators ----------------------------
(***************************************************************************)
(* The sponsored rails of Morph and Flare: one authorization the buyer     *)
(* signed (a1) and one it did not (a2), in two requests to the Morph       *)
(* facilitator; two gasless pays of a buyer who can afford one, through    *)
(* three executions of the Flare relay; three mints of one XRPL wallet     *)
(* and two redemptions of which the balance covers none, one or both; two  *)
(* x402 pays in three deliveries; and a buyer who calls a Morph            *)
(* facilitator twice, in every setup, and waits less than that does.       *)
(*                                                                         *)
(* They keep separate state, so a behaviour runs one of them while the     *)
(* others rest in their initial states.                                    *)
(***************************************************************************)
EXTENDS MorphFacilitator, GaslessRelay, FlareBridge, FlareX402, TLC

CONSTANTS a1, a2, s1, s2, m1, m2, m3, r1, r2

MCAuths == {a1, a2}
MCSigned == {a1}
MCSlots == {s1, s2}
MCMints == {m1, m2, m3}
MCRedeems == {r1, r2}
MCAmountOf == [c \in MCMints \cup MCRedeems |-> 2]
MCMintFees == [bips |-> 2500, min |-> 1, executor |-> 0]
MCRedeemFees == [bips |-> 2500, min |-> 0, executor |-> 1]
MCSymmetry == Permutations(Jobs)

\* The component that runs; the others rest.
VARIABLE running

MCInit ==
    /\ Init /\ GaslessInit /\ MintInit /\ RedeemInit /\ FlareX402Init
    /\ MorphInit
    /\ running \in {"morph", "gasless", "mint", "redeem", "x402", "buyer"}
    /\ running # "redeem" => fxrp = 0
    /\ running # "x402" => price = 1
    /\ running # "buyer" => wire = CHOOSE w \in Wires : TRUE

MCNext ==
    /\ \/ running = "morph" /\ Next /\ UNCHANGED <<gaslessVars, bridgeVars, flareX402Vars, morphVars>>
       \/ running = "gasless" /\ GaslessNext /\ UNCHANGED <<vars, bridgeVars, flareX402Vars, morphVars>>
       \/ running = "mint" /\ MintNext /\ UNCHANGED <<vars, gaslessVars, redeemVars, flareX402Vars, morphVars>>
       \/ running = "redeem" /\ RedeemNext /\ UNCHANGED <<vars, gaslessVars, mintVars, flareX402Vars, morphVars>>
       \/ running = "x402" /\ FlareX402Next /\ UNCHANGED <<vars, gaslessVars, bridgeVars, morphVars>>
       \/ /\ running = "buyer" /\ MorphNext
          /\ UNCHANGED <<vars, gaslessVars, bridgeVars, flareX402Vars>>
    /\ UNCHANGED running

MCSpec == MCInit /\ [][MCNext]_<<running, vars, gaslessVars, bridgeVars, flareX402Vars, morphVars>>

\* The facilitator, the relay, the bridge and the x402 rail stay well typed.
TypesOK == TypeOK /\ GaslessTypeOK /\ BridgeTypeOK /\ FlareX402TypeOK /\ MorphTypeOK
===============================================================================
