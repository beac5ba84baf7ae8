------------------------------ MODULE MCSpending ------------------------------
(***************************************************************************)
(* The ways to spend under a policy: fetchWithPayment, the guard used      *)
(* directly, and an engine made from a configuration.  Time: an hour is one tick, a day two, the rate window    *)
(* two.  A price of 2 is at the per-transaction cap and 3 above it;        *)
(* the caps let one maximal payment through per hour and the second one    *)
(* overshoot.                                                              *)
(*                                                                         *)
(* The client, the guard and the configured engine share no variable, so   *)
(* a behaviour runs one of them while the others rest in an initial state: *)
(* every state of each is reached without the product.  Configurations set *)
(* a limit to nothing, 0, 1 or 2 units, totals go up to 3.                 *)
(***************************************************************************)
EXTENDS PaymentClient, SpendingGuard, TLC

CONSTANTS c1, c2, shop, listed

MCCallers == {c1, c2}
MCAmounts == {2, 3}
MCRails == {"maxAmountRequired", "elsewhere"}
MCPrices == {1, 2}
MCByteCounts == {2}
MCPayees == {shop}
MCListed == {listed}
MCPlaces == {shop, listed}
MCFigures == {0, 1, 2}

ConfigRests ==
    /\ config = [l \in SpendingLimits \cup BandwidthLimits |-> Unset]
    /\ answered = {}

MCInit == Init /\ GuardInit /\ ConfigInit

MCNext ==
    \/ GuardInit /\ ConfigRests /\ Next /\ UNCHANGED <<guardVars, configVars>>
    \/ Init /\ ConfigRests /\ GuardNext /\ UNCHANGED <<vars, configVars>>
    \/ Init /\ GuardInit /\ ConfigNext /\ UNCHANGED <<vars, guardVars>>

MCSpec == MCInit /\ [][MCNext]_<<vars, guardVars, configVars>>

Symmetry == Permutations(MCCallers)

\* The client, the guard and their policy engines stay well typed.
TypesOK == TypeOK /\ GuardTypeOK

\* The guard: its counters cover what the audit log answers, no window holds
\* more requests than the limit, what overshoots a cap was admitted before the
\* first record of it, and the limits of a configuration are the ones that hold
\* (policy/index.ts:123-315).
GuardHolds ==
    /\ SummaryCoversWindow /\ RateLimited /\ GuardOvershootBounded
    /\ ConfiguredLimitsHold
===============================================================================
