-------------------------------- MODULE CeloRail --------------------------------
(***************************************************************************)
(* What the Celo rail does beside signing.  A merchant settles a buyer's   *)
(* authorization on chain with its gas in a stable coin (adapters/celo-    *)
(* fee-abstracted.ts, celo/fee-abstraction.ts); a tracker counts an        *)
(* agent's payments towards a visa (celo/agent-visa.ts); and a corridor of *)
(* Mento pools is picked for a swap (celo/mento.ts).                       *)
(*                                                                         *)
(* The volume of a visa grows like its count and is left out.              *)
(***************************************************************************)
EXTENDS Naturals, Sequences, FiniteSets

CONSTANTS
    Settles,       \* calls of verifyAndSettle()
    Authorizations,\* what buyers signed
    Records,       \* calls of recordPayment()
    Agents,        \* agents that paid
    Spellings,     \* letter cases of an agent's address
    Thresholds,    \* counts of the tiers: <<work, citizenship>>
    Rates,         \* quotes of a pool, in parts of Par of its input
    Par,           \* one for one
    MaxSlippage,   \* maxSlippageBps, in parts of Par
    Shrink         \* units of an 18-decimal coin in one of a 6-decimal coin

ASSUME CeloAssumption ==
    /\ Par \in Nat \ {0} /\ Shrink \in Nat \ {0} /\ MaxSlippage \in Nat
    /\ Rates \subseteq Nat /\ Thresholds \in Nat \X Nat
    /\ IsFiniteSet(Records)

VARIABLES
    feeAdapter, \* whether there is a fee currency: an adapter of the coin, or CELO itself
    settling,   \* each settlement: where it is and its authorization
    used,       \* external: authorizations the token contract has carried out
    lapsed,     \* external: those whose validity is over
    file,       \* whether the storage is a JSON file
    selfId,     \* whether the agents have a verified identity
    store,      \* the stored state of each agent: its count and tier
    recording,  \* each record: where it is, its agent and spelling, what it read
    lines,      \* the mutex of each key: the records queued on it, in order
    corridor    \* the last decision of selectMentoCorridor()

celoVars == <<feeAdapter, settling, used, lapsed, file, selfId, store, recording, lines, corridor>>
settleVars == <<feeAdapter, settling, used, lapsed>>
visaVars == <<file, selfId, store, recording, lines>>

Keys == Agents \X Spellings
Unseen == [count |-> 0, tier |-> "none"]
NoRecord == [at |-> "idle", key |-> CHOOSE k \in Keys : TRUE, read |-> Unseen,
             all |-> [g \in Agents |-> Unseen]]
NoRoute == [kind |-> "no-route", legs |-> <<>>, quoted |-> <<>>]

CeloTypeOK ==
    /\ feeAdapter \in BOOLEAN /\ file \in BOOLEAN /\ selfId \in BOOLEAN
    /\ \A s \in Settles : settling[s].at \in {"idle", "sent", "settled", "threw"}
    /\ used \subseteq Authorizations /\ lapsed \subseteq Authorizations
    /\ \A g \in Agents : store[g].count \in 0..Cardinality(Records)
    /\ \A r \in Records : recording[r].at \in {"idle", "queued", "read", "gathered", "torn",
                                               "done", "threw"}
    /\ \A k \in Keys : lines[k] \in Seq(Records)
    /\ corridor.kind \in {"direct-mento", "via-usdm", "no-route"}

CeloInit ==
    /\ feeAdapter \in BOOLEAN /\ file \in BOOLEAN /\ selfId \in BOOLEAN
    /\ settling = [s \in Settles |-> [at |-> "idle", auth |-> CHOOSE a \in Authorizations : TRUE]]
    /\ used = {} /\ lapsed = {}
    /\ store = [g \in Agents |-> Unseen]
    /\ recording = [r \in Records |-> NoRecord]
    /\ lines = [k \in Keys |-> <<>>]
    /\ corridor = NoRoute

-------------------------------------------------------------------------------
(* verifyAndSettle().                                                      *)

\* transferWithAuthorization(): a coin without an adapter throws; the estimate of
\* the gas throws for an authorization that is used or over.
Send(s, a) ==
    /\ settling[s].at = "idle"
    /\ \E at \in {"sent", "threw"} :
          /\ at = "sent" => feeAdapter /\ a \notin used \cup lapsed
          /\ settling' = [settling EXCEPT ![s] = [at |-> at, auth |-> a]]
    /\ UNCHANGED <<feeAdapter, used, lapsed, visaVars, corridor>>

\* The block carries it out or reverts it, and either is a receipt, whose
\* status is not looked at.
Settled(s) ==
    /\ settling[s].at = "sent"
    /\ settling' = [settling EXCEPT ![s].at = "settled"]
    /\ used' = IF settling[s].auth \in lapsed THEN used ELSE used \cup {settling[s].auth}
    /\ UNCHANGED <<feeAdapter, lapsed, visaVars, corridor>>

\* The wait for the receipt ends, whatever becomes of the transaction.
SettleTimesOut(s) ==
    /\ settling[s].at = "sent"
    /\ settling' = [settling EXCEPT ![s].at = "threw"]
    /\ \/ used' = used \cup ({settling[s].auth} \ lapsed)
       \/ UNCHANGED used
    /\ UNCHANGED <<feeAdapter, lapsed, visaVars, corridor>>

\* External: validBefore passes.
Lapse(a) ==
    /\ a \notin lapsed
    /\ lapsed' = lapsed \cup {a}
    /\ UNCHANGED <<feeAdapter, settling, used, visaVars, corridor>>

-------------------------------------------------------------------------------
(* recordPayment().                                                        *)

Tier(count) ==
    IF count = 0 THEN "none"
    ELSE IF count >= Thresholds[2] THEN "citizenship"
    ELSE IF selfId /\ count >= Thresholds[1] THEN "work" ELSE "tourist"

\* The mutex is found by the address as it is written, the state by its lower
\* case.
Queue(r, key) ==
    /\ recording[r].at = "idle"
    /\ recording' = [recording EXCEPT ![r] = [NoRecord EXCEPT !.at = "queued", !.key = key]]
    /\ lines' = [lines EXCEPT ![key] = Append(@, r)]
    /\ UNCHANGED <<settleVars, file, selfId, store, corridor>>

Torn == \E r \in Records : recording[r].at = "torn"

Turn(r) == Head(lines[recording[r].key]) = r

\* The lock is given on, whatever the work did.
Release(r, at) ==
    /\ recording' = [recording EXCEPT ![r].at = at]
    /\ lines' = [lines EXCEPT ![recording[r].key] = Tail(@)]

\* A file somebody is writing cannot be parsed.
ReadPrior(r) ==
    /\ recording[r].at = "queued" /\ Turn(r)
    /\ IF file /\ Torn THEN Release(r, "threw")
       ELSE /\ recording' = [recording EXCEPT ![r].at = "read",
                                              ![r].read = store[recording[r].key[1]]]
            /\ UNCHANGED lines
    /\ UNCHANGED <<settleVars, file, selfId, store, corridor>>

NextState(r) ==
    LET n == recording[r].read.count + 1 IN [count |-> n, tier |-> Tier(n)]

WriteMemory(r) ==
    /\ ~file /\ recording[r].at = "read"
    /\ store' = [store EXCEPT ![recording[r].key[1]] = NextState(r)]
    /\ Release(r, "done")
    /\ UNCHANGED <<settleVars, file, selfId, corridor>>

\* The file storage reads all agents again, and writes all of them back.
Gather(r) ==
    /\ file /\ recording[r].at = "read"
    /\ IF Torn THEN Release(r, "threw")
       ELSE /\ recording' = [recording EXCEPT ![r].at = "gathered", ![r].all = store]
            /\ UNCHANGED lines
    /\ UNCHANGED <<settleVars, file, selfId, store, corridor>>

StartWrite(r) ==
    /\ recording[r].at = "gathered"
    /\ recording' = [recording EXCEPT ![r].at = "torn"]
    /\ UNCHANGED <<settleVars, file, selfId, store, lines, corridor>>

EndWrite(r) ==
    /\ recording[r].at = "torn"
    /\ store' = [recording[r].all EXCEPT ![recording[r].key[1]] = NextState(r)]
    /\ Release(r, "done")
    /\ UNCHANGED <<settleVars, file, selfId, corridor>>

-------------------------------------------------------------------------------
(* selectMentoCorridor().                                                  *)

\* What is lost, in parts of Par, of an amount and its quote as they are
\* written: in the units of two coins.
Slippage(in, out) == IF out >= in THEN 0 ELSE ((in - out) * Par) \div in

\* External: a pool quotes a rate, or 0 when it is dry, or reverts; what it
\* pays in USDC is in units of 6 decimals.
Quote(in, rate, coin) ==
    (in * rate) \div (Par * (IF coin = "USDC" THEN Shrink ELSE 1))

\* The first leg of a coin other than USDm may lose what it likes; a floor of
\* 0 is none.
Select(assetIn, amount, rates, floor) ==
    LET mid == IF assetIn = "USDm" THEN amount ELSE Quote(amount, rates[1], "USDm")
        out == Quote(mid, rates[2], "USDC")
    IN /\ corridor' = IF amount = 0 \/ mid = 0 \/ out = 0 \/ Slippage(mid, out) > MaxSlippage
                         \/ (floor # 0 /\ out < floor)
                      THEN NoRoute
                      ELSE [kind |-> IF assetIn = "USDm" THEN "direct-mento" ELSE "via-usdm",
                            legs |-> IF assetIn = "USDm" THEN <<out>> ELSE <<mid, out>>,
                            quoted |-> rates]
       /\ UNCHANGED <<settleVars, visaVars>>

SettleNext ==
    \/ \E s \in Settles : (\E a \in Authorizations : Send(s, a)) \/ Settled(s) \/ SettleTimesOut(s)
    \/ \E a \in Authorizations : Lapse(a)

VisaNext ==
    \E r \in Records :
        \/ \E key \in Keys : Queue(r, key)
        \/ ReadPrior(r) \/ WriteMemory(r) \/ Gather(r) \/ StartWrite(r) \/ EndWrite(r)

CorridorNext ==
    \E assetIn \in {"USDm", "cKES"}, amount \in {0, Par, Par * Shrink},
       rates \in Rates \X Rates, floor \in {0, Par} : Select(assetIn, amount, rates, floor)

\* The three have nothing in common.
CeloNext == SettleNext \/ VisaNext \/ CorridorNext

CeloSpec == CeloInit /\ [][CeloNext]_celoVars

-------------------------------------------------------------------------------
(* Properties.                                                             *)

DoneFor(g) == {r \in Records : recording[r].at = "done" /\ recording[r].key[1] = g}
SpellingsOf(g) == {recording[r].key[2] : r \in {q \in Records :
                      recording[q].at # "idle" /\ recording[q].key[1] = g}}
WrittenOneWay(g) == \E w \in Spellings : SpellingsOf(g) \subseteq {w}
Recorded == {recording[r].key[1] : r \in {q \in Records : recording[q].at # "idle"}}

\* A settlement that answers has moved the money, unless its authorization
\* ran out or was settled twice at once, and no coin without an adapter pays
\* for gas.  A visa counts every payment of an agent once, in memory as long as
\* its address is written in one way and in a file as long as nobody else pays,
\* and never one that was not made.  And between the units of 18 and of 6
\* decimals, every corridor of Mento to USDC counts as slippage, so that none
\* is offered at one for one, unless the tolerance is all but the whole amount
\* (mento.ts:88, 158).
CeloHolds ==
    /\ \A s \in Settles :
          settling[s].at = "settled" => feeAdapter /\ settling[s].auth \in used \cup lapsed
    /\ \A g \in Agents :
          /\ store[g].count <= Cardinality(DoneFor(g))
          /\ store[g].tier = Tier(store[g].count)
          /\ WrittenOneWay(g) /\ (~file \/ Recorded \subseteq {g}) =>
                store[g].count = Cardinality(DoneFor(g))
    /\ corridor.kind # "no-route" =>
          corridor.quoted[2] > Par \/ (Shrink - 1) * Par < (MaxSlippage + 1) * Shrink
===============================================================================
