----------------------------- MODULE IusdCorridor -----------------------------
(***************************************************************************)
(* Paying in iUSD on Initia: InitiaIusdAdapter.pay, the orchestrator of    *)
(* src/initia/corridor.ts that bridges when the wallet is short, and the   *)
(* client's balance reads and MsgSend.  Calls of one wallet may overlap.   *)
(* Chains and the Skip and LayerZero services are external; the cache of   *)
(* Skip's quotes, which decides nothing here, is left out.                 *)
(***************************************************************************)
EXTENDS Integers, Sequences, FiniteSets, Functions

CONSTANTS
    IusdPays,       \* calls of the adapter
    PriceOf,        \* PriceOf[c]: maxAmountRequired of c's challenge
    Sources,        \* USDC_SOURCE_PRIORITY
    Nowhere,
    StartIusd,
    StartUsdc,      \* StartUsdc[s]: USDC on source chain s
    StartAusd,      \* AUSD on Ethereum
    RouteFee,       \* what Skip keeps of a route
    Hooked,         \* bridgeIfNeeded is set
    LayerZero       \* the orchestrator has a LayerZero client

ASSUME CorridorAssumption ==
    /\ IsFiniteSet(IusdPays)
    /\ Nowhere \notin Range(Sources)
    /\ PriceOf \in [IusdPays -> Nat \ {0}]
    /\ StartUsdc \in [Range(Sources) -> Nat]
    /\ {StartIusd, StartAusd, RouteFee} \subseteq Nat
    /\ {Hooked, LayerZero} \subseteq BOOLEAN

VARIABLES
    iusd,       \* external: the wallet's iUSD
    usdc,       \* external: usdc[s]
    flying,     \* external: calls whose route is under way
    iusdPaid,   \* external: calls whose payment the chain took
    transfers   \* transfers[c]: where call c stands, and histories: landed, its route had
                \* landed at its last look; raced, another call paid since that look

corridorVars == <<iusd, usdc, flying, iusdPaid, transfers>>

TransferStates == {"idle", "short", "picking", "quoting", "routed", "looking", "asleep", "funded",
                   "sending", "sent", "retried", "refused", "timeout", "rejected", "threw"}

\* One type invariant.
CorridorTypeOK ==
    /\ iusd \in Nat /\ usdc \in [Range(Sources) -> Nat]
    /\ flying \subseteq IusdPays /\ iusdPaid \subseteq IusdPays
    /\ transfers \in [IusdPays -> [at : TransferStates, from : Range(Sources) \cup {Nowhere},
                                   executed : BOOLEAN, landed : BOOLEAN, raced : BOOLEAN]]

CorridorInit ==
    /\ iusd = StartIusd /\ usdc = StartUsdc /\ flying = {} /\ iusdPaid = {}
    /\ transfers = [c \in IusdPays |-> [at |-> "idle", from |-> Nowhere, executed |-> FALSE,
                                        landed |-> FALSE, raced |-> FALSE]]

GoTransfer(c, at) == transfers' = [transfers EXCEPT ![c].at = at]

\* A read of the balance: enough of it, or not.
Look(c, enough, short) ==
    /\ transfers' = [transfers EXCEPT
           ![c].at = IF iusd >= PriceOf[c] THEN enough ELSE short,
           ![c].landed = transfers[c].executed /\ c \notin flying,
           ![c].raced = FALSE]
    /\ UNCHANGED <<iusd, usdc, flying, iusdPaid>>

\* The adapter's look.
LookFirst(c) ==
    /\ transfers[c].at = "idle"
    /\ Look(c, "funded", IF Hooked THEN "short" ELSE "refused")

\* ensureIusd looks again.
LookAgain(c) ==
    /\ transfers[c].at = "short"
    /\ Look(c, "funded", "picking")

-------------------------------------------------------------------------------
(* selectIusdCorridor and the rails.                                       *)

\* The first source with the whole amount; what the wallet holds counts for nothing.
Covering(i, amount) ==
    /\ usdc[Sources[i]] >= amount
    /\ \A j \in 1..(i - 1) : usdc[Sources[j]] < amount

\* iUSD that has come meanwhile makes the route "direct", which throws; AUSD
\* goes by LayerZero, whose bridge always throws; USDC goes by Skip.
Pick(c) ==
    /\ transfers[c].at = "picking"
    /\ IF \/ iusd >= PriceOf[c]
          \/ LayerZero /\ StartAusd >= PriceOf[c]
          \/ \A i \in DOMAIN Sources : ~Covering(i, PriceOf[c])
       THEN GoTransfer(c, "threw")
       ELSE \E i \in DOMAIN Sources :
               /\ Covering(i, PriceOf[c])
               /\ transfers' = [transfers EXCEPT ![c].at = "quoting", ![c].from = Sources[i]]
    /\ UNCHANGED <<iusd, usdc, flying, iusdPaid>>

\* quoteRoute answers, or SKIP_API_QUOTE_FAILED.
Quote(c) ==
    /\ transfers[c].at = "quoting"
    /\ \E at \in {"routed", "threw"} : GoTransfer(c, at)
    /\ UNCHANGED <<iusd, usdc, flying, iusdPaid>>

\* The SDK executes the route for the amount quoted, and its answer may be
\* lost; or it is missing, or fails, and nothing is sent.
ExecuteRoute(c) ==
    LET s == transfers[c].from
    IN  /\ transfers[c].at = "routed"
        /\ \/ /\ usdc[s] >= PriceOf[c]
              /\ usdc' = [usdc EXCEPT ![s] = @ - PriceOf[c]]
              /\ flying' = flying \cup {c}
              /\ \E at \in {"looking", "threw"} :
                    transfers' = [transfers EXCEPT ![c].at = at, ![c].executed = TRUE]
           \/ GoTransfer(c, "threw") /\ UNCHANGED <<usdc, flying>>
        /\ UNCHANGED <<iusd, iusdPaid>>

\* External: the route lands, less its fee.
LandRoute(c) ==
    /\ c \in flying
    /\ flying' = flying \ {c}
    /\ iusd' = iusd + (IF PriceOf[c] > RouteFee THEN PriceOf[c] - RouteFee ELSE 0)
    /\ UNCHANGED <<usdc, iusdPaid, transfers>>

\* A slip the code avoids: the submitted route is taken for funds.
Bug_PollTrustsRoute(c) ==
    /\ transfers[c].at = "looking"
    /\ Look(c, "funded", "funded")

\* pollUntilSufficient looks and, while the balance is short, sleeps.
Poll(c) ==
    /\ transfers[c].at = "looking"
    /\ Look(c, "funded", "asleep")

\* Another round, or IUSD_BRIDGE_TIMEOUT.
WakeUp(c) ==
    /\ transfers[c].at = "asleep"
    /\ \E at \in {"looking", "timeout"} : GoTransfer(c, at)
    /\ UNCHANGED <<iusd, usdc, flying, iusdPaid>>

-------------------------------------------------------------------------------
(* The payment.                                                            *)

SendIusd(c) ==
    /\ transfers[c].at = "funded"
    /\ \E at \in {"sending", "threw"} : GoTransfer(c, at)
    /\ UNCHANGED <<iusd, usdc, flying, iusdPaid>>

\* External: the chain takes the payment, for every overlapping call to see,
\* and the answer may be lost; or it answers a code, INITIA_BROADCAST_FAILED.
Broadcast(c) ==
    /\ transfers[c].at = "sending"
    /\ IF iusd >= PriceOf[c]
       THEN /\ iusd' = iusd - PriceOf[c]
            /\ iusdPaid' = iusdPaid \cup {c}
            /\ \E at \in {"sent", "threw"} :
                  transfers' = [d \in IusdPays |-> IF d = c THEN [transfers[c] EXCEPT !.at = at]
                                                   ELSE [transfers[d] EXCEPT !.raced = TRUE]]
       ELSE GoTransfer(c, "rejected") /\ UNCHANGED <<iusd, iusdPaid>>
    /\ UNCHANGED <<usdc, flying>>

\* The request is retried with the proof.
RetryWithProof(c) ==
    /\ transfers[c].at = "sent"
    /\ GoTransfer(c, "retried")
    /\ UNCHANGED <<iusd, usdc, flying, iusdPaid>>

CorridorNext ==
    \E c \in IusdPays :
        \/ LookFirst(c) \/ LookAgain(c) \/ Pick(c) \/ Quote(c) \/ ExecuteRoute(c) \/ LandRoute(c)
        \/ Poll(c) \/ WakeUp(c) \/ SendIusd(c) \/ Broadcast(c) \/ RetryWithProof(c)

CorridorSpec == CorridorInit /\ [][CorridorNext]_corridorVars

-------------------------------------------------------------------------------
(* Properties.                                                             *)

\* The calls whose route has landed.
Landed == {c \in IusdPays : transfers[c].executed /\ c \notin flying}

\* The chain turns a payment down only when an overlapping call of the same
\* wallet paid after this one's last look: a bridged call does not send on the
\* strength of a route that has yet to land.
NoBlindSend == \A c \in IusdPays : transfers[c].at = "rejected" => transfers[c].raced

\* A proof stands for a payment, and two calls never pay with the same money.
ProofMeansPaid ==
    /\ \A c \in IusdPays : transfers[c].at \in {"sent", "retried"} => c \in iusdPaid
    /\ SumFunctionOnSet(PriceOf, iusdPaid) <= StartIusd + SumFunctionOnSet(PriceOf, Landed)

CorridorHolds == NoBlindSend /\ ProofMeansPaid

\* "ensure iUSD lands on Initia in `requiredAmount` quantity, regardless of
\* source" (corridor.ts:389-390): a bridged call does not time out once its route
\* has landed, unless another call took the money.
BridgesWhatIsRequired ==
    \A c \in IusdPays :
        transfers[c].at = "timeout" /\ transfers[c].landed => transfers[c].raced \/ iusdPaid # {}
===============================================================================
