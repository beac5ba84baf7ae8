------------------------------- MODULE FlareX402 -------------------------------
(***************************************************************************)
(* The Flare x402 rail: FlareX402Adapter, which answers a 402 by signing   *)
(* an EIP-3009 authorization, and the paywall's Flare branch with          *)
(* verifyAndSettleFlareX402, which asks the facilitator contract and then  *)
(* has it settle (src/flare/x402.ts and src/middleware.ts).  Only payloads *)
(* the adapter makes are modelled; a retry may reach the merchant twice.   *)
(* The token, the facilitator and the network are external.                *)
(***************************************************************************)
EXTENDS Integers, FiniteSets

CONSTANTS
    FlarePays,      \* calls of the adapter by one wallet; each draws a nonce of its own
    Deliveries,     \* requests with an x-payment header that reach the merchant
    NoFlarePay,
    Prices,         \* the prices the route may have
    StartToken,     \* the buyer's balance
    AuthValidity,   \* validityWindowSeconds, in ticks
    MaxFlareTime    \* bound on time

ASSUME FlareX402Assumption ==
    /\ NoFlarePay \notin FlarePays /\ IsFiniteSet(Deliveries)
    /\ Prices \subseteq Nat \ {0} /\ StartToken \in Nat
    /\ AuthValidity \in Nat \ {0} /\ MaxFlareTime \in Nat

VARIABLES
    price,      \* the route's price
    flareNow,
    token,      \* external: the buyer's balance
    settled,    \* external: the authorizations the token has taken
    offers,     \* offers[p]: the buyer's side of payment p
    visits,     \* visits[d]: where the merchant stands with delivery d
    servings    \* history: servings[p]: how often next() ran for p

flareX402Vars == <<price, flareNow, token, settled, offers, visits, servings>>

NoOffer == [at |-> "idle", value |-> 0, before |-> 0]
NoVisit == [at |-> "free", of |-> NoFlarePay]

\* One type invariant.
FlareX402TypeOK ==
    /\ price \in Prices /\ flareNow \in 0..MaxFlareTime /\ token \in 0..StartToken
    /\ settled \subseteq FlarePays
    /\ offers \in [FlarePays -> [at : {"idle", "challenged", "covered", "signed", "threw"},
                                 value : Prices \cup {0}, before : 0..(MaxFlareTime + AuthValidity)]]
    /\ visits \in [Deliveries -> [at : {"free", "verify", "settle", "sent", "ok", "reverted",
                                        "next", "402", "late"},
                                  of : FlarePays \cup {NoFlarePay}]]
    /\ servings \in [FlarePays -> 0..Cardinality(Deliveries)]

FlareX402Init ==
    /\ price \in Prices /\ flareNow = 0 /\ token = StartToken /\ settled = {}
    /\ offers = [p \in FlarePays |-> NoOffer]
    /\ visits = [d \in Deliveries |-> NoVisit]
    /\ servings = [p \in FlarePays |-> 0]

GoVisit(d, at) == visits' = [visits EXCEPT ![d].at = at]

-------------------------------------------------------------------------------
(* The adapter.                                                            *)

\* A request without payment gets the price in a 402, which is parsed.
Challenge(p) ==
    /\ offers[p] = NoOffer
    /\ offers' = [offers EXCEPT ![p] = [at |-> "challenged", value |-> price, before |-> 0]]
    /\ UNCHANGED <<price, flareNow, token, settled, visits, servings>>

\* InsufficientBalanceError, or the balance covers the value for now.
Cover(p) ==
    /\ offers[p].at = "challenged"
    /\ offers' = [offers EXCEPT ![p].at = IF token >= offers[p].value THEN "covered" ELSE "threw"]
    /\ UNCHANGED <<price, flareNow, token, settled, visits, servings>>

\* The authorization is signed, valid until validBefore.
Authorize(p) ==
    /\ offers[p].at = "covered"
    /\ offers' = [offers EXCEPT ![p].at = "signed", ![p].before = flareNow + AuthValidity]
    /\ UNCHANGED <<price, flareNow, token, settled, visits, servings>>

-------------------------------------------------------------------------------
(* The merchant.                                                           *)

\* A retry reaches createPaywall: the header decodes, and a value below the
\* price of the moment is refused before the facilitator is asked.
Deliver(p, d) ==
    /\ offers[p].at = "signed" /\ visits[d] = NoVisit
    /\ visits' = [visits EXCEPT ![d] =
          [at |-> IF offers[p].value < price THEN "402" ELSE "verify", of |-> p]]
    /\ UNCHANGED <<price, flareNow, token, settled, offers, servings>>

\* External: what verifyPayment and the token look at.
Acceptable(p) == p \notin settled /\ flareNow < offers[p].before

\* verifyPayment says yes, or FLARE_X402_VERIFY_FAILED.
VerifyPayment(d) ==
    /\ visits[d].at = "verify"
    /\ GoVisit(d, IF Acceptable(visits[d].of) THEN "settle" ELSE "402")
    /\ UNCHANGED <<price, flareNow, token, settled, offers, servings>>

\* settlePayment is sent, or the write fails.
SettlePayment(d) ==
    /\ visits[d].at = "settle"
    /\ \E at \in {"sent", "402"} : GoVisit(d, at)
    /\ UNCHANGED <<price, flareNow, token, settled, offers, servings>>

\* A slip the code avoids: the receipt's status is not looked at.
Bug_ServeAnyStatus(d) ==
    /\ visits[d].at \in {"ok", "reverted"}
    /\ GoVisit(d, "next")
    /\ servings' = [servings EXCEPT ![visits[d].of] = @ + 1]
    /\ UNCHANGED <<price, flareNow, token, settled, offers>>

\* A successful receipt serves, a reverted one is FLARE_X402_SETTLE_FAILED.
Serve(d) ==
    /\ \/ /\ visits[d].at = "ok" /\ GoVisit(d, "next")
          /\ servings' = [servings EXCEPT ![visits[d].of] = @ + 1]
       \/ /\ visits[d].at = "reverted" /\ GoVisit(d, "402")
          /\ UNCHANGED servings
    /\ UNCHANGED <<price, flareNow, token, settled, offers>>

\* No receipt within receiptTimeoutMs: a 402, though the settlement may land.
SettleLate(d) ==
    /\ visits[d].at = "sent"
    /\ GoVisit(d, "late")
    /\ UNCHANGED <<price, flareNow, token, settled, offers, servings>>

-------------------------------------------------------------------------------
(* External: the settlement, the operator and the clock.                   *)

Payable(p) == Acceptable(p) /\ token >= offers[p].value

MineSettlement(d) ==
    LET p == visits[d].of
    IN  /\ \/ visits[d].at = "sent"
           \/ visits[d].at = "late" /\ Payable(p)
        /\ IF Payable(p)
           THEN token' = token - offers[p].value /\ settled' = settled \cup {p}
           ELSE UNCHANGED <<token, settled>>
        /\ IF visits[d].at = "late" THEN UNCHANGED visits
           ELSE GoVisit(d, IF Payable(p) THEN "ok" ELSE "reverted")
        /\ UNCHANGED <<price, flareNow, offers, servings>>

Reprice ==
    /\ price' \in Prices \ {price}
    /\ UNCHANGED <<flareNow, token, settled, offers, visits, servings>>

FlareX402Tick ==
    /\ flareNow < MaxFlareTime
    /\ flareNow' = flareNow + 1
    /\ UNCHANGED <<price, token, settled, offers, visits, servings>>

FlareX402Next ==
    \/ \E p \in FlarePays :
        \/ Challenge(p) \/ Cover(p) \/ Authorize(p)
        \/ \E d \in Deliveries : Deliver(p, d)
    \/ \E d \in Deliveries :
        VerifyPayment(d) \/ SettlePayment(d) \/ Serve(d) \/ SettleLate(d) \/ MineSettlement(d)
    \/ Reprice \/ FlareX402Tick

FlareX402Spec == FlareX402Init /\ [][FlareX402Next]_flareX402Vars

-------------------------------------------------------------------------------
(* Properties.                                                             *)

\* An authorization serves one request and only once it is settled, though
\* parallel deliveries of it are all verified before the first one settles.
\* One that was settled was served, unless its receipt was late.
FlareServesOnce ==
    \A p \in FlarePays :
        /\ servings[p] <= (IF p \in settled THEN 1 ELSE 0)
        /\ p \in settled /\ servings[p] = 0 =>
              \E d \in Deliveries : visits[d].of = p /\ visits[d].at \in {"ok", "late"}
===============================================================================
