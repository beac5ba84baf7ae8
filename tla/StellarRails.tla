------------------------------ MODULE StellarRails ------------------------------
(***************************************************************************)
(* What stands around a payment on Stellar: a gate for agents of a tier    *)
(* (stellar/kya.ts) before or behind the paywall, the adapter that brings  *)
(* it a credential when the challenge says so (adapters/stellar-x402.ts,   *)
(* stellar/kya.ts), the client of the facilitator with its timeout         *)
(* (stellar/channels-client.ts), the choice of the asset to pay with       *)
(* (stellar/asset-router.ts) and the figures and issuers of the assets     *)
(* (stellar/assets.ts).                                                    *)
(*                                                                         *)
(* A visit is one fetchWithPayment() of the agent.  Its request meets the  *)
(* gate and the paywall in the order the merchant mounted them, is paid    *)
(* for when it is challenged, and is repeated.                             *)
(***************************************************************************)
EXTENDS Integers, Sequences, FiniteSets, SequencesExt

CONSTANTS
    Visits,          \* calls of the agent
    Tiers,           \* tiers the oracle may see the agent at
    MinTier,         \* minKyaTier of the gate
    MaxAge,          \* maxAgeMs of the gate, in ticks
    Validity,        \* external: how long the oracle lets a credential be valid
    MaxKyaTime,      \* bound on the clock
    SettleCalls,     \* settle() calls for one payment
    Routings,        \* what selectAsset() may be asked
    Sources,         \* what Horizon may ask for the wanted amount
    Tolerances,      \* maxSlippageBps
    Whole,           \* a whole in the unit of the tolerances (10,000 in the code)
    StellarDecimals, \* decimals of an asset (7 in the code)
    Tens,            \* powers of ten, as far as they are needed
    StellarAmounts,  \* amounts in base units
    MaxLookups       \* bound on the times an issuer is looked at

StellarAssets == {"USDC", "EURC", "MGUSD"}

ASSUME StellarAssumption ==
    /\ Tiers \subseteq Nat /\ {MinTier, MaxAge, Validity, MaxKyaTime, MaxLookups} \subseteq Nat
    /\ Routings \subseteq [wanted : StellarAssets, held : SUBSET StellarAssets, corridor : STRING,
                           sellers : Seq(StellarAssets), convert : BOOLEAN]
    /\ Sources \subseteq Nat /\ Tolerances \subseteq 0..Whole
    /\ Tens \in [0..StellarDecimals -> Nat \ {0}] /\ Tens[0] = 1 /\ Tens[1] = 10
    /\ \A m, n \in 0..StellarDecimals : m + n <= StellarDecimals => Tens[m + n] = Tens[m] * Tens[n]
    /\ {Whole, StellarDecimals} \subseteq Nat \ {0} /\ StellarAmounts \subseteq Nat

VARIABLES
    post,       \* how the merchant and the agent are set up
    visits,     \* each visit: where it is, its credential, what it has paid
    gateSdk,    \* StellarKyaGate.sdkPromise: "unknown", "loaded" or "failed"
    kyaClock,
    standing,   \* external: the tier the oracle sees the agent at
    tiersAt,    \* history: the tiers it was at in each tick
    settles,    \* each settle() call
    onLedger,   \* external: whether the payment has been settled
    route,      \* a choice of asset and what Horizon says of it
    override,   \* whether the environment names the issuer of MGUSD
    warned,     \* _warned: assets there has been a warning of
    lookups     \* history: how often an issuer was looked at, and the warnings

kyaVars == <<post, visits, gateSdk, kyaClock, standing, tiersAt>>
settleCallVars == <<settles, onLedger>>
assetVars == <<route, override, warned, lookups>>
stellarVars == <<kyaVars, settleCallVars, assetVars>>

Setups == [front : {"gate", "paywall"}, issuer : {"oracle", "other", "none"},
           fetcher : BOOLEAN, required : BOOLEAN, apiKey : BOOLEAN]
NoCredential == [tier |-> 0, issued |-> -1, until |-> -1, sound |-> FALSE]
NewVisit == [at |-> "new", cred |-> NoCredential, sent |-> FALSE, checked |-> -1]
NewRoute(ask) == [at |-> "new", ask |-> ask, from |-> "none", suggested |-> {},
                  amount |-> 0, source |-> 0, tolerance |-> 0, bps |-> 0, least |-> 0]

StellarInit ==
    /\ post \in Setups
    /\ visits = [v \in Visits |-> NewVisit]
    /\ gateSdk = "unknown" /\ kyaClock = 0
    /\ standing \in Tiers
    /\ tiersAt = [t \in 0..MaxKyaTime |-> IF t = 0 THEN {standing} ELSE {}]
    /\ settles = [c \in SettleCalls |-> "idle"] /\ onLedger = FALSE
    /\ route \in {NewRoute(ask) : ask \in Routings}
    /\ override \in BOOLEAN /\ warned = {} /\ lookups = [count |-> 0, warnings |-> 0]

-------------------------------------------------------------------------------
(* The gate.                                                               *)

VisitGoes(v, here, there) ==
    /\ visits[v].at = here
    /\ visits' = [visits EXCEPT ![v].at = there]

kyaRest == <<post, kyaClock, standing, tiersAt>>

\* external: a credential the oracle signs now, for as long as it likes; its dates
\* may be unreadable.
Issued == [tier : {standing}, issued : {kyaClock}, until : {kyaClock, kyaClock + Validity},
           sound : BOOLEAN]

\* The agent's own code may fetch a credential before it asks.
BringCredential(v) ==
    /\ visits[v].at = "new" /\ visits[v].cred = NoCredential
    /\ \E c \in Issued : visits' = [visits EXCEPT ![v].cred = c]
    /\ UNCHANGED <<kyaRest, gateSdk>>

\* A request comes in, and the first of the two it meets has its say.
Arrive(v) ==
    /\ visits[v].at \in {"new", "repeated"}
    /\ LET unpaid == post.front = "paywall" /\ ~visits[v].sent
       IN VisitGoes(v, visits[v].at, IF unpaid THEN "challenged" ELSE "gate")
    /\ UNCHANGED <<kyaRest, gateSdk>>

\* The gate's own 402 has no payment header, so no adapter answers it.
CredentialMissing(v) ==
    /\ visits[v].cred = NoCredential /\ VisitGoes(v, "gate", "refused")
    /\ UNCHANGED <<kyaRest, gateSdk>>

\* The checks of verify() before its first await.
Passes(cred) ==
    /\ cred.tier >= MinTier
    /\ cred.sound
    /\ kyaClock - cred.issued <= MaxAge
    /\ kyaClock <= cred.until

Verify(v) ==
    /\ visits[v].at = "gate" /\ visits[v].cred # NoCredential
    /\ LET verdict == IF ~Passes(visits[v].cred) THEN "refused"
                      ELSE IF post.issuer = "none" THEN "threw" ELSE "signature"
       IN visits' = [visits EXCEPT ![v].at = verdict, ![v].checked = kyaClock]
    /\ UNCHANGED <<kyaRest, gateSdk>>

\* The SDK is imported once, and when that fails it has failed for good.
LoadGateSdk ==
    /\ gateSdk = "unknown" /\ \E v \in Visits : visits[v].at = "signature"
    /\ gateSdk' \in {"loaded", "failed"}
    /\ UNCHANGED <<kyaRest, visits>>

\* A request that has passed goes on to the paywall, or to the handler.
VerifySignature(v) ==
    /\ gateSdk # "unknown"
    /\ VisitGoes(v, "signature", IF gateSdk = "failed" THEN "threw"
                            ELSE IF post.issuer = "other" THEN "refused"
                            ELSE IF visits[v].sent THEN "admitted" ELSE "challenged")
    /\ UNCHANGED <<kyaRest, gateSdk>>

-------------------------------------------------------------------------------
(* pay() of the Stellar x402 adapter.                                      *)

\* It signs; with an API key the facilitator verifies what it signed.
SignPayload(v) ==
    /\ VisitGoes(v, "challenged", IF post.apiKey THEN "verifying" ELSE "attaching")
    /\ UNCHANGED <<kyaRest, gateSdk>>

\* A timeout, an error status and a body that cannot be read all end the pay.
VerifyReturns(v) ==
    /\ \/ VisitGoes(v, "verifying", "attaching")
       \/ VisitGoes(v, "verifying", "threw")
    /\ UNCHANGED <<kyaRest, gateSdk>>

\* attachKyaIfRequired(): a fresh credential replaces what the headers held.
AttachKya(v) ==
    /\ visits[v].at = "attaching"
    /\ \/ /\ ~post.required
          /\ visits' = [visits EXCEPT ![v].at = "repeated", ![v].sent = TRUE]
       \/ /\ post.required /\ post.fetcher
          /\ \E c \in Issued :
               visits' = [visits EXCEPT ![v].at = "repeated", ![v].sent = TRUE, ![v].cred = c]
       \/ post.required /\ visits' = [visits EXCEPT ![v].at = "threw"]
    /\ UNCHANGED <<kyaRest, gateSdk>>

\* external: time passes, and the oracle comes to see the agent differently.
KyaTick ==
    /\ kyaClock < MaxKyaTime /\ kyaClock' = kyaClock + 1
    /\ standing' \in Tiers
    /\ tiersAt' = [tiersAt EXCEPT ![kyaClock + 1] = {standing, standing'}]
    /\ UNCHANGED <<post, visits, gateSdk>>

-------------------------------------------------------------------------------
(* settle() of the facilitator client.                                     *)

SettleAnswers == {"success", "failed", "blank", "network"}

AskSettle(c) ==
    /\ settles[c] = "idle" /\ settles' = [settles EXCEPT ![c] = "asked"]
    /\ UNCHANGED onLedger

\* external: the facilitator settles a payment once.
FacilitatorSettles ==
    /\ \E c \in SettleCalls : settles[c] \in {"asked", "network"}
    /\ ~onLedger /\ onLedger' = TRUE
    /\ UNCHANGED settles

\* The answer comes in time: it settled, or an error status says why not, or the
\* body is no JSON and reads as an answer without fields.
SettleReturns(c) ==
    /\ settles[c] = "asked"
    /\ \/ onLedger /\ settles' = [settles EXCEPT ![c] = "success"]
       \/ settles' = [settles EXCEPT ![c] = "failed"]
       \/ settles' = [settles EXCEPT ![c] = "blank"]
    /\ UNCHANGED onLedger

\* The timer aborts the request, whatever has become of it.
FacilitatorTimesOut(c) ==
    /\ settles[c] = "asked" /\ settles' = [settles EXCEPT ![c] = "network"]
    /\ UNCHANGED onLedger

-------------------------------------------------------------------------------
(* The choice of an asset.                                                 *)

\* CORRIDOR_PREFERENCE; a corridor it does not know takes the default.
CorridorPreference(corridor) ==
    CASE corridor \in {"us-mx", "us-latam", "us-ph"} -> <<"MGUSD", "USDC">>
      [] corridor = "us-domestic" -> <<"USDC", "MGUSD">>
      [] corridor \in {"eu-domestic", "eu-uk"} -> <<"EURC", "USDC">>
      [] corridor = "eu-latam" -> <<"EURC", "MGUSD", "USDC">>
      [] corridor = "apac" -> <<"USDC">>
      [] OTHER -> <<"USDC", "MGUSD", "EURC">>

\* That dedupe() keeps the first of each makes no difference to which is first.
PreferenceOf(ask) == ask.sellers \o CorridorPreference(ask.corridor)

\* selectAsset(): what is asked for if it is held, or else the first of the
\* preference that is.  Of what it tells the buyer to fund it keeps three, which
\* is all there are.
SelectAsset ==
    LET ask == route.ask
        preferred == PreferenceOf(ask)
        held == {i \in DOMAIN preferred : preferred[i] \in ask.held}
    IN /\ route.at = "new"
       /\ \/ /\ ask.wanted \in ask.held
             /\ route' = [route EXCEPT !.at = "direct", !.from = ask.wanted]
          \/ /\ ask.wanted \notin ask.held /\ ask.convert
             /\ \E i \in held :
                   /\ \A j \in held : i <= j
                   /\ route' = [route EXCEPT !.at = "convert", !.from = preferred[i]]
          \/ /\ ask.wanted \notin ask.held /\ (ask.convert => held = {})
             /\ route' = [route EXCEPT !.at = "noRoute",
                             !.suggested = {ask.wanted} \cup ToSet(CorridorPreference(ask.corridor))]
       /\ UNCHANGED <<override, warned, lookups>>

CeilDiv(a, b) == (a + b - 1) \div b
Distance(a, b) == IF a > b THEN a - b ELSE b - a
Lesser(a, b) == IF a <= b THEN a ELSE b

\* findStellarAmmPath(): what Horizon asks for the amount, as a drift from par
\* that is reported up to the tolerance and no further.
FindPath ==
    /\ route.at = "convert"
    /\ \/ \E amount \in StellarAmounts \ {0}, source \in Sources, max \in Tolerances :
            LET drift == CeilDiv(Distance(source, amount) * Whole, amount)
            IN route' = [route EXCEPT !.at = "path", !.amount = amount, !.source = source,
                                      !.tolerance = max, !.bps = Lesser(drift, max),
                                      !.least = amount - (amount * max) \div Whole]
       \/ route' = [route EXCEPT !.at = "noPath"]
       \/ route' = [route EXCEPT !.at = "threw"]
    /\ UNCHANGED <<override, warned, lookups>>

-------------------------------------------------------------------------------
(* Figures and issuers.                                                    *)

Unit == Tens[StellarDecimals]

\* formatStellarAsset(): the whole and, as one number, as many of the decimals as
\* were asked for, and there are.
Format(amount, places) ==
    LET shown == Lesser(places, StellarDecimals)
    IN [whole |-> amount \div Unit, shown |-> shown,
        decimals |-> (amount % Unit) \div Tens[StellarDecimals - shown]]

\* parseStellarAsset(): decimals that were not written are zeros.
Parse(figure) ==
    figure.whole * Unit + figure.decimals * Tens[StellarDecimals - figure.shown]

\* getStellarAsset(): only the environment makes the issuer of MGUSD a real one.
IssuerVerified(asset) == asset # "MGUSD" \/ override

\* assertVerifiedIssuer() warns once for each asset and stops nobody.
LookAtIssuer(asset) ==
    /\ lookups.count < MaxLookups
    /\ IF IssuerVerified(asset) \/ asset \in warned
          THEN lookups' = [lookups EXCEPT !.count = @ + 1] /\ UNCHANGED warned
          ELSE /\ lookups' = [count |-> lookups.count + 1, warnings |-> lookups.warnings + 1]
               /\ warned' = warned \cup {asset}
    /\ UNCHANGED <<route, override>>

\* external: the operator sets or clears STELLAR_MGUSD_ISSUER.
Rebind == override' = ~override /\ UNCHANGED <<route, warned, lookups>>

KyaNext ==
    /\ \/ LoadGateSdk \/ KyaTick
       \/ \E v \in Visits :
            \/ BringCredential(v) \/ Arrive(v) \/ CredentialMissing(v) \/ Verify(v)
            \/ VerifySignature(v) \/ SignPayload(v) \/ VerifyReturns(v) \/ AttachKya(v)
    /\ UNCHANGED <<settleCallVars, assetVars>>

SettleCallNext ==
    /\ \/ FacilitatorSettles
       \/ \E c \in SettleCalls : AskSettle(c) \/ SettleReturns(c) \/ FacilitatorTimesOut(c)
    /\ UNCHANGED <<kyaVars, assetVars>>

AssetNext ==
    /\ \/ SelectAsset \/ FindPath \/ Rebind
       \/ \E asset \in StellarAssets : LookAtIssuer(asset)
    /\ UNCHANGED <<kyaVars, settleCallVars>>

StellarNext == KyaNext \/ SettleCallNext \/ AssetNext
StellarSpec == StellarInit /\ [][StellarNext]_stellarVars

-------------------------------------------------------------------------------
(* Properties.                                                             *)

\* Whoever is admitted was at a tier that is high enough at some time in the
\* last MaxAge ticks before the gate looked, however long the request took and
\* whatever the oracle thinks by now, and its credential had not run out; and
\* nobody is whose payment has not been sent.  Whoever paid and is turned away
\* lacks a credential the challenge did not ask for, or has one that grew old on
\* its way or was never good (stellar/kya.ts:87-147).
KyaHolds ==
    \A v \in Visits :
        /\ visits[v].at = "admitted" =>
              /\ visits[v].sent /\ visits[v].checked <= visits[v].cred.until
              /\ \E t \in (visits[v].checked - MaxAge)..visits[v].checked :
                    t >= 0 /\ \E tier \in tiersAt[t] : tier >= MinTier
        /\ visits[v].at = "refused" /\ visits[v].sent =>
              \/ ~post.required \/ post.issuer = "other"
              \/ /\ visits[v].cred # NoCredential
                 /\ \/ visits[v].cred.tier < MinTier \/ ~visits[v].cred.sound
                    \/ visits[v].checked - visits[v].cred.issued > MaxAge
                    \/ visits[v].checked > visits[v].cred.until

\* settle() tells of a success only what the facilitator settled, also when an
\* earlier call was given up; a call that was given up says nothing either way
\* (stellar/channels-client.ts:91-120).
SettleTold == \A c \in SettleCalls : settles[c] = "success" => onLedger

\* Whether something held can pay for what is wanted.
Routable(ask) ==
    \/ ask.wanted \in ask.held
    \/ ask.convert /\ ToSet(PreferenceOf(ask)) \cap ask.held # {}

\* A conversion starts from something the buyer holds and ends in what the
\* seller wants; it is proposed only when what the seller wants is not held, and
\* none is missed: without a route there is none, and there is one as soon as the
\* buyer funds something it was told to, though only the asset itself when it may
\* not convert.  What a path costs is within the tolerance
\* (stellar/asset-router.ts:88-124, 195-204).
RouteHolds ==
    /\ route.at \in {"direct", "convert", "path"} => route.from \in route.ask.held
    /\ route.at \in {"convert", "path"} =>
          route.ask.convert /\ route.ask.wanted \notin route.ask.held
    /\ route.at = "noRoute" =>
          /\ ~Routable(route.ask)
          /\ \A a \in route.suggested :
                route.ask.convert \/ a = route.ask.wanted =>
                    Routable([route.ask EXCEPT !.held = @ \cup {a}])
    /\ route.at = "path" =>
          /\ route.least * Whole >= route.amount * (Whole - route.tolerance)
          /\ route.bps < route.tolerance =>
                Distance(route.source, route.amount) * Whole <= route.bps * route.amount

\* A figure that was formatted parses to the amount, less what was not shown
\* (stellar/assets.ts:131-163).
FiguresHold ==
    \A amount \in StellarAmounts, places \in 0..StellarDecimals + 1 :
        LET back == Parse(Format(amount, places))
        IN /\ back <= amount
           /\ (amount - back) * Tens[Lesser(places, StellarDecimals)] < Unit

\* The operator reads one line of a placeholder issuer, however often it is
\* looked at and rebound (stellar/assets.ts:113-125).
WarnedOnce == lookups.warnings = Cardinality(warned) /\ warned \subseteq {"MGUSD"}

StellarHolds == KyaHolds /\ SettleTold /\ RouteHolds /\ FiguresHold /\ WarnedOnce
===============================================================================
