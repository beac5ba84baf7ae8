----------------------------- MODULE PaymentClient -----------------------------
(***************************************************************************)
(* PaymentClient.fetchWithPayment of src/client.ts, with a policy          *)
(* configured, called concurrently.  One slot of Callers is one call in    *)
(* flight.  A call is cut at its awaits:                                   *)
(*                                                                         *)
(*   idle --check--> fetching --402--> paying --pay() settles--> idle      *)
(*                \-> routing ----^         \--throws----------> idle      *)
(*                                                                         *)
(* Everything between two awaits is one step.  The policy check runs once, *)
(* at the start, with amount 0 and no recipient; the amount is read from   *)
(* the challenge only after adapter.pay() has returned.                    *)
(***************************************************************************)
EXTENDS PolicyEngine, FiniteSets

CONSTANTS
    Callers,        \* calls that can be in flight together
    Amounts,        \* prices a paywall can ask for
    Rails,          \* how a challenge states its price; see Extracted
    Payees,         \* addresses a challenge can name
    MaxCap,         \* policy.maxPerTransaction, or the built-in default
    HasProxy,       \* a SpaceRouter proxy adapter is configured
    MaxTime         \* bound on the clock

ASSUME ClientAssumption ==
    /\ IsFiniteSet(Callers)
    /\ Amounts \subseteq Nat
    /\ MaxCap \in Nat
    /\ MaxTime \in Nat
    /\ HasProxy \in BOOLEAN

VARIABLES
    now,        \* Date.now()
    engine,     \* the guard's PolicyEngine
    payLog,     \* audit entries of type 'payment', total per tick
    call,       \* call[c]: control state of slot c and the challenge it holds
    moved,      \* history: price of the calls that resolved, total per tick
    signed      \* history: the payments an adapter has signed

vars == <<now, engine, payLog, call, moved, signed>>

Ticks == 0..MaxTime

NoCall == [pc |-> "idle", proxy |-> "none", bill |-> {}]

\* A challenge is what the 402 response asks for; bill is {} or {challenge}.
Challenge == [amount : Amounts, rail : Rails, payee : Payees]

TypeOK ==
    /\ now \in Ticks
    /\ EngineTypeOK(engine, Ticks)
    /\ payLog \in [Ticks -> Nat]
    /\ moved \in [Ticks -> Nat]
    /\ call \in [Callers -> [pc : {"idle", "fetching", "routing", "paying"},
                             proxy : {"none", "spacerouter", "auto"},
                             bill : SUBSET Challenge]]
    /\ \A c \in Callers :
         call[c].pc = "paying" => \E ch \in Challenge : call[c].bill = {ch}
    /\ signed \subseteq Challenge

Init ==
    /\ now = 0
    /\ engine = NewEngine(0)
    /\ payLog = [s \in Ticks |-> 0]
    /\ moved = [s \in Ticks |-> 0]
    /\ call = [c \in Callers |-> NoCall]
    /\ signed = {}

Tick ==
    /\ now < MaxTime
    /\ now' = now + 1
    /\ UNCHANGED <<engine, payLog, call, moved, signed>>

\* The pre-payment check: the amount is not known yet, so it is 0, and no
\* recipient is passed.
CheckRequest(regionOk) ==
    [amount |-> 0, bytes |-> 0, recipient |-> NoRecipient, regionOk |-> regionOk]

\* fetchWithPayment up to its first await: POLICY_DENIED, NO_PROXY_ADAPTER,
\* or the first request goes out.
Start(c, proxy, regionOk) ==
    LET req == CheckRequest(regionOk)
        goes == Allows(engine, req, now) /\ (proxy = "spacerouter" => HasProxy)
    IN
    /\ call[c].pc = "idle"
    /\ engine' = Evaluated(engine, req, now)
    /\ call' = IF goes
               THEN [call EXCEPT ![c] =
                       [pc |-> IF proxy = "spacerouter" THEN "routing" ELSE "fetching",
                        proxy |-> proxy, bill |-> {}]]
               ELSE call
    /\ UNCHANGED <<now, payLog, moved, signed>>

Finish(c) == call' = [call EXCEPT ![c] = NoCall]

\* The response is not a paywall, the request threw, the challenge names an
\* untrusted facilitator, or no adapter accepts it: the call ends unpaid.
EndsUnpaid(c) ==
    /\ call[c].pc \in {"fetching", "routing"}
    /\ Finish(c)
    /\ UNCHANGED <<now, engine, payLog, moved, signed>>

\* A blocked direct response (shouldFallback) is retried through the proxy.
Fallback(c) ==
    /\ call[c].pc = "fetching" /\ call[c].proxy = "auto" /\ HasProxy
    /\ call' = [call EXCEPT ![c].pc = "routing"]
    /\ UNCHANGED <<now, engine, payLog, moved, signed>>

\* A 402 whose protocol has an adapter: adapter.pay() is called.
Paywalled(c, challenge) ==
    /\ call[c].pc \in {"fetching", "routing"}
    /\ call' = [call EXCEPT ![c].pc = "paying", ![c].bill = {challenge}]
    /\ UNCHANGED <<now, engine, payLog, moved, signed>>

\* extractChallengeAmount(): only accepts[0].maxAmountRequired of a
\* payment-required header is read; a price stated anywhere else (an MPP
\* www-authenticate header, the XRPL "amount" field) counts as 0.
Extracted(challenge) ==
    IF challenge.rail = "maxAmountRequired" THEN challenge.amount ELSE 0

\* adapter.pay() threw, before signing or after (the retried request failed).
AdapterThrows(c, challenge, hasSigned) ==
    /\ call[c].pc = "paying" /\ call[c].bill = {challenge}
    /\ signed' = IF hasSigned THEN signed \cup {challenge} ELSE signed
    /\ Finish(c)
    /\ UNCHANGED <<now, engine, payLog, moved>>

\* adapter.pay() returned.  Only now is the amount compared with the cap: a
\* larger one throws AMOUNT_CAP_EXCEEDED, with the payment already made.
OverCap(c, challenge) ==
    /\ call[c].pc = "paying" /\ call[c].bill = {challenge}
    /\ Extracted(challenge) > MaxCap
    /\ signed' = signed \cup {challenge}
    /\ Finish(c)
    /\ UNCHANGED <<now, engine, payLog, moved>>

\* A slip the code avoids: recording without the post-payment cap.
Bug_ResolvesUncapped(c, challenge) ==
    /\ call[c].pc = "paying" /\ call[c].bill = {challenge}
    /\ signed' = signed \cup {challenge}
    /\ engine' = WithSpend(engine, Extracted(challenge))
    /\ payLog' = Logged(payLog, now, Extracted(challenge))
    /\ moved' = Logged(moved, now, challenge.amount)
    /\ Finish(c)
    /\ UNCHANGED now

\* A slip the code avoids: spending recorded in the engine, not in the log.
Bug_ResolvesUnlogged(c, challenge) ==
    /\ call[c].pc = "paying" /\ call[c].bill = {challenge}
    /\ Extracted(challenge) <= MaxCap
    /\ signed' = signed \cup {challenge}
    /\ engine' = WithSpend(engine, Extracted(challenge))
    /\ moved' = Logged(moved, now, challenge.amount)
    /\ Finish(c)
    /\ UNCHANGED <<now, payLog>>

\* ... otherwise recordPayment() books the extracted amount and the call
\* resolves with the paid response.
Resolves(c, challenge) ==
    /\ call[c].pc = "paying" /\ call[c].bill = {challenge}
    /\ Extracted(challenge) <= MaxCap
    /\ signed' = signed \cup {challenge}
    /\ engine' = WithSpend(engine, Extracted(challenge))
    /\ payLog' = Logged(payLog, now, Extracted(challenge))
    /\ moved' = Logged(moved, now, challenge.amount)
    /\ Finish(c)
    /\ UNCHANGED now

Next ==
    \/ Tick
    \/ \E c \in Callers :
        \/ \E proxy \in {"none", "spacerouter", "auto"}, ok \in BOOLEAN :
             Start(c, proxy, ok)
        \/ EndsUnpaid(c)
        \/ Fallback(c)
        \/ \E ch \in Challenge :
            \/ Paywalled(c, ch)
            \/ \E hasSigned \in BOOLEAN : AdapterThrows(c, ch, hasSigned)
            \/ OverCap(c, ch)
            \/ Resolves(c, ch)

Spec == Init /\ [][Next]_vars

-------------------------------------------------------------------------------
(* Properties that hold.                                                   *)

InFlight == {c \in Callers : call[c].pc # "idle"}

Bounded(spend, cap) ==
    spend <= cap + MaxCap * Cardinality(Callers)

\* The caps of fetchWithPayment are enforced on what was spent before the
\* call, so they can be passed; but a counter that has passed its cap lets
\* no further call in, so the excess never exceeds one maximal payment per
\* call that can be in flight at once.
OvershootBounded ==
    /\ Bounded(engine.hourlySpend, MaxPerHour)
    /\ Bounded(engine.dailySpend, MaxPerDay)

\* What makes it true step by step: a counter beyond its cap still leaves
\* room for every call that is already in flight.
LeavesRoom(spend, cap) ==
    \/ spend <= cap
    \/ spend + MaxCap * Cardinality(InFlight)
         <= cap + MaxCap * Cardinality(Callers)

RoomForInFlight ==
    /\ LeavesRoom(engine.hourlySpend, MaxPerHour)
    /\ LeavesRoom(engine.dailySpend, MaxPerDay)

\* No call leaves idle in a window whose counter is beyond its cap, whatever
\* was recorded by other calls since.
AdmissionStopsAtCap ==
    [][\A c \in Callers :
         call[c].pc = "idle" /\ call'[c].pc # "idle" =>
            /\ engine'.hourlySpend <= MaxPerHour
            /\ engine'.dailySpend <= MaxPerDay]_vars

\* The audit log holds, tick by tick, the money of every resolved call, as
\* long as every payment so far answered a challenge that states its price
\* where extractChallengeAmount looks for it; the payments of other rails
\* are missing from the log and from the counters.
LedgerTracksMoney ==
    (\A p \in signed : p.rail = "maxAmountRequired") => payLog = moved

-------------------------------------------------------------------------------
(* What the README says of the policy; see the findings.                   *)

\* README: "SpendingGuard.check() runs before signing.  A blocked payment
\* never touches a private key."
NothingSignedOverCap == \A p \in signed : p.amount <= MaxCap
===============================================================================
