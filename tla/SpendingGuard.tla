----------------------------- MODULE SpendingGuard -----------------------------
(***************************************************************************)
(* SpendingGuard of src/policy/index.ts used directly, by several users at *)
(* once.  Each of them follows the intended protocol: ask with check()     *)
(* or checkBandwidth(), do the work (which awaits, so other callers and    *)
(* the clock move on), then record what it did, or record nothing when the *)
(* work failed.  Every call of the guard is synchronous, hence one step.   *)
(***************************************************************************)
EXTENDS PolicyEngine, FiniteSets

CONSTANTS
    Users,          \* concurrent users of one guard
    Prices, ByteCounts, Recipients,     \* request inputs
    AllowedRegions, AllowedIpTypes,     \* region_filter rule; {} = no list
    Places,         \* regions and ip types a request may name
    MaxClock,       \* bound on the clock
    Unset,          \* a limit that is not in the configuration
    Figures,        \* what a limit may be set to
    MaxTotal        \* bound on what is spent or served under a configuration

ASSUME GuardAssumption ==
    /\ IsFiniteSet(Users) /\ Users # {}
    /\ Prices \subseteq Nat /\ ByteCounts \subseteq Nat
    /\ MaxClock \in Nat /\ MaxTotal \in Nat
    /\ Figures \subseteq Nat /\ Unset \notin Nat

VARIABLES
    clock,      \* Date.now()
    policy,     \* the PolicyEngine's fields
    spendLog,   \* audit entries of type 'payment', total per tick
    slots,      \* history: rate slots taken at each tick
    work        \* work[c]: what caller c was allowed to do and has not recorded

guardVars == <<clock, policy, spendLog, slots, work>>

NoWork == [kind |-> "idle", size |-> 0]

Moments == 0..MaxClock

GuardTypeOK ==
    /\ clock \in Moments
    /\ EngineTypeOK(policy, Moments)
    /\ spendLog \in [Moments -> Nat]
    /\ slots \in [Moments -> Nat]
    /\ work \in [Users -> [kind : {"idle", "payment", "bandwidth"}, size : Nat]]

GuardInit ==
    /\ clock = 0
    /\ policy = NewEngine(0)
    /\ spendLog = [s \in Moments |-> 0]
    /\ slots = [s \in Moments |-> 0]
    /\ work = [c \in Users |-> NoWork]

ClockTicks ==
    /\ clock < MaxClock
    /\ clock' = clock + 1
    /\ UNCHANGED <<policy, spendLog, slots, work>>

\* What check() and checkBandwidth() have in common.
Evaluate(c, req, granted) ==
    /\ work[c] = NoWork
    /\ policy' = Evaluated(policy, req, clock)
    /\ slots' = IF TakesSlot(policy, req, clock)
                THEN [slots EXCEPT ![clock] = @ + 1] ELSE slots
    /\ work' = IF Allows(policy, req, clock)
               THEN [work EXCEPT ![c] = granted] ELSE work
    /\ UNCHANGED <<clock, spendLog>>

Check(c, amount, recipient) ==
    Evaluate(c,
             [amount |-> amount, bytes |-> 0,
              recipient |-> recipient, regionOk |-> TRUE],
             [kind |-> "payment", size |-> amount])

\* The region filter.  What a request names is a set of one place, or empty
\* when it names none, and what it does not name is not looked at.
RegionAllows(region, ipType) ==
    /\ AllowedRegions = {} \/ region \subseteq AllowedRegions
    /\ AllowedIpTypes = {} \/ ipType \subseteq AllowedIpTypes

Named == {{}} \cup {{place} : place \in Places}

CheckBandwidth(c, bytes, region, ipType) ==
    Evaluate(c,
             [amount |-> 0, bytes |-> bytes, recipient |-> NoRecipient,
              regionOk |-> RegionAllows(region, ipType)],
             [kind |-> "bandwidth", size |-> bytes])

RecordPayment(c) ==
    /\ work[c].kind = "payment"
    /\ policy' = WithSpend(policy, work[c].size)
    /\ spendLog' = Logged(spendLog, clock, work[c].size)
    /\ work' = [work EXCEPT ![c] = NoWork]
    /\ UNCHANGED <<clock, slots>>

RecordBandwidth(c) ==
    /\ work[c].kind = "bandwidth"
    /\ policy' = WithBytes(policy, work[c].size)
    /\ work' = [work EXCEPT ![c] = NoWork]
    /\ UNCHANGED <<clock, spendLog, slots>>

\* The allowed work failed: nothing is recorded.
Abandon(c) ==
    /\ work[c] # NoWork
    /\ work' = [work EXCEPT ![c] = NoWork]
    /\ UNCHANGED <<clock, policy, spendLog, slots>>

GuardNext ==
    \/ ClockTicks
    \/ \E c \in Users :
        \/ \E amount \in Prices, r \in Recipients \cup {NoRecipient} :
             Check(c, amount, r)
        \/ \E bytes \in ByteCounts, region, ipType \in Named :
             CheckBandwidth(c, bytes, region, ipType)
        \/ RecordPayment(c)
        \/ RecordBandwidth(c)
        \/ Abandon(c)

GuardSpec == GuardInit /\ [][GuardNext]_guardVars

-------------------------------------------------------------------------------
(* The configuration.  fromConfig() turns the optional limits of a         *)
(* PolicyConfig into rules.  One caller spends and serves, within an hour, *)
(* under the engine made from `config'.                                    *)

VARIABLES
    config,     \* PolicyConfig: limit name -> figure, or Unset
    totals,     \* what was recorded: hourlySpend = dailySpend, and the bytes
    answered    \* history: the requests, with the total they met and the answer

configVars == <<config, totals, answered>>

SpendingLimits == {"maxPerTransaction", "maxPerHour", "maxPerDay"}
BandwidthLimits == {"bandwidthMaxPerHour", "bandwidthMaxPerDay"}

\* The defaults in units of 100000000n; 1n << 62n is beyond every total.
DefaultLimit(limit) ==
    CASE limit = "maxPerHour" -> 1
      [] limit \in {"maxPerTransaction", "maxPerDay"} -> 10
      [] OTHER -> MaxTotal + 10

\* A rule is pushed when one of its limits is truthy, which 0n is not.
HasRule(c, limits) == \E l \in limits : c[l] # Unset /\ c[l] # 0

\* `??': a default replaces what is not given, and not a zero.
Limit(c, l) == IF c[l] = Unset THEN DefaultLimit(l) ELSE c[l]

ConfiguredAllows(c, kind, total, size) ==
    IF kind = "payment"
    THEN HasRule(c, SpendingLimits) =>
           /\ size <= Limit(c, "maxPerTransaction")
           /\ \A l \in {"maxPerHour", "maxPerDay"} : total + size <= Limit(c, l)
    ELSE HasRule(c, BandwidthLimits) =>
           \A l \in BandwidthLimits : total + size <= Limit(c, l)

ConfigInit ==
    /\ config \in [SpendingLimits \cup BandwidthLimits -> Figures \cup {Unset}]
    /\ totals = [kind \in {"payment", "bandwidth"} |-> 0]
    /\ answered = {}

Request(kind, size) ==
    LET allowed == ConfiguredAllows(config, kind, totals[kind], size) IN
    /\ totals[kind] + size <= MaxTotal
    /\ totals' = [totals EXCEPT ![kind] = IF allowed THEN @ + size ELSE @]
    /\ answered' = answered \cup {[kind |-> kind, size |-> size,
                                   total |-> totals[kind], allowed |-> allowed]}
    /\ UNCHANGED config

\* A new process has a new engine: nothing of the old one is stored.
Restart ==
    /\ answered # {}
    /\ totals' = [kind \in DOMAIN totals |-> 0]
    /\ answered' = {}
    /\ UNCHANGED config

ConfigNext ==
    \/ \E kind \in {"payment", "bandwidth"}, size \in Prices : Request(kind, size)
    \/ Restart

-------------------------------------------------------------------------------
(* Properties.                                                             *)

LimitsOf(kind) == IF kind = "payment" THEN SpendingLimits ELSE BandwidthLimits

\* What a configuration comes to (fromConfig, policy/index.ts:123-175).  Beside
\* a positive limit every limit given holds, a zero included; zeros alone
\* limit nothing.  And whoever is refused although he keeps every limit given
\* was paying, and was refused by the default of a limit nobody gave, which any
\* one limit brings along: that of an hour is below that of a payment.  Bytes
\* have no such default.
ConfiguredLimitsHold ==
    \A r \in answered :
        LET Given == {l \in LimitsOf(r.kind) : config[l] # Unset}
            Effective == \E l \in Given : config[l] > 0
            Measure(l) == IF l = "maxPerTransaction" THEN r.size ELSE r.total + r.size
            Keeps == \A l \in Given : Measure(l) <= config[l]
        IN  /\ r.allowed /\ Effective => Keeps
            /\ ~r.allowed =>
                 /\ Effective
                 /\ Keeps => /\ r.kind = "payment"
                             /\ \E l \in SpendingLimits \ Given : Measure(l) > DefaultLimit(l)

\* While the hour (day) window of recordSpend() is current, the rolling
\* summary of the audit log over the same length is at least the counter
\* the caps are enforced on: the two accounts of the same money, one reset
\* lazily inside evaluate() and one computed from timestamps, never let the
\* enforced one run ahead of the log.
SummaryCoversWindow ==
    /\ clock <= policy.hourReset =>
         policy.hourlySpend <= SpentSince(spendLog, clock, HourLen)
    /\ clock <= policy.dayReset =>
         policy.dailySpend <= SpentSince(spendLog, clock, DayLen)

\* The rate rule is a true sliding window: no span of RateWindow ticks sees
\* more than MaxRequests slots taken, wherever the span starts and however
\* the checks of several callers and the clock interleave.
RateLimited ==
    \A s \in Moments :
        SumFunctionOnSet(slots, s .. (IF s + RateWindow - 1 <= MaxClock
                                      THEN s + RateWindow - 1 ELSE MaxClock))
            <= MaxRequests

Others == Cardinality(Users) - 1

\* check() and recordPayment() are separated by the payment itself, so the
\* caps are not exact under concurrency; they are exceeded by at most one
\* maximal request for every other concurrent caller, however payments, byte
\* counts, window resets and abandoned work interleave (so a caller working
\* alone never exceeds them).
GuardOvershootBounded ==
    /\ policy.hourlySpend <= MaxPerHour + Others * MaxPerTransaction
    /\ policy.dailySpend <= MaxPerDay + Others * MaxPerTransaction
    /\ \E b \in ByteCounts \cup {0} :
        /\ policy.hourlyBytes <= MaxBytesPerHour + Others * b
        /\ policy.dailyBytes <= MaxBytesPerDay + Others * b
===============================================================================
