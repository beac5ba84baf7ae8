----------------------------- MODULE PolicyEngine -----------------------------
(***************************************************************************)
(* The rule evaluator of src/policy/index.ts as operators on the engine's  *)
(* private fields, kept in one record.  The engine is synchronous, so one  *)
(* call is one step of whichever module owns the record.                   *)
(*                                                                         *)
(* Time is a natural number of ticks; HourLen, DayLen and RateWindow are   *)
(* the three window lengths in ticks.  A request carries only what a rule  *)
(* reads: its amount, its byte count, its recipient (NoRecipient when the  *)
(* caller passes none) and whether its region and ip type are acceptable   *)
(* (regionOk; an absent region is acceptable).                             *)
(***************************************************************************)
EXTENDS AuditLog

CONSTANTS
    MaxPerTransaction, MaxPerHour, MaxPerDay,   \* spending_limit rule
    MaxRequests, RateWindow,                    \* rate_limit rule
    Blocklist, Allowlist, NoRecipient,          \* list rules; {} = no rule
    MaxBytesPerHour, MaxBytesPerDay             \* bandwidth_limit rule

ASSUME PolicyAssumption ==
    /\ {MaxPerTransaction, MaxPerHour, MaxPerDay} \subseteq Nat
    /\ {MaxBytesPerHour, MaxBytesPerDay} \subseteq Nat
    /\ MaxRequests \in Nat
    /\ RateWindow \in Nat \ {0}
    /\ NoRecipient \notin Blocklist \cup Allowlist

\* The request window is kept like the audit log, as the number of requests at
\* each tick it holds: the code asks for its size and for the age of its entries,
\* never for their order.
EngineTypeOK(p, moments) ==
    /\ p \in [hourlySpend : Nat, dailySpend : Nat, hourReset : Nat, dayReset : Nat,
              requestWindow : [DOMAIN p.requestWindow -> Nat],
              hourlyBytes : Nat, dailyBytes : Nat,
              bytesHourReset : Nat, bytesDayReset : Nat]
    /\ DOMAIN p.requestWindow \subseteq moments

\* The field initialisers, evaluated when the engine is constructed.
NewEngine(t) ==
    [hourlySpend |-> 0, dailySpend |-> 0,
     hourReset |-> t + HourLen, dayReset |-> t + DayLen,
     requestWindow |-> [s \in {} |-> 0],
     hourlyBytes |-> 0, dailyBytes |-> 0,
     bytesHourReset |-> t + HourLen, bytesDayReset |-> t + DayLen]

\* A slip the code avoids: starting a new window with the old total.
Bug_RolledKeepsSpend(p, t) ==
    [p EXCEPT !.hourReset = IF t > @ THEN t + HourLen ELSE @,
              !.dayReset = IF t > @ THEN t + DayLen ELSE @]

\* The four window resets that open every evaluate().  A window is reset
\* only here, never by the passage of time alone.
Rolled(p, t) ==
    [hourlySpend    |-> IF t > p.hourReset THEN 0 ELSE p.hourlySpend,
     hourReset      |-> IF t > p.hourReset THEN t + HourLen ELSE p.hourReset,
     dailySpend     |-> IF t > p.dayReset THEN 0 ELSE p.dailySpend,
     dayReset       |-> IF t > p.dayReset THEN t + DayLen ELSE p.dayReset,
     requestWindow  |-> p.requestWindow,
     hourlyBytes    |-> IF t > p.bytesHourReset THEN 0 ELSE p.hourlyBytes,
     bytesHourReset |-> IF t > p.bytesHourReset THEN t + HourLen ELSE p.bytesHourReset,
     dailyBytes     |-> IF t > p.bytesDayReset THEN 0 ELSE p.dailyBytes,
     bytesDayReset  |-> IF t > p.bytesDayReset THEN t + DayLen ELSE p.bytesDayReset]

SpendingAllows(p, amount) ==
    /\ amount <= MaxPerTransaction
    /\ p.hourlySpend + amount <= MaxPerHour
    /\ p.dailySpend + amount <= MaxPerDay

\* The rate rule forgets the timestamps that left the window.
Recent(p, t) ==
    Restrict(p.requestWindow, {s \in DOMAIN p.requestWindow : t - s < RateWindow})

RateAllows(p, t) == SumFunction(Recent(p, t)) < MaxRequests

\* push(): one more request at tick t.
Pushed(window, t) ==
    [s \in DOMAIN window \cup {t} |->
        (IF s \in DOMAIN window THEN window[s] ELSE 0) + (IF s = t THEN 1 ELSE 0)]

ListsAllow(recipient) ==
    recipient # NoRecipient =>
        /\ recipient \notin Blocklist
        /\ Allowlist # {} => recipient \in Allowlist

BandwidthAllows(p, bytes) ==
    /\ p.hourlyBytes + bytes <= MaxBytesPerHour
    /\ p.dailyBytes + bytes <= MaxBytesPerDay

\* evaluate(): the rules run in the order fromConfig() pushes them and the
\* first refusal ends the walk, so a request refused by the spending rule
\* takes no rate slot while one refused by a later rule keeps the slot.
Allows(p, req, t) ==
    LET q == Rolled(p, t) IN
    /\ SpendingAllows(q, req.amount)
    /\ RateAllows(q, t)
    /\ ListsAllow(req.recipient)
    /\ BandwidthAllows(q, req.bytes)
    /\ req.regionOk

TakesSlot(p, req, t) ==
    LET q == Rolled(p, t) IN SpendingAllows(q, req.amount) /\ RateAllows(q, t)

Evaluated(p, req, t) ==
    LET q == Rolled(p, t) IN
    IF ~SpendingAllows(q, req.amount) THEN q
    ELSE [q EXCEPT !.requestWindow =
            IF RateAllows(q, t) THEN Pushed(Recent(q, t), t) ELSE Recent(q, t)]

\* A slip the code avoids: counting down a budget that was never set.
Bug_WithSpendCountsDown(p, amount) ==
    [p EXCEPT !.hourlySpend = @ - amount, !.dailySpend = @ - amount]

\* recordSpend() and recordBandwidth() add to both counters and reset neither.
WithSpend(p, amount) ==
    [p EXCEPT !.hourlySpend = @ + amount, !.dailySpend = @ + amount]

WithBytes(p, bytes) ==
    [p EXCEPT !.hourlyBytes = @ + bytes, !.dailyBytes = @ + bytes]
===============================================================================
