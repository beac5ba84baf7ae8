------------------------------- MODULE AuditLog -------------------------------
(***************************************************************************)
(* The audit log of src/policy/index.ts, kept as one running total per     *)
(* tick for each entry type: log[s] is the sum of the amounts recorded at  *)
(* tick s.  HourLen and DayLen are the lengths of an hour and a day.       *)
(***************************************************************************)
EXTENDS Integers, Functions

CONSTANTS HourLen, DayLen

ASSUME AuditAssumption == {HourLen, DayLen} \subseteq Nat \ {0}

Logged(log, t, amount) == [log EXCEPT ![t] = @ + amount]

\* getSpendingSummary() and the filters of checkAcquisition(): everything
\* stamped in the last len ticks, both ends included.
SpentSince(log, t, len) ==
    SumFunctionOnSet(log, {s \in DOMAIN log : t - len <= s /\ s <= t})

\* checkAcquisition(): caps over the rolling hour and the rolling day.
AcquisitionAllows(log, amount, maxHour, maxDay, t) ==
    /\ SpentSince(log, t, HourLen) + amount <= maxHour
    /\ SpentSince(log, t, DayLen) + amount <= maxDay
===============================================================================
