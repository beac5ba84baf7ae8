---------------------------- MODULE SpendingProofs ----------------------------
(***************************************************************************)
(* Proofs about spending under a policy, for any number of callers and     *)
(* users, any caps, prices, windows and configurations: fetchWithPayment   *)
(* first, then the guard used directly, then both under the specification  *)
(* of the runs.                                                            *)
(***************************************************************************)
EXTENDS MCSpending, DataLemmas

-------------------------------------------------------------------------------
(* fetchWithPayment.  The inductive invariant is RoomForInFlight together  *)
(* with the types of the clock, of the calls and of the engine (whose      *)
(* request window plays no part here); OvershootBounded follows from it.   *)

\* The engine's type, except that of the request window.
EngineTyped(p) ==
    p \in [hourlySpend : Nat, dailySpend : Nat, hourReset : Nat, dayReset : Nat,
           requestWindow : {p.requestWindow},
           hourlyBytes : Nat, dailyBytes : Nat,
           bytesHourReset : Nat, bytesDayReset : Nat]

CallType ==
    /\ call \in [Callers -> [pc : {"idle", "fetching", "routing", "paying"},
                             proxy : {"none", "spacerouter", "auto"},
                             bill : SUBSET Challenge]]
    /\ \A c \in Callers :
         call[c].pc = "paying" => \E ch \in Challenge : call[c].bill = {ch}

Typed == now \in Nat /\ EngineTyped(engine) /\ CallType

Inductive == Typed /\ RoomForInFlight

-------------------------------------------------------------------------------
(* The engine's operators.                                                 *)

\* Opening an evaluation can only zero the counters.
LEMMA RolledSpend ==
    ASSUME NEW p, EngineTyped(p), NEW t \in Nat
    PROVE  /\ EngineTyped(Rolled(p, t))
           /\ Rolled(p, t).hourlySpend \in {0, p.hourlySpend}
           /\ Rolled(p, t).dailySpend \in {0, p.dailySpend}
  BY AuditAssumption DEF EngineTyped, Rolled

\* The rest of evaluate() spends nothing.
LEMMA EvaluatedSpend ==
    ASSUME NEW p, EngineTyped(p), NEW t \in Nat, NEW req
    PROVE  /\ EngineTyped(Evaluated(p, req, t))
           /\ Evaluated(p, req, t).hourlySpend = Rolled(p, t).hourlySpend
           /\ Evaluated(p, req, t).dailySpend = Rolled(p, t).dailySpend
  <1> DEFINE q == Rolled(p, t)
  <1>1. EngineTyped(q)
    BY RolledSpend
  <1> HIDE DEF q
  <1>2. \A w : /\ EngineTyped([q EXCEPT !.requestWindow = w])
               /\ [q EXCEPT !.requestWindow = w].hourlySpend = q.hourlySpend
               /\ [q EXCEPT !.requestWindow = w].dailySpend = q.dailySpend
    BY <1>1 DEF EngineTyped
  <1>3. \E w : Evaluated(p, req, t) \in {q, [q EXCEPT !.requestWindow = w]}
    BY DEF Evaluated, q
  <1> QED BY <1>1, <1>2, <1>3 DEF q

\* A check that goes through leaves both counters at or below their caps.
LEMMA AllowedUnderCaps ==
    ASSUME NEW p, EngineTyped(p), NEW t \in Nat, NEW ok,
           Allows(p, CheckRequest(ok), t)
    PROVE  /\ Rolled(p, t).hourlySpend <= MaxPerHour
           /\ Rolled(p, t).dailySpend <= MaxPerDay
  <1>1. EngineTyped(Rolled(p, t))
    BY RolledSpend
  <1>2. SpendingAllows(Rolled(p, t), 0)
    BY DEF Allows, CheckRequest
  <1> QED BY <1>1, <1>2, PolicyAssumption DEF SpendingAllows, EngineTyped

\* A spend is added to both of its counters.
LEMMA WithSpendAdds ==
    ASSUME NEW p, EngineTyped(p), NEW a \in Nat
    PROVE  /\ EngineTyped(WithSpend(p, a))
           /\ WithSpend(p, a).hourlySpend = p.hourlySpend + a
           /\ WithSpend(p, a).dailySpend = p.dailySpend + a
  <1> DEFINE q == [p EXCEPT !.hourlySpend = p.hourlySpend + a]
  <1>1. EngineTyped(q)
    BY DEF EngineTyped
  <1>2. q.hourlySpend = p.hourlySpend + a /\ q.dailySpend = p.dailySpend
    BY DEF EngineTyped
  <1>3. WithSpend(p, a) = [q EXCEPT !.dailySpend = q.dailySpend + a]
    BY <1>2 DEF WithSpend, EngineTyped
  <1> HIDE DEF q
  <1>4. EngineTyped(WithSpend(p, a))
    BY <1>1, <1>3 DEF EngineTyped
  <1> QED BY <1>1, <1>2, <1>3, <1>4 DEF EngineTyped

-------------------------------------------------------------------------------
(* Counting the calls in flight.                                           *)

\* The calls under way are finite, and no more than the callers.
LEMMA InFlightCounts ==
    ASSUME CallType
    PROVE  /\ IsFiniteSet(InFlight) /\ Cardinality(InFlight) \in Nat
           /\ Cardinality(Callers) \in Nat
           /\ Cardinality(InFlight) <= Cardinality(Callers)
  BY ClientAssumption, FS_Subset, FS_CardinalityType DEF InFlight

\* A finished call leaves the set, which has one member less.
LEMMA FinishCounts ==
    ASSUME CallType, NEW c \in InFlight, Finish(c)
    PROVE  /\ CallType'
           /\ Cardinality(InFlight') = Cardinality(InFlight) - 1
  <1>1. CallType'
    BY DEF CallType, Finish, NoCall, InFlight
  <1>2. InFlight' = InFlight \ {c}
    BY DEF CallType, Finish, NoCall, InFlight
  <1> QED BY <1>1, <1>2, InFlightCounts, FS_RemoveElement

\* The arithmetic of one payment less in flight.
LEMMA RoomArithmetic ==
    ASSUME NEW m \in Nat, NEW n \in Nat, NEW k \in Nat, n <= k
    PROVE  /\ m * n \in Nat /\ m * k \in Nat
           /\ m * n <= m * k
           /\ m * (n - 1) = m * n - m
  <1>1. m * n \in Nat /\ m * k \in Nat
    OBVIOUS
  <1>2. m * (n - 1) = m * n - m
    OBVIOUS
  <1>3. PICK d \in Nat : k = n + d
    <2>1. k - n \in Nat /\ k = n + (k - n)
      OBVIOUS
    <2> QED BY <2>1
  <1>4. m * k = m * n + m * d /\ m * d \in Nat
    BY <1>3
  <1> QED BY <1>1, <1>2, <1>4

\* A recorded payment of at most MaxCap, by a call that then is no longer in
\* flight, leaves room.
LEMMA PaymentLeavesRoom ==
    ASSUME NEW spend \in Nat, NEW cap \in Nat, NEW a \in 0 .. MaxCap,
           NEW n \in Nat, NEW k \in Nat, n <= k,
           spend <= cap \/ spend + MaxCap * n <= cap + MaxCap * k
    PROVE  (spend + a) + MaxCap * (n - 1) <= cap + MaxCap * k
  <1> DEFINE mn == MaxCap * n
             mk == MaxCap * k
  <1>1. mn \in Nat /\ mk \in Nat /\ mn <= mk /\ MaxCap * (n - 1) = mn - MaxCap
    BY RoomArithmetic, ClientAssumption
  <1>2. spend <= cap \/ spend + mn <= cap + mk
    OBVIOUS
  <1>3. MaxCap \in Nat
    BY ClientAssumption
  <1> HIDE DEF mn, mk
  <1>4. (spend + a) + (mn - MaxCap) <= cap + mk
    BY <1>1, <1>2, <1>3
  <1> QED BY <1>1, <1>4 DEF mk

-------------------------------------------------------------------------------
(* The theorems.                                                           *)

\* At the start nothing is spent and nobody is under way.
LEMMA InitInductive == Init => Inductive
  <1> SUFFICES ASSUME Init PROVE Inductive
    OBVIOUS
  <1>1. Typed
    BY AuditAssumption DEF Init, Typed, EngineTyped, NewEngine, CallType, NoCall
  <1>2. engine.hourlySpend = 0 /\ engine.dailySpend = 0
    BY DEF Init, NewEngine
  <1>3. RoomForInFlight
    BY <1>2, PolicyAssumption DEF RoomForInFlight, LeavesRoom
  <1> QED BY <1>1, <1>3 DEF Inductive

\* A call that finishes without recording leaves more room.
LEMMA FinishInductive ==
    ASSUME Inductive, NEW c \in InFlight, Finish(c), UNCHANGED <<now, engine>>
    PROVE  Inductive'
  <1> DEFINE n == Cardinality(InFlight)
             k == Cardinality(Callers)
  <1>1. CallType' /\ Cardinality(InFlight') = n - 1
    BY FinishCounts DEF Inductive, Typed
  <1>2. n \in Nat /\ k \in Nat /\ n <= k
    BY InFlightCounts DEF Inductive, Typed
  <1>3. 0 \in 0 .. MaxCap
    BY ClientAssumption
  <1>4. ASSUME NEW spend \in Nat, NEW cap \in Nat, LeavesRoom(spend, cap)
        PROVE  LeavesRoom(spend, cap)'
    <2>1. (spend + 0) + MaxCap * (n - 1) <= cap + MaxCap * k
      BY <1>2, <1>3, <1>4, PaymentLeavesRoom DEF LeavesRoom
    <2>2. spend + 0 = spend
      OBVIOUS
    <2> QED BY <1>1, <2>1, <2>2 DEF LeavesRoom
  <1> QED BY <1>1, <1>4, PolicyAssumption
          DEF Inductive, Typed, RoomForInFlight, EngineTyped

\* A step that changes neither the engine nor who is in flight.
LEMMA SameInFlight ==
    ASSUME Inductive, CallType', now' \in Nat, engine' = engine,
           InFlight' = InFlight
    PROVE  Inductive'
  BY DEF Inductive, Typed, RoomForInFlight, LeavesRoom

\* The counters after a check, whether it lets the call in or not.
LEMMA StartInductive ==
    ASSUME Inductive, NEW c \in Callers,
           NEW proxy \in {"none", "spacerouter", "auto"}, NEW ok \in BOOLEAN,
           Start(c, proxy, ok)
    PROVE  /\ Inductive'
           /\ call' # call => /\ engine'.hourlySpend <= MaxPerHour
                             /\ engine'.dailySpend <= MaxPerDay
  <1> DEFINE q == Rolled(engine, now)
  <1>1. /\ EngineTyped(engine')
        /\ engine'.hourlySpend = q.hourlySpend
        /\ engine'.dailySpend = q.dailySpend
    BY EvaluatedSpend DEF Start, Inductive, Typed
  <1>2. /\ q.hourlySpend \in {0, engine.hourlySpend}
        /\ q.dailySpend \in {0, engine.dailySpend}
    BY RolledSpend DEF Inductive, Typed
  <1> HIDE DEF q
  <1>3. CallType' /\ now' \in Nat
    BY DEF Inductive, Typed, Start, CallType
  <1>4. CASE call' = call
    <2>1. InFlight' = InFlight
      BY <1>4 DEF InFlight
    <2>2. ASSUME NEW spend \in Nat, NEW cap \in Nat, LeavesRoom(spend, cap)
          PROVE  LeavesRoom(spend, cap)' /\ LeavesRoom(0, cap)'
      BY <2>1, <2>2 DEF LeavesRoom
    <2>3. RoomForInFlight'
      BY <1>1, <1>2, <2>2, PolicyAssumption
         DEF Inductive, Typed, EngineTyped, RoomForInFlight
    <2> QED BY <1>1, <1>3, <1>4, <2>3 DEF Inductive, Typed
  <1>5. CASE call' # call
    <2>1. Allows(engine, CheckRequest(ok), now)
      BY <1>5 DEF Start
    <2>2. q.hourlySpend <= MaxPerHour /\ q.dailySpend <= MaxPerDay
      BY <2>1, AllowedUnderCaps DEF Inductive, Typed, q
    <2> QED BY <1>1, <1>3, <2>2
            DEF Inductive, Typed, RoomForInFlight, LeavesRoom
  <1> QED BY <1>4, <1>5

\* A call that resolves keeps the ledger in step with the money.
LEMMA ResolvesInductive ==
    ASSUME Inductive, NEW c \in Callers, NEW ch \in Challenge, Resolves(c, ch)
    PROVE  Inductive'
  <1> DEFINE n == Cardinality(InFlight)
             k == Cardinality(Callers)
             a == Extracted(ch)
  <1>1. c \in InFlight
    BY DEF Resolves, InFlight
  <1>2. CallType' /\ Cardinality(InFlight') = n - 1
    BY <1>1, FinishCounts DEF Inductive, Typed, Resolves
  <1>3. n \in Nat /\ k \in Nat /\ n <= k
    BY InFlightCounts DEF Inductive, Typed
  <1>4. a \in 0 .. MaxCap
    <2>1. ch.amount \in Nat
      BY ClientAssumption DEF Challenge
    <2>2. a \in Nat
      BY <2>1 DEF Extracted
    <2>3. a <= MaxCap
      BY DEF Resolves
    <2> QED BY <2>2, <2>3, ClientAssumption
  <1>5. /\ EngineTyped(engine')
        /\ engine'.hourlySpend = engine.hourlySpend + a
        /\ engine'.dailySpend = engine.dailySpend + a
    <2>1. a \in Nat
      BY <1>4
    <2> QED BY <2>1, WithSpendAdds DEF Inductive, Typed, Resolves
  <1>6. ASSUME NEW spend \in Nat, NEW cap \in Nat, LeavesRoom(spend, cap)
        PROVE  LeavesRoom(spend + a, cap)'
    <2>1. (spend + a) + MaxCap * (n - 1) <= cap + MaxCap * k
      BY <1>3, <1>4, <1>6, PaymentLeavesRoom DEF LeavesRoom
    <2> QED BY <1>2, <2>1 DEF LeavesRoom
  <1>7. RoomForInFlight'
    BY <1>5, <1>6, PolicyAssumption
       DEF Inductive, Typed, EngineTyped, RoomForInFlight
  <1> QED BY <1>2, <1>5, <1>7 DEF Inductive, Typed, Resolves

\* Every step keeps the invariant.
LEMMA StepInductive == Inductive /\ [Next]_vars => Inductive'
  <1> SUFFICES ASSUME Inductive, [Next]_vars PROVE Inductive'
    OBVIOUS
  <1> USE DEF Inductive, Typed
  <1>1. CASE Tick
    BY <1>1, SameInFlight DEF Tick, Ticks, InFlight, CallType
  <1>2. ASSUME NEW c \in Callers,
               NEW proxy \in {"none", "spacerouter", "auto"}, NEW ok \in BOOLEAN,
               Start(c, proxy, ok)
        PROVE  Inductive'
    BY <1>2, StartInductive
  <1>3. ASSUME NEW c \in Callers, EndsUnpaid(c) PROVE Inductive'
    BY <1>3, FinishInductive DEF EndsUnpaid, InFlight
  <1>4. ASSUME NEW c \in Callers, Fallback(c) PROVE Inductive'
    BY <1>4, SameInFlight DEF Fallback, InFlight, CallType
  <1>5. ASSUME NEW c \in Callers, NEW ch \in Challenge, Paywalled(c, ch)
        PROVE  Inductive'
    BY <1>5, SameInFlight DEF Paywalled, InFlight, CallType
  <1>6. ASSUME NEW c \in Callers, NEW ch \in Challenge,
               NEW hasSigned \in BOOLEAN, AdapterThrows(c, ch, hasSigned)
        PROVE  Inductive'
    BY <1>6, FinishInductive DEF AdapterThrows, InFlight
  <1>7. ASSUME NEW c \in Callers, NEW ch \in Challenge, OverCap(c, ch)
        PROVE  Inductive'
    BY <1>7, FinishInductive DEF OverCap, InFlight
  <1>8. ASSUME NEW c \in Callers, NEW ch \in Challenge, Resolves(c, ch)
        PROVE  Inductive'
    BY <1>8, ResolvesInductive
  <1>9. CASE UNCHANGED vars
    BY <1>9, SameInFlight DEF vars, InFlight, CallType
  <1> QED BY <1>1, <1>2, <1>3, <1>4, <1>5, <1>6, <1>7, <1>8, <1>9 DEF Next

\* Every reachable state is typed and leaves room for the calls in flight.
THEOREM InductiveInvariant == Spec => []Inductive
  <1> QED BY InitInductive, StepInductive, PTL DEF Spec

\* RoomForInFlight of fetchWithPayment, for any number of callers and any caps.
THEOREM RoomAlways == Spec => []RoomForInFlight
  <1>1. Inductive => RoomForInFlight
    BY DEF Inductive
  <1> QED BY <1>1, InductiveInvariant, PTL

\* The counters of fetchWithPayment exceed their caps by at most MaxCap for
\* each concurrent caller.
THEOREM OvershootAlwaysBounded == Spec => []OvershootBounded
  <1>1. Inductive => OvershootBounded
    <2> SUFFICES ASSUME Inductive PROVE OvershootBounded
      OBVIOUS
    <2> DEFINE n == Cardinality(InFlight)
               k == Cardinality(Callers)
    <2>1. n \in Nat /\ k \in Nat /\ n <= k
      BY InFlightCounts DEF Inductive, Typed
    <2>2. MaxCap * n \in Nat /\ MaxCap * k \in Nat
      BY <2>1, RoomArithmetic, ClientAssumption
    <2>3. ASSUME NEW spend \in Nat, NEW cap \in Nat, LeavesRoom(spend, cap)
          PROVE  Bounded(spend, cap)
      <3> DEFINE mn == MaxCap * n
                 mk == MaxCap * k
      <3>1. mn \in Nat /\ mk \in Nat /\ (spend <= cap \/ spend + mn <= cap + mk)
        BY <2>2, <2>3 DEF LeavesRoom
      <3> HIDE DEF mn, mk
      <3>2. spend <= cap + mk
        BY <3>1
      <3> QED BY <3>2 DEF mk, Bounded
    <2> QED BY <2>3, PolicyAssumption
            DEF Inductive, Typed, EngineTyped, RoomForInFlight, OvershootBounded
  <1> QED BY <1>1, InductiveInvariant, PTL

\* No call of fetchWithPayment goes out while a counter is beyond its cap.
THEOREM AdmissionAlwaysStopsAtCap == Spec => AdmissionStopsAtCap
  <1>1. ASSUME Inductive, [Next]_vars, NEW c \in Callers,
               call[c].pc = "idle", call'[c].pc # "idle"
        PROVE  engine'.hourlySpend <= MaxPerHour /\ engine'.dailySpend <= MaxPerDay
    <2>1. call' # call
      BY <1>1
    <2>2. PICK d \in Callers : \E proxy \in {"none", "spacerouter", "auto"}, ok \in BOOLEAN :
                                Start(d, proxy, ok)
      BY <1>1 DEF Next, vars, Tick, EndsUnpaid, Fallback, Paywalled, AdapterThrows,
                  OverCap, Resolves, Finish, NoCall, Inductive, Typed, CallType
    <2> QED BY <1>1, <2>1, <2>2, StartInductive
  <1>2. Inductive /\ [Next]_vars =>
          [\A c \in Callers :
             call[c].pc = "idle" /\ call'[c].pc # "idle" =>
                /\ engine'.hourlySpend <= MaxPerHour
                /\ engine'.dailySpend <= MaxPerDay]_vars
    BY <1>1
  <1> QED BY <1>2, InductiveInvariant, PTL DEF Spec, AdmissionStopsAtCap

\* As long as every payment answered a challenge that states its price where it is
\* looked for, the audit log of fetchWithPayment and the money that moved agree
\* tick by tick, for any number of callers (client.ts:500-520, 575).
THEOREM LedgerAlwaysTracksMoney == Spec => []LedgerTracksMoney
  <1>1. Init => LedgerTracksMoney
    BY DEF Init, LedgerTracksMoney
  <1>2. ASSUME LedgerTracksMoney, [Next]_vars PROVE LedgerTracksMoney'
    <2>1. ASSUME NEW c \in Callers, NEW ch \in Challenge, Resolves(c, ch) PROVE LedgerTracksMoney'
      BY <1>2, <2>1 DEF Resolves, LedgerTracksMoney, Extracted
    <2>2. CASE signed \subseteq signed' /\ UNCHANGED <<payLog, moved>>
      BY <1>2, <2>2 DEF LedgerTracksMoney
    <2> QED BY <1>2, <2>1, <2>2 DEF Next, vars, Tick, Start, EndsUnpaid, Fallback, Paywalled,
                                    AdapterThrows, OverCap
  <1> QED BY <1>1, <1>2, PTL DEF Spec

-------------------------------------------------------------------------------
(* The policy engine as the guard and the client use it.                   *)

\* Whatever moments the request window holds, a roll keeps the engine's type.
LEMMA RolledTyped ==
    ASSUME NEW M \in SUBSET Nat, NEW p, EngineTypeOK(p, M), NEW t \in M
    PROVE  /\ EngineTypeOK(Rolled(p, t), M)
           /\ Rolled(p, t).requestWindow = p.requestWindow
  BY AuditAssumption DEF EngineTypeOK, Rolled

\* What the rate rule keeps of a window, and the window with one more request.
LEMMA WindowTyped ==
    ASSUME NEW M \in SUBSET Nat, NEW w, w \in [DOMAIN w -> Nat], DOMAIN w \subseteq M, NEW t \in M
    PROVE  /\ Pushed(w, t) \in [DOMAIN Pushed(w, t) -> Nat]
           /\ DOMAIN Pushed(w, t) \subseteq M
           /\ \A D \in SUBSET DOMAIN w : /\ Restrict(w, D) \in [DOMAIN Restrict(w, D) -> Nat]
                                         /\ DOMAIN Restrict(w, D) \subseteq M
  BY DEF Pushed, Restrict

\* A new window of requests is all that the rules change in a rolled engine.
LEMMA WindowReplaced ==
    ASSUME NEW M \in SUBSET Nat, NEW p, EngineTypeOK(p, M),
           NEW w, w \in [DOMAIN w -> Nat], DOMAIN w \subseteq M
    PROVE  /\ EngineTypeOK([p EXCEPT !.requestWindow = w], M)
           /\ [p EXCEPT !.requestWindow = w].requestWindow = w
  BY DEF EngineTypeOK

\* An evaluation keeps the engine's type.
LEMMA EvaluatedTyped ==
    ASSUME NEW M \in SUBSET Nat, NEW p, EngineTypeOK(p, M), NEW t \in M, NEW req
    PROVE  EngineTypeOK(Evaluated(p, req, t), M)
  <1> DEFINE q == Rolled(p, t)
             r == Recent(q, t)
  <1>1. EngineTypeOK(q, M)
    BY RolledTyped
  <1>2. /\ q.requestWindow \in [DOMAIN q.requestWindow -> Nat]
        /\ DOMAIN q.requestWindow \subseteq M
    BY <1>1 DEF EngineTypeOK
  <1> HIDE DEF q
  <1>3. r \in [DOMAIN r -> Nat] /\ DOMAIN r \subseteq M
    BY <1>2, WindowTyped DEF Recent
  <1> HIDE DEF r
  <1>4. Pushed(r, t) \in [DOMAIN Pushed(r, t) -> Nat] /\ DOMAIN Pushed(r, t) \subseteq M
    BY <1>3, WindowTyped
  <1>5. /\ EngineTypeOK([q EXCEPT !.requestWindow = r], M)
        /\ EngineTypeOK([q EXCEPT !.requestWindow = Pushed(r, t)], M)
    BY <1>1, <1>3, <1>4, WindowReplaced
  <1>6. Evaluated(p, req, t) \in {q, [q EXCEPT !.requestWindow = r],
                                   [q EXCEPT !.requestWindow = Pushed(r, t)]}
    BY DEF Evaluated, q, r
  <1> QED BY <1>1, <1>5, <1>6

\* What an evaluation does to the counters, their windows and the requests.
LEMMA EvaluatedFields ==
    ASSUME NEW M \in SUBSET Nat, NEW p, EngineTypeOK(p, M), NEW t \in M, NEW req
    PROVE  LET q == Rolled(p, t)
               e == Evaluated(p, req, t) IN
           /\ e.hourlySpend = q.hourlySpend /\ e.dailySpend = q.dailySpend
           /\ e.hourReset = q.hourReset /\ e.dayReset = q.dayReset
           /\ e.hourlyBytes = q.hourlyBytes /\ e.dailyBytes = q.dailyBytes
           /\ e.requestWindow \in {p.requestWindow, Recent(q, t), Pushed(Recent(q, t), t)}
           /\ e.requestWindow = Pushed(Recent(q, t), t) \/ ~TakesSlot(p, req, t)
           /\ TakesSlot(p, req, t) \/ e.requestWindow \in {p.requestWindow, Recent(q, t)}
  <1> DEFINE q == Rolled(p, t)
             r == Recent(q, t)
  <1>1. EngineTypeOK(q, M) /\ q.requestWindow = p.requestWindow
    BY RolledTyped
  <1>2. ASSUME NEW w
        PROVE  LET e == [q EXCEPT !.requestWindow = w] IN
               /\ e.hourlySpend = q.hourlySpend /\ e.dailySpend = q.dailySpend
               /\ e.hourReset = q.hourReset /\ e.dayReset = q.dayReset
               /\ e.hourlyBytes = q.hourlyBytes /\ e.dailyBytes = q.dailyBytes
               /\ e.requestWindow = w
    <2> HIDE DEF q
    <2> QED BY <1>1 DEF EngineTypeOK
  <1>3. CASE ~SpendingAllows(q, req.amount)
    BY <1>1, <1>3 DEF Evaluated, TakesSlot
  <1>4. CASE SpendingAllows(q, req.amount) /\ RateAllows(q, t)
    <2>1. /\ Evaluated(p, req, t) = [q EXCEPT !.requestWindow = Pushed(r, t)]
          /\ TakesSlot(p, req, t)
      BY <1>4 DEF Evaluated, TakesSlot
    <2> HIDE DEF q, r
    <2> QED BY <1>2, <2>1 DEF q, r
  <1>5. CASE SpendingAllows(q, req.amount) /\ ~RateAllows(q, t)
    <2>1. /\ Evaluated(p, req, t) = [q EXCEPT !.requestWindow = r]
          /\ ~TakesSlot(p, req, t)
      BY <1>5 DEF Evaluated, TakesSlot
    <2> HIDE DEF q, r
    <2> QED BY <1>2, <2>1 DEF q, r
  <1> QED BY <1>3, <1>4, <1>5

\* Recording adds to both counters of its kind and to nothing else.
LEMMA RecordedTyped ==
    ASSUME NEW M \in SUBSET Nat, NEW p, EngineTypeOK(p, M), NEW a \in Nat
    PROVE  /\ EngineTypeOK(WithSpend(p, a), M) /\ EngineTypeOK(WithBytes(p, a), M)
           /\ WithSpend(p, a).hourlySpend = p.hourlySpend + a
           /\ WithSpend(p, a).dailySpend = p.dailySpend + a
           /\ WithBytes(p, a).hourlyBytes = p.hourlyBytes + a
           /\ WithBytes(p, a).dailyBytes = p.dailyBytes + a
           /\ WithSpend(p, a).hourlyBytes = p.hourlyBytes
           /\ WithSpend(p, a).dailyBytes = p.dailyBytes
           /\ WithBytes(p, a).hourlySpend = p.hourlySpend
           /\ WithBytes(p, a).dailySpend = p.dailySpend
           /\ \A e \in {WithSpend(p, a), WithBytes(p, a)} :
                 /\ e.hourReset = p.hourReset /\ e.dayReset = p.dayReset
                 /\ e.requestWindow = p.requestWindow
  <1>1. ASSUME NEW h \in Nat, NEW d \in Nat
        PROVE  /\ EngineTypeOK([p EXCEPT !.hourlySpend = h, !.dailySpend = d], M)
               /\ EngineTypeOK([p EXCEPT !.hourlyBytes = h, !.dailyBytes = d], M)
    BY DEF EngineTypeOK
  <1>2. /\ p.hourlySpend + a \in Nat /\ p.dailySpend + a \in Nat
        /\ p.hourlyBytes + a \in Nat /\ p.dailyBytes + a \in Nat
    BY DEF EngineTypeOK
  <1>3. /\ WithSpend(p, a) = [p EXCEPT !.hourlySpend = p.hourlySpend + a,
                                      !.dailySpend = p.dailySpend + a]
        /\ WithBytes(p, a) = [p EXCEPT !.hourlyBytes = p.hourlyBytes + a,
                                      !.dailyBytes = p.dailyBytes + a]
    BY DEF WithSpend, WithBytes, EngineTypeOK
  <1>4. ASSUME NEW h, NEW d
        PROVE  LET s == [p EXCEPT !.hourlySpend = h, !.dailySpend = d]
                   b == [p EXCEPT !.hourlyBytes = h, !.dailyBytes = d] IN
               /\ s.hourlySpend = h /\ s.dailySpend = d
               /\ b.hourlyBytes = h /\ b.dailyBytes = d
               /\ s.hourlyBytes = p.hourlyBytes /\ s.dailyBytes = p.dailyBytes
               /\ b.hourlySpend = p.hourlySpend /\ b.dailySpend = p.dailySpend
               /\ \A e \in {s, b} : /\ e.hourReset = p.hourReset /\ e.dayReset = p.dayReset
                                    /\ e.requestWindow = p.requestWindow
    BY DEF EngineTypeOK
  <1> DEFINE hs == p.hourlySpend + a
             ds == p.dailySpend + a
             hb == p.hourlyBytes + a
             db == p.dailyBytes + a
             s == WithSpend(p, a)
             b == WithBytes(p, a)
  <1>5. /\ hs \in Nat /\ ds \in Nat /\ hb \in Nat /\ db \in Nat
        /\ s = [p EXCEPT !.hourlySpend = hs, !.dailySpend = ds]
        /\ b = [p EXCEPT !.hourlyBytes = hb, !.dailyBytes = db]
    BY <1>2, <1>3
  <1> HIDE DEF hs, ds, hb, db, s, b
  <1>6. EngineTypeOK(s, M) /\ EngineTypeOK(b, M)
    BY ONLY <1>1, <1>5
  <1>7. /\ s.hourlySpend = hs /\ s.dailySpend = ds
        /\ s.hourlyBytes = p.hourlyBytes /\ s.dailyBytes = p.dailyBytes
        /\ s.hourReset = p.hourReset /\ s.dayReset = p.dayReset
        /\ s.requestWindow = p.requestWindow
    BY ONLY <1>4, <1>5
  <1>8. /\ b.hourlyBytes = hb /\ b.dailyBytes = db
        /\ b.hourlySpend = p.hourlySpend /\ b.dailySpend = p.dailySpend
        /\ b.hourReset = p.hourReset /\ b.dayReset = p.dayReset
        /\ b.requestWindow = p.requestWindow
    BY ONLY <1>4, <1>5
  <1> QED BY <1>6, <1>7, <1>8 DEF s, b, hs, ds, hb, db

-------------------------------------------------------------------------------
(* The guard: types.                                                       *)

\* Moments are natural numbers.
LEMMA MomentsNat == Moments \in SUBSET Nat
  BY GuardAssumption DEF Moments

\* An evaluation keeps the guard well typed.
LEMMA EvaluateTyped ==
    ASSUME GuardTypeOK, NEW c \in Users, NEW req,
           NEW granted \in [kind : {"idle", "payment", "bandwidth"}, size : Nat],
           Evaluate(c, req, granted)
    PROVE  GuardTypeOK'
  <1>1. EngineTypeOK(policy', Moments)
    BY MomentsNat, EvaluatedTyped DEF GuardTypeOK, Evaluate
  <1>2. slots' \in [Moments -> Nat]
    BY DEF GuardTypeOK, Evaluate
  <1>3. work' \in [Users -> [kind : {"idle", "payment", "bandwidth"}, size : Nat]]
    BY DEF GuardTypeOK, Evaluate
  <1>4. clock' \in Moments /\ spendLog' \in [Moments -> Nat]
    BY DEF GuardTypeOK, Evaluate
  <1> QED BY <1>1, <1>2, <1>3, <1>4, Zenon DEF GuardTypeOK, EngineTypeOK, Moments

\* Every step of the guard keeps it well typed.
LEMMA GuardTypedStep == ASSUME GuardTypeOK, [GuardNext]_guardVars PROVE GuardTypeOK'
  <1>1. NoWork \in [kind : {"idle", "payment", "bandwidth"}, size : Nat]
    BY DEF NoWork
  <1>2. CASE ClockTicks
    <2>1. clock' \in Moments
      BY <1>2, GuardAssumption DEF ClockTicks, GuardTypeOK, Moments
    <2> QED BY <1>2, <2>1 DEF ClockTicks, GuardTypeOK
  <1>3. ASSUME NEW c \in Users, NEW amount \in Prices, NEW r, Check(c, amount, r) PROVE GuardTypeOK'
    <2>1. [kind |-> "payment", size |-> amount]
            \in [kind : {"idle", "payment", "bandwidth"}, size : Nat]
      BY GuardAssumption
    <2> QED BY <1>3, <2>1, EvaluateTyped DEF Check
  <1>4. ASSUME NEW c \in Users, NEW bytes \in ByteCounts, NEW region, NEW ipType,
               CheckBandwidth(c, bytes, region, ipType)
        PROVE GuardTypeOK'
    <2>1. [kind |-> "bandwidth", size |-> bytes]
            \in [kind : {"idle", "payment", "bandwidth"}, size : Nat]
      BY GuardAssumption
    <2> QED BY <1>4, <2>1, EvaluateTyped DEF CheckBandwidth
  <1>5. ASSUME NEW c \in Users, RecordPayment(c) PROVE GuardTypeOK'
    <2>1. work[c].size \in Nat
      BY DEF GuardTypeOK
    <2>2. EngineTypeOK(policy', Moments)
      BY <1>5, <2>1, MomentsNat, RecordedTyped DEF GuardTypeOK, RecordPayment
    <2>3. spendLog' \in [Moments -> Nat]
      BY <1>5, <2>1 DEF GuardTypeOK, RecordPayment, Logged
    <2>4. /\ work' \in [Users -> [kind : {"idle", "payment", "bandwidth"}, size : Nat]]
          /\ UNCHANGED <<clock, slots>>
      BY <1>1, <1>5 DEF GuardTypeOK, RecordPayment
    <2> QED BY <2>2, <2>3, <2>4 DEF GuardTypeOK
  <1>6. ASSUME NEW c \in Users, RecordBandwidth(c) PROVE GuardTypeOK'
    <2>1. work[c].size \in Nat
      BY DEF GuardTypeOK
    <2>2. EngineTypeOK(policy', Moments)
      BY <1>6, <2>1, MomentsNat, RecordedTyped DEF GuardTypeOK, RecordBandwidth
    <2>3. /\ work' \in [Users -> [kind : {"idle", "payment", "bandwidth"}, size : Nat]]
          /\ UNCHANGED <<clock, spendLog, slots>>
      BY <1>1, <1>6 DEF GuardTypeOK, RecordBandwidth
    <2> QED BY <2>2, <2>3 DEF GuardTypeOK
  <1>7. ASSUME NEW c \in Users, Abandon(c) PROVE GuardTypeOK'
    BY <1>1, <1>7 DEF GuardTypeOK, Abandon
  <1>8. CASE UNCHANGED guardVars
    BY <1>8 DEF GuardTypeOK, guardVars
  <1> QED BY <1>2, <1>3, <1>4, <1>5, <1>6, <1>7, <1>8 DEF GuardNext

\* A new engine is well typed, in the present.
LEMMA NewEngineTyped == ASSUME NEW M, 0 \in M PROVE EngineTypeOK(NewEngine(0), M)
  BY AuditAssumption DEF NewEngine, EngineTypeOK

\* The guard starts well typed.
LEMMA GuardTypedInit == GuardInit => GuardTypeOK
  <1> SUFFICES ASSUME GuardInit PROVE GuardTypeOK
    OBVIOUS
  <1>1. 0 \in Moments
    BY GuardAssumption DEF Moments
  <1>2. EngineTypeOK(policy, Moments)
    BY <1>1, NewEngineTyped DEF GuardInit
  <1> QED BY <1>1, <1>2 DEF GuardInit, GuardTypeOK, NoWork

-------------------------------------------------------------------------------
(* The guard: the rate limit.  Of the moments that are still within the    *)
(* rate window, the engine holds as many requests as took a slot.  So the  *)
(* slots of every span of that length that reaches the present are among   *)
(* the requests the engine counts before it grants another one.            *)

\* How many requests of moment s the window w holds.
Held(w, s) == IF s \in DOMAIN w THEN w[s] ELSE 0

WindowTracksSlots ==
    \A s \in Moments : clock - s < RateWindow => slots[s] = Held(policy.requestWindow, s)

\* The moments of the span of RateWindow ticks that begins at s.
Span(s) == s .. (IF s + RateWindow - 1 <= MaxClock THEN s + RateWindow - 1 ELSE MaxClock)

\* Spans are finite sets of moments.
LEMMA SpanFinite ==
    ASSUME NEW s \in Moments
    PROVE  /\ Span(s) \subseteq Moments
           /\ \A S \in SUBSET Moments : IsFiniteSet(S)
           /\ clock \in Span(s) => \A x \in Span(s) : clock - x < RateWindow
  <1>1. Span(s) \subseteq Moments
    BY GuardAssumption, PolicyAssumption DEF Span, Moments
  <1>2. IsFiniteSet(Moments)
    BY GuardAssumption, FS_Interval DEF Moments
  <1>3. clock \in Span(s) => \A x \in Span(s) : clock - x < RateWindow
    BY GuardAssumption, PolicyAssumption DEF Span, Moments
  <1> QED BY <1>1, <1>2, <1>3, FS_Subset

\* The size of what the rate rule keeps is the sum of the slots it still sees.
LEMMA RecentCountsSlots ==
    ASSUME GuardTypeOK, WindowTracksSlots, NEW A \in SUBSET Moments,
           \A x \in A : clock - x < RateWindow
    PROVE  /\ SumFunctionOnSet(slots, A) \in Nat
           /\ SumFunction(Recent(Rolled(policy, clock), clock)) \in Nat
           /\ SumFunctionOnSet(slots, A) <= SumFunction(Recent(Rolled(policy, clock), clock))
  <1> DEFINE w == policy.requestWindow
             E == {s \in Moments : clock - s < RateWindow}
             D == {s \in DOMAIN w : clock - s < RateWindow}
             h == [s \in Moments |-> Held(w, s)]
             r == Recent(Rolled(policy, clock), clock)
  <1>1. /\ w \in [DOMAIN w -> Nat] /\ DOMAIN w \subseteq Moments
        /\ clock \in Moments /\ slots \in [Moments -> Nat]
        /\ Rolled(policy, clock).requestWindow = w
    BY MomentsNat, RolledTyped DEF GuardTypeOK, EngineTypeOK
  <1>2. r = [x \in D |-> w[x]] /\ DOMAIN r = D
    BY <1>1 DEF Recent, Restrict
  <1>3. D \subseteq E /\ A \subseteq E /\ E \subseteq Moments /\ D \subseteq Moments
    BY <1>1
  <1>4. IsFiniteSet(E) /\ IsFiniteSet(D)
    <2>1. IsFiniteSet(Moments)
      BY GuardAssumption, FS_Interval DEF Moments
    <2> QED BY <1>3, <2>1, FS_Subset
  <1>5. \A s \in E : slots[s] = h[s] /\ slots[s] \in Nat /\ h[s] \in Nat
    BY <1>1 DEF WindowTracksSlots, Held
  <1>6. \A s \in E \ D : h[s] = 0
    BY <1>1 DEF Held
  <1>7. \A s \in D : r[s] = h[s]
    BY <1>1, <1>2, <1>3 DEF Held
  <1>8. SumFunction(r) = SumFunctionOnSet(r, D)
    BY <1>2 DEF SumFunction
  <1> HIDE DEF w, E, D, h, r
  <1>9. SumFunctionOnSet(r, D) = SumFunctionOnSet(h, D)
    BY <1>4, <1>7, SumSame
  <1>10. SumFunctionOnSet(h, E) = SumFunctionOnSet(h, D)
    <2>1. \A s \in E : h[s] \in Int
      BY <1>5
    <2> QED BY ONLY <1>3, <1>4, <1>6, <2>1, SumSupport
  <1>11. SumFunctionOnSet(slots, E) = SumFunctionOnSet(h, E)
    BY ONLY <1>4, <1>5, SumSame
  <1>12. /\ SumFunctionOnSet(slots, E) \in Nat /\ SumFunctionOnSet(slots, A) \in Nat
         /\ SumFunctionOnSet(slots, A) <= SumFunctionOnSet(slots, E)
    <2>1. \A s \in E : slots[s] \in Nat
      BY <1>5
    <2> QED BY ONLY <1>3, <1>4, <2>1, SumGrows
  <1>13. SumFunction(r) = SumFunctionOnSet(slots, E)
    BY <1>8, <1>9, <1>10, <1>11
  <1> QED BY <1>12, <1>13 DEF r

\* No span holds more than MaxRequests slots (the property, with its span named).
LEMMA RateLimitedSpans ==
    RateLimited <=> \A s \in Moments : SumFunctionOnSet(slots, Span(s)) <= MaxRequests
  BY DEF RateLimited, Span

\* A slot is granted only where every span that it falls into has room for it.
LEMMA SlotGranted ==
    ASSUME GuardTypeOK, WindowTracksSlots, RateLimited, NEW c, NEW req, NEW granted,
           Evaluate(c, req, granted)
    PROVE  RateLimited'
  <1>1. /\ clock \in Moments /\ slots \in [Moments -> Nat] /\ UNCHANGED clock
    BY DEF GuardTypeOK, Evaluate
  <1>2. CASE ~TakesSlot(policy, req, clock)
    BY <1>2, RateLimitedSpans DEF Evaluate, RateLimited
  <1>3. CASE TakesSlot(policy, req, clock)
    <2> DEFINE n == slots[clock] + 1
               f == [slots EXCEPT ![clock] = n]
    <2>1. slots' = f /\ n \in Nat /\ n - slots[clock] = 1
      BY <1>1, <1>3 DEF Evaluate
    <2> HIDE DEF n
    <2>2. SumFunction(Recent(Rolled(policy, clock), clock)) < MaxRequests
      BY <1>3 DEF TakesSlot, RateAllows
    <2>3. \A x \in Moments : f[x] \in Nat /\ (x # clock => f[x] = slots[x])
      BY <1>1, <2>1
    <2>4. f[clock] = n
      BY <1>1
    <2> HIDE DEF f
    <2>5. ASSUME NEW s \in Moments PROVE SumFunctionOnSet(f, Span(s)) <= MaxRequests
      <3>1. /\ Span(s) \subseteq Moments /\ IsFiniteSet(Span(s))
            /\ SumFunctionOnSet(slots, Span(s)) <= MaxRequests
        BY SpanFinite, RateLimitedSpans
      <3>2. CASE clock \notin Span(s)
        <4>1. \A x \in Span(s) : f[x] = slots[x]
          BY <2>3, <3>1, <3>2
        <4>2. SumFunctionOnSet(f, Span(s)) = SumFunctionOnSet(slots, Span(s))
          BY ONLY <3>1, <4>1, SumSame
        <4> QED BY <3>1, <4>2
      <3>3. CASE clock \in Span(s)
        <4>1. \A x \in Span(s) : clock - x < RateWindow
          BY <3>3, SpanFinite
        <4>2. /\ SumFunctionOnSet(slots, Span(s)) \in Nat
              /\ SumFunctionOnSet(slots, Span(s))
                   <= SumFunction(Recent(Rolled(policy, clock), clock))
              /\ SumFunction(Recent(Rolled(policy, clock), clock)) \in Nat
          BY <3>1, <4>1, RecentCountsSlots
        <4>3. /\ \A x \in Span(s) : slots[x] \in Int
              /\ \A x \in Span(s) : f[x] \in Int
              /\ \A x \in Span(s) : x # clock => slots[x] = f[x]
          BY <1>1, <2>3, <3>1
        <4>4. SumFunctionOnSet(f, Span(s))
                = SumFunctionOnSet(slots, Span(s)) + (f[clock] - slots[clock])
          BY ONLY <3>1, <3>3, <4>3, SumChange
        <4>5. f[clock] - slots[clock] = 1
          BY <2>1, <2>4
        <4> DEFINE a == SumFunctionOnSet(slots, Span(s))
                   b == SumFunctionOnSet(f, Span(s))
                   m == SumFunction(Recent(Rolled(policy, clock), clock))
        <4>6. b = a + 1 /\ a \in Nat /\ m \in Nat /\ a <= m /\ m < MaxRequests
          BY <2>2, <4>2, <4>4, <4>5
        <4> HIDE DEF a, b, m
        <4>7. b <= MaxRequests
          BY <4>6, PolicyAssumption
        <4> QED BY <4>7 DEF b
      <3> QED BY <3>2, <3>3
    <2> QED BY <2>1, <2>5 DEF RateLimited, Span
  <1> QED BY <1>2, <1>3

\* What the engine holds of the rate window is what took a slot, after a check too.
LEMMA SlotHeld ==
    ASSUME GuardTypeOK, WindowTracksSlots, NEW c, NEW req, NEW granted, Evaluate(c, req, granted)
    PROVE  WindowTracksSlots'
  <1> DEFINE w == policy.requestWindow
             v == policy'.requestWindow
             r == Recent(Rolled(policy, clock), clock)
  <1>1. /\ w \in [DOMAIN w -> Nat] /\ DOMAIN w \subseteq Moments
        /\ clock \in Moments /\ slots \in [Moments -> Nat] /\ UNCHANGED clock
        /\ Rolled(policy, clock).requestWindow = w
    BY MomentsNat, RolledTyped DEF GuardTypeOK, EngineTypeOK, Evaluate
  <1>2. /\ v = Pushed(r, clock) \/ ~TakesSlot(policy, req, clock)
        /\ TakesSlot(policy, req, clock) \/ v \in {w, r}
    <2>1. EngineTypeOK(policy, Moments) /\ policy' = Evaluated(policy, req, clock)
      BY DEF GuardTypeOK, Evaluate
    <2> QED BY <1>1, <2>1, MomentsNat, EvaluatedFields
  <1>3. ASSUME NEW s \in Moments, clock - s < RateWindow
        PROVE  Held(r, s) = Held(w, s) /\ Held(w, s) \in Nat
    BY <1>1, <1>3 DEF Recent, Restrict, Held
  <1>4. ASSUME NEW s \in Moments
        PROVE  Held(Pushed(r, clock), s) = Held(r, s) + (IF s = clock THEN 1 ELSE 0)
                 \/ Held(r, s) \notin Nat
    BY <1>1 DEF Pushed, Held
  <1>5. slots' = IF TakesSlot(policy, req, clock)
                 THEN [slots EXCEPT ![clock] = @ + 1] ELSE slots
    BY DEF Evaluate
  <1>6. \A s \in Moments : clock - s < RateWindow => slots[s] = Held(w, s)
    BY DEF WindowTracksSlots
  <1> HIDE DEF w, v, r
  <1>7. ASSUME NEW s \in Moments, clock - s < RateWindow
        PROVE  slots'[s] = Held(v, s)
    <2>1. CASE ~TakesSlot(policy, req, clock)
      BY <1>2, <1>3, <1>5, <1>6, <1>7, <2>1
    <2>2. CASE TakesSlot(policy, req, clock)
      <3>1. slots'[s] = slots[s] + (IF s = clock THEN 1 ELSE 0)
        BY <1>1, <1>5, <2>2
      <3> QED BY <1>2, <1>3, <1>4, <1>6, <1>7, <2>2, <3>1
    <2> QED BY <2>1, <2>2
  <1> QED BY <1>1, <1>7 DEF WindowTracksSlots, v

\* The rate limit holds at every step, with what the engine holds of it.
RateInv == WindowTracksSlots /\ RateLimited

\* Every step of the guard keeps the rate limit.
LEMMA RateStep == ASSUME GuardTypeOK, RateInv, [GuardNext]_guardVars PROVE RateInv'
  <1>1. ASSUME UNCHANGED slots, policy'.requestWindow = policy.requestWindow,
               clock' \in Moments, clock <= clock'
        PROVE  RateInv'
    <2>1. clock \in Moments
      BY DEF GuardTypeOK
    <2>2. WindowTracksSlots'
      <3>1. PICK t \in Moments : t = clock'
        BY <1>1
      <3>2. clock <= t /\ clock \in Nat /\ t \in Nat /\ RateWindow \in Nat
        BY <1>1, <2>1, <3>1, MomentsNat, PolicyAssumption
      <3>3. \A s \in Moments : t - s < RateWindow => clock - s < RateWindow
        BY ONLY <3>2, MomentsNat
      <3>4. \A s \in Moments : clock' - s < RateWindow => slots'[s] = Held(policy'.requestWindow, s)
        BY <1>1, <3>1, <3>3 DEF RateInv, WindowTracksSlots
      <3> QED BY <3>4 DEF WindowTracksSlots
    <2>3. RateLimited'
      BY <1>1 DEF RateInv, RateLimited
    <2> QED BY <2>2, <2>3 DEF RateInv
  <1>2. ASSUME NEW c, NEW req, NEW granted, Evaluate(c, req, granted) PROVE RateInv'
    BY <1>2, SlotHeld, SlotGranted DEF RateInv
  <1>3. CASE ClockTicks
    BY <1>1, <1>3, GuardAssumption DEF ClockTicks, GuardTypeOK, Moments
  <1>4. clock \in Moments /\ clock <= clock
    BY GuardAssumption DEF GuardTypeOK, Moments
  <1>5. ASSUME NEW c \in Users, RecordPayment(c) PROVE RateInv'
    <2>1. policy'.requestWindow = policy.requestWindow
      <3>1. work[c].size \in Nat /\ EngineTypeOK(policy, Moments)
        BY DEF GuardTypeOK
      <3> QED BY <1>5, <3>1, MomentsNat, RecordedTyped DEF RecordPayment
    <2> QED BY <1>1, <1>4, <1>5, <2>1 DEF RecordPayment
  <1>6. ASSUME NEW c \in Users, RecordBandwidth(c) PROVE RateInv'
    <2>1. policy'.requestWindow = policy.requestWindow
      <3>1. work[c].size \in Nat /\ EngineTypeOK(policy, Moments)
        BY DEF GuardTypeOK
      <3> QED BY <1>6, <3>1, MomentsNat, RecordedTyped DEF RecordBandwidth
    <2> QED BY <1>1, <1>4, <1>6, <2>1 DEF RecordBandwidth
  <1>7. ASSUME NEW c \in Users, Abandon(c) PROVE RateInv'
    BY <1>1, <1>4, <1>7 DEF Abandon
  <1>8. CASE UNCHANGED guardVars
    BY <1>1, <1>4, <1>8 DEF guardVars
  <1> QED BY <1>2, <1>3, <1>5, <1>6, <1>7, <1>8 DEF GuardNext, Check, CheckBandwidth

\* Nothing has been asked at the start.
LEMMA RateInit == GuardInit => RateInv
  <1> SUFFICES ASSUME GuardInit PROVE RateInv
    OBVIOUS
  <1>1. WindowTracksSlots
    BY DEF GuardInit, WindowTracksSlots, Held, NewEngine
  <1>2. ASSUME NEW s \in Moments PROVE SumFunctionOnSet(slots, Span(s)) <= MaxRequests
    <2>1. IsFiniteSet(Span(s)) /\ Span(s) \subseteq Moments
      BY SpanFinite
    <2>2. \A x \in Span(s) : slots[x] = 0
      BY <2>1 DEF GuardInit
    <2>3. SumFunctionOnSet(slots, Span(s)) = 0
      BY ONLY <2>1, <2>2, SumZero
    <2> QED BY <2>3, PolicyAssumption
  <1> QED BY <1>1, <1>2, RateLimitedSpans DEF RateInv

-------------------------------------------------------------------------------
(* The guard: the counters and the log.  A counter is at most what the log *)
(* holds from the beginning of its window, which is no later than now.     *)

\* The moments from first on that have come.
Since(first) == {s \in Moments : first <= s /\ s <= clock}

Covered(spend, reset, len) ==
    /\ reset <= clock + len
    /\ spend <= SumFunctionOnSet(spendLog, Since(reset - len))

CountersCovered ==
    /\ Covered(policy.hourlySpend, policy.hourReset, HourLen)
    /\ Covered(policy.dailySpend, policy.dayReset, DayLen)

\* What the log holds of any set of moments is a natural number, and more moments hold more.
LEMMA LogSums ==
    ASSUME NEW log \in [Moments -> Nat], NEW S \in SUBSET Moments, NEW W \in SUBSET S
    PROVE  /\ IsFiniteSet(S)
           /\ SumFunctionOnSet(log, S) \in Nat
           /\ SumFunctionOnSet(log, W) <= SumFunctionOnSet(log, S)
  <1>1. IsFiniteSet(S)
    <2>1. IsFiniteSet(Moments)
      BY GuardAssumption, FS_Interval DEF Moments
    <2> QED BY <2>1, FS_Subset
  <1>2. \A x \in S : log[x] \in Nat
    OBVIOUS
  <1> QED BY ONLY <1>1, <1>2, W \in SUBSET S, SumGrows

\* Time adds moments to a window, and a new window begins with nothing spent.
LEMMA CoveredLater ==
    ASSUME GuardTypeOK, NEW len \in Nat, NEW reset \in Nat, NEW spend \in Nat,
           Covered(spend, reset, len), clock' \in Moments, clock <= clock', UNCHANGED spendLog
    PROVE  Covered(spend, reset, len)'
  <1>1. PICK t \in Moments : t = clock'
    OBVIOUS
  <1>2. /\ clock \in Nat /\ t \in Nat /\ clock <= t /\ spendLog \in [Moments -> Nat]
        /\ reset <= clock + len
    BY <1>1, MomentsNat DEF GuardTypeOK, Covered
  <1> DEFINE W == {s \in Moments : reset - len <= s /\ s <= clock}
             S == {s \in Moments : reset - len <= s /\ s <= t}
  <1>3. W \subseteq S /\ S \subseteq Moments
    <2>1. \A s \in Moments : s \in Nat /\ (s <= clock => s <= t)
      BY <1>2, MomentsNat
    <2> QED BY <2>1
  <1> HIDE DEF W, S
  <1>4. /\ SumFunctionOnSet(spendLog, S) \in Nat
        /\ SumFunctionOnSet(spendLog, W) \in Nat
        /\ SumFunctionOnSet(spendLog, W) <= SumFunctionOnSet(spendLog, S)
    BY <1>2, <1>3, LogSums
  <1>5. spend <= SumFunctionOnSet(spendLog, W)
    BY DEF Covered, Since, W
  <1>6. spend <= SumFunctionOnSet(spendLog, S)
    BY ONLY <1>4, <1>5, spend \in Nat
  <1>7. reset <= t + len
    BY ONLY <1>2, reset \in Nat, len \in Nat
  <1> QED BY <1>1, <1>6, <1>7 DEF Covered, Since, S

\* A window that has just begun covers nothing spent.
LEMMA CoveredAnew ==
    ASSUME GuardTypeOK, NEW len \in Nat, NEW reset \in Nat, reset <= clock + len
    PROVE  Covered(0, reset, len)
  <1>1. spendLog \in [Moments -> Nat] /\ Since(reset - len) \subseteq Moments
    BY DEF GuardTypeOK, Since
  <1>2. SumFunctionOnSet(spendLog, Since(reset - len)) \in Nat
    BY <1>1, LogSums
  <1> QED BY <1>2 DEF Covered

\* A payment is added to the counter and to the log.
LEMMA CoveredMore ==
    ASSUME GuardTypeOK, NEW len \in Nat, NEW reset \in Nat, NEW spend \in Nat, NEW a \in Nat,
           Covered(spend, reset, len), UNCHANGED clock, spendLog' = Logged(spendLog, clock, a)
    PROVE  Covered(spend + a, reset, len)'
  <1> DEFINE S == Since(reset - len)
             n == spendLog[clock] + a
             log == [spendLog EXCEPT ![clock] = n]
  <1>1. /\ clock \in Moments /\ clock \in Nat /\ spendLog \in [Moments -> Nat]
        /\ reset <= clock + len /\ spend <= SumFunctionOnSet(spendLog, S)
    BY MomentsNat DEF GuardTypeOK, Covered
  <1>2. spendLog' = log /\ n \in Nat /\ n - spendLog[clock] = a
    BY <1>1 DEF Logged
  <1>3. clock \in S /\ S \subseteq Moments
    BY <1>1 DEF Since
  <1>4. S = Since(reset - len)'
    BY DEF Since
  <1> HIDE DEF n, S
  <1>5. /\ log[clock] = n
        /\ \A x \in S : spendLog[x] \in Int
        /\ \A x \in S : log[x] \in Int
        /\ \A x \in S : x # clock => spendLog[x] = log[x]
    BY <1>1, <1>2, <1>3
  <1>6. IsFiniteSet(S)
    BY <1>1, <1>3, LogSums
  <1> HIDE DEF log
  <1>7. /\ SumFunctionOnSet(spendLog, S) \in Int
        /\ SumFunctionOnSet(log, S) = SumFunctionOnSet(spendLog, S) + (log[clock] - spendLog[clock])
    <2>1. clock \in S
      BY <1>3
    <2>2. \A x \in S : spendLog[x] \in Int
      BY <1>5
    <2>3. \A x \in S : log[x] \in Int
      BY <1>5
    <2>4. \A x \in S : x # clock => spendLog[x] = log[x]
      BY <1>5
    <2>5. SumFunctionOnSet(spendLog, S) \in Int
      BY ONLY <1>6, <2>2, SumInt
    <2>6. SumFunctionOnSet(log, S) = SumFunctionOnSet(spendLog, S) + (log[clock] - spendLog[clock])
      BY ONLY <1>6, <2>1, <2>2, <2>3, <2>4, SumChange
    <2> QED BY <2>5, <2>6
  <1>8. log[clock] - spendLog[clock] = a
    BY <1>2, <1>5
  <1> DEFINE v == SumFunctionOnSet(log, S)
             u == SumFunctionOnSet(spendLog, S)
  <1>9. v = u + a /\ u \in Int /\ spend <= u
    BY <1>1, <1>7, <1>8
  <1> HIDE DEF u, v
  <1>10. spend + a <= v
    BY <1>9
  <1>11. spend + a <= SumFunctionOnSet(spendLog', Since(reset - len)')
    BY <1>2, <1>4, <1>10 DEF v
  <1>12. reset <= clock' + len
    BY <1>1
  <1> QED BY <1>11, <1>12 DEF Covered

\* Every step of the guard keeps its counters covered by the log.
LEMMA CoveredStep == ASSUME GuardTypeOK, CountersCovered, [GuardNext]_guardVars PROVE CountersCovered'
  <1>1. /\ EngineTypeOK(policy, Moments) /\ clock \in Moments /\ clock \in Nat
        /\ HourLen \in Nat /\ DayLen \in Nat
        /\ policy.hourlySpend \in Nat /\ policy.dailySpend \in Nat
        /\ policy.hourReset \in Nat /\ policy.dayReset \in Nat
    BY MomentsNat, AuditAssumption DEF GuardTypeOK, EngineTypeOK
  <1> DEFINE h == policy.hourlySpend
             d == policy.dailySpend
             hr == policy.hourReset
             dr == policy.dayReset
  <1>2. Covered(h, hr, HourLen) /\ Covered(d, dr, DayLen)
    BY DEF CountersCovered
  <1>3. ASSUME UNCHANGED spendLog, clock' \in Moments, clock <= clock',
               policy'.hourlySpend = h, policy'.dailySpend = d,
               policy'.hourReset = hr, policy'.dayReset = dr
        PROVE  CountersCovered'
    <2> HIDE DEF h, d, hr, dr
    <2>1. Covered(h, hr, HourLen)' /\ Covered(d, dr, DayLen)'
      BY <1>1, <1>2, <1>3, CoveredLater DEF h, d, hr, dr
    <2> QED BY <1>3, <2>1 DEF CountersCovered, Covered, h, d, hr, dr
  <1>4. clock \in Moments /\ clock <= clock
    BY <1>1
  <1>5. ASSUME NEW c, NEW req, NEW granted, Evaluate(c, req, granted) PROVE CountersCovered'
    <2> DEFINE q == Rolled(policy, clock)
    <2>1. /\ policy'.hourlySpend = q.hourlySpend /\ policy'.dailySpend = q.dailySpend
          /\ policy'.hourReset = q.hourReset /\ policy'.dayReset = q.dayReset
      BY <1>1, <1>5, MomentsNat, EvaluatedFields DEF Evaluate
    <2>2. /\ \/ q.hourlySpend = h /\ q.hourReset = hr
             \/ q.hourlySpend = 0 /\ q.hourReset = clock + HourLen
          /\ \/ q.dailySpend = d /\ q.dayReset = dr
             \/ q.dailySpend = 0 /\ q.dayReset = clock + DayLen
      BY DEF Rolled
    <2>3. Covered(0, clock + HourLen, HourLen) /\ Covered(0, clock + DayLen, DayLen)
      BY <1>1, CoveredAnew
    <2> HIDE DEF q, h, d, hr, dr
    <2>4. Covered(q.hourlySpend, q.hourReset, HourLen) /\ Covered(q.dailySpend, q.dayReset, DayLen)
      BY <1>2, <2>2, <2>3
    <2>5. UNCHANGED <<clock, spendLog>>
      BY <1>5 DEF Evaluate
    <2> QED BY <2>1, <2>4, <2>5 DEF CountersCovered, Covered, Since
  <1>6. ASSUME NEW c \in Users, RecordPayment(c) PROVE CountersCovered'
    <2> DEFINE a == work[c].size
    <2>1. a \in Nat
      BY DEF GuardTypeOK
    <2>2. /\ policy'.hourlySpend = h + a /\ policy'.dailySpend = d + a
          /\ policy'.hourReset = hr /\ policy'.dayReset = dr
      <3>1. policy' = WithSpend(policy, a)
        BY <1>6 DEF RecordPayment
      <3>2. /\ WithSpend(policy, a).hourlySpend = h + a /\ WithSpend(policy, a).dailySpend = d + a
            /\ WithSpend(policy, a).hourReset = hr /\ WithSpend(policy, a).dayReset = dr
        <4> HIDE DEF a
        <4> QED BY <1>1, <2>1, MomentsNat, RecordedTyped
      <3> HIDE DEF a, h, d, hr, dr
      <3> QED BY <3>1, <3>2
    <2>3. UNCHANGED clock /\ spendLog' = Logged(spendLog, clock, a)
      BY <1>6 DEF RecordPayment
    <2>4. PICK z \in Nat : z = a
      BY <2>1
    <2>5. ASSUME NEW len \in Nat, NEW reset \in Nat, NEW spend \in Nat, Covered(spend, reset, len)
          PROVE  Covered(spend + z, reset, len)'
      BY <2>3, <2>4, <2>5, CoveredMore
    <2>6. PICK x \in Nat, y \in Nat, r \in Nat, v \in Nat : x = h /\ y = d /\ r = hr /\ v = dr
      BY <1>1
    <2>7. Covered(x + z, r, HourLen)' /\ Covered(y + z, v, DayLen)'
      BY <1>1, <1>2, <2>5, <2>6
    <2>8. /\ policy'.hourlySpend = x + z /\ policy'.dailySpend = y + z
          /\ policy'.hourReset = r /\ policy'.dayReset = v
      BY <2>2, <2>4, <2>6
    <2> QED BY <2>7, <2>8 DEF CountersCovered, Covered
  <1>7. ASSUME NEW c \in Users, RecordBandwidth(c) PROVE CountersCovered'
    <2>1. work[c].size \in Nat
      BY DEF GuardTypeOK
    <2>2. /\ policy'.hourlySpend = h /\ policy'.dailySpend = d
          /\ policy'.hourReset = hr /\ policy'.dayReset = dr
      BY <1>1, <1>7, <2>1, MomentsNat, RecordedTyped DEF RecordBandwidth
    <2> QED BY <1>3, <1>4, <1>7, <2>2 DEF RecordBandwidth
  <1>8. ASSUME NEW c \in Users, Abandon(c) PROVE CountersCovered'
    BY <1>3, <1>4, <1>8 DEF Abandon
  <1>9. CASE ClockTicks
    BY <1>1, <1>3, <1>9, GuardAssumption DEF ClockTicks, Moments
  <1>10. CASE UNCHANGED guardVars
    BY <1>3, <1>4, <1>10 DEF guardVars
  <1> QED BY <1>5, <1>6, <1>7, <1>8, <1>9, <1>10 DEF GuardNext, Check, CheckBandwidth

\* The first windows begin with nothing spent.
LEMMA CoveredInit == GuardInit => CountersCovered
  <1> SUFFICES ASSUME GuardInit PROVE CountersCovered
    OBVIOUS
  <1>1. GuardTypeOK
    BY GuardTypedInit
  <1>2. /\ policy.hourlySpend = 0 /\ policy.hourReset = 0 + HourLen
        /\ policy.dailySpend = 0 /\ policy.dayReset = 0 + DayLen
        /\ clock = 0 /\ HourLen \in Nat /\ DayLen \in Nat
    BY AuditAssumption DEF GuardInit, NewEngine
  <1>3. Covered(0, 0 + HourLen, HourLen) /\ Covered(0, 0 + DayLen, DayLen)
    BY <1>1, <1>2, CoveredAnew
  <1> QED BY <1>2, <1>3 DEF CountersCovered

\* The part of the invariant about the log is what the summary promises.
LEMMA CoveredMeansSummary ==
    ASSUME GuardTypeOK, CountersCovered PROVE SummaryCoversWindow
  <1>1. ASSUME NEW len \in Nat, NEW reset \in Nat, NEW spend \in Nat,
               Covered(spend, reset, len), clock <= reset
        PROVE  spend <= SpentSince(spendLog, clock, len)
    <2> DEFINE W == Since(reset - len)
               S == {s \in Moments : clock - len <= s /\ s <= clock}
    <2>1. clock \in Nat /\ spendLog \in [Moments -> Nat] /\ DOMAIN spendLog = Moments
      BY MomentsNat DEF GuardTypeOK
    <2>2. W \subseteq S /\ S \subseteq Moments
      <3>1. \A s \in Moments : s \in Nat /\ (reset - len <= s => clock - len <= s)
        BY <1>1, <2>1, MomentsNat
      <3> QED BY <3>1 DEF Since
    <2>3. SpentSince(spendLog, clock, len) = SumFunctionOnSet(spendLog, S)
      BY <2>1 DEF SpentSince
    <2>4. spend <= SumFunctionOnSet(spendLog, W)
      BY <1>1 DEF Covered
    <2> HIDE DEF W, S
    <2>5. /\ SumFunctionOnSet(spendLog, S) \in Nat /\ SumFunctionOnSet(spendLog, W) \in Nat
          /\ SumFunctionOnSet(spendLog, W) <= SumFunctionOnSet(spendLog, S)
      BY <2>1, <2>2, LogSums
    <2>6. spend <= SumFunctionOnSet(spendLog, S)
      BY ONLY <2>4, <2>5, spend \in Nat
    <2> QED BY <2>3, <2>6
  <1>2. /\ HourLen \in Nat /\ DayLen \in Nat
        /\ policy.hourlySpend \in Nat /\ policy.dailySpend \in Nat
        /\ policy.hourReset \in Nat /\ policy.dayReset \in Nat
    BY AuditAssumption DEF GuardTypeOK, EngineTypeOK
  <1> QED BY <1>1, <1>2 DEF CountersCovered, SummaryCoversWindow

-------------------------------------------------------------------------------
(* The guard: the overshoot.  A counter and everything that was allowed    *)
(* and is not yet recorded are within the cap and one maximal request for  *)
(* every other user.  A request is allowed only where the counter and the  *)
(* request itself are within the cap, so that only the others can be above *)
(* it; recording moves its size from one side of the sum to the other.     *)

\* What user c was allowed to do and has not recorded, in requests of one kind.
Promised(kind) == [c \in Users |-> IF work[c].kind = kind THEN work[c].size ELSE 0]

\* Two counters of one kind, their caps, and requests f of at most m under way.
Fits(f, hour, day, maxHour, maxDay, m) ==
    /\ \A c \in Users : f[c] <= m
    /\ hour + SumFunctionOnSet(f, Users) <= maxHour + Others * m
    /\ day + SumFunctionOnSet(f, Users) <= maxDay + Others * m

PaymentsFit ==
    Fits(Promised("payment"), policy.hourlySpend, policy.dailySpend,
         MaxPerHour, MaxPerDay, MaxPerTransaction)

BytesFit ==
    \E b \in ByteCounts \cup {0} :
        Fits(Promised("bandwidth"), policy.hourlyBytes, policy.dailyBytes,
             MaxBytesPerHour, MaxBytesPerDay, b)

\* There is at least one user, and there are finitely many.
LEMMA UsersCounted ==
    /\ IsFiniteSet(Users) /\ Cardinality(Users) \in Nat \ {0}
    /\ Others \in Nat /\ \A c \in Users : Cardinality(Users \ {c}) = Others
  <1>1. IsFiniteSet(Users) /\ Cardinality(Users) \in Nat
    BY GuardAssumption, FS_CardinalityType
  <1>2. \A c \in Users : Cardinality(Users \ {c}) = Cardinality(Users) - 1
    BY <1>1, FS_RemoveElement
  <1>3. Cardinality(Users) # 0
    BY <1>1, GuardAssumption, FS_EmptySet
  <1> QED BY <1>1, <1>2, <1>3 DEF Others

\* The promises of a user who keeps none any more leave the sum.
LEMMA PromiseLeaves ==
    ASSUME NEW f \in [Users -> Nat], NEW g \in [Users -> Nat], NEW c \in Users,
           g[c] = 0, \A x \in Users : x # c => f[x] = g[x]
    PROVE  /\ SumFunctionOnSet(f, Users) \in Nat /\ SumFunctionOnSet(g, Users) \in Nat
           /\ SumFunctionOnSet(g, Users) + f[c] = SumFunctionOnSet(f, Users)
  <1>1. /\ \A x \in Users : f[x] \in Nat
        /\ \A x \in Users : g[x] \in Nat
        /\ IsFiniteSet(Users)
    BY UsersCounted
  <1>2. SumFunctionOnSet(f, Users) \in Nat /\ SumFunctionOnSet(g, Users) \in Nat
    BY ONLY <1>1, SumGrows
  <1>3. /\ \A x \in Users : f[x] \in Int
        /\ \A x \in Users : g[x] \in Int
    BY <1>1
  <1>4. SumFunctionOnSet(g, Users) = SumFunctionOnSet(f, Users) + (g[c] - f[c])
    BY ONLY <1>1, <1>3, c \in Users, \A x \in Users : x # c => f[x] = g[x], SumChange
  <1>5. f[c] \in Nat /\ g[c] = 0
    BY <1>1
  <1> QED BY ONLY <1>2, <1>4, <1>5

\* Counters that fit still do when they are reset or recorded into by a user whose
\* promise is gone with it.
LEMMA FitsReleased ==
    ASSUME NEW f \in [Users -> Nat], NEW g \in [Users -> Nat], NEW c \in Users,
           g[c] = 0, \A x \in Users : x # c => f[x] = g[x],
           NEW hour \in Nat, NEW day \in Nat, NEW maxHour \in Nat, NEW maxDay \in Nat, NEW m \in Nat,
           Fits(f, hour, day, maxHour, maxDay, m), NEW h \in Nat, NEW d \in Nat,
           h = 0 \/ h = hour \/ h = hour + f[c], d = 0 \/ d = day \/ d = day + f[c]
    PROVE  Fits(g, h, d, maxHour, maxDay, m)
  <1> DEFINE F == SumFunctionOnSet(f, Users)
             G == SumFunctionOnSet(g, Users)
             roomH == maxHour + Others * m
             roomD == maxDay + Others * m
  <1>1. F \in Nat /\ G \in Nat /\ G + f[c] = F /\ f[c] \in Nat
    BY PromiseLeaves
  <1>2. hour + F <= roomH /\ day + F <= roomD /\ roomH \in Nat /\ roomD \in Nat
    <2>1. Others * m \in Nat
      BY UsersCounted
    <2> QED BY <2>1 DEF Fits
  <1>3. \A x \in Users : g[x] <= m
    BY DEF Fits
  <1> HIDE DEF F, G, roomH, roomD
  <1>4. h + G <= roomH
    BY <1>1, <1>2
  <1>5. d + G <= roomD
    BY <1>1, <1>2
  <1> QED BY <1>3, <1>4, <1>5 DEF Fits, G, roomH, roomD

\* Counters that fit still do when they are reset.
LEMMA FitsReset ==
    ASSUME NEW f \in [Users -> Nat],
           NEW hour \in Nat, NEW day \in Nat, NEW maxHour \in Nat, NEW maxDay \in Nat, NEW m \in Nat,
           Fits(f, hour, day, maxHour, maxDay, m), NEW h \in Nat, NEW d \in Nat,
           h = 0 \/ h = hour, d = 0 \/ d = day
    PROVE  Fits(f, h, d, maxHour, maxDay, m)
  <1> DEFINE F == SumFunctionOnSet(f, Users)
             roomH == maxHour + Others * m
             roomD == maxDay + Others * m
  <1>1. F \in Nat
    <2>1. \A x \in Users : f[x] \in Nat
      OBVIOUS
    <2>2. IsFiniteSet(Users)
      BY UsersCounted
    <2> QED BY ONLY <2>1, <2>2, SumGrows
  <1>2. hour + F <= roomH /\ day + F <= roomD /\ roomH \in Nat /\ roomD \in Nat
    <2>1. Others * m \in Nat
      BY UsersCounted
    <2> QED BY <2>1 DEF Fits
  <1> HIDE DEF F, roomH, roomD
  <1>3. h + F <= roomH /\ d + F <= roomD
    BY <1>1, <1>2
  <1> QED BY <1>3 DEF Fits, F, roomH, roomD

\* A request that the counters have room for fits beside whatever the others do.
LEMMA FitsAdmitted ==
    ASSUME NEW g \in [Users -> Nat], NEW c \in Users, NEW m \in Nat, \A x \in Users : g[x] <= m,
           NEW hour \in Nat, NEW day \in Nat, NEW maxHour \in Nat, NEW maxDay \in Nat,
           hour + g[c] <= maxHour, day + g[c] <= maxDay
    PROVE  Fits(g, hour, day, maxHour, maxDay, m)
  <1> DEFINE G == SumFunctionOnSet(g, Users)
             R == SumFunctionOnSet(g, Users \ {c})
             room == Others * m
  <1>1. /\ IsFiniteSet(Users) /\ IsFiniteSet(Users \ {c}) /\ room \in Nat
        /\ Cardinality(Users \ {c}) = Others
    BY UsersCounted, FS_Subset
  <1>2. G = g[c] + R
    <2>1. \A x \in Users : g[x] \in Int
      OBVIOUS
    <2> QED BY ONLY <1>1, <2>1, c \in Users, SumSplit
  <1>3. R \in Nat /\ R <= Cardinality(Users \ {c}) * m
    <2>1. \A x \in Users \ {c} : g[x] \in Nat /\ g[x] <= m
      OBVIOUS
    <2> QED BY ONLY <1>1, <2>1, m \in Nat, SumAtMost
  <1>4. R <= room /\ g[c] \in Nat
    BY <1>1, <1>3
  <1> HIDE DEF G, R, room
  <1>5. hour + G <= maxHour + room /\ day + G <= maxDay + room
    BY <1>1, <1>2, <1>3, <1>4
  <1> QED BY <1>5 DEF Fits, G, room

\* What users have promised is a number for each of them.
LEMMA PromisedTyped == ASSUME GuardTypeOK, NEW k PROVE Promised(k) \in [Users -> Nat]
  BY DEF GuardTypeOK, Promised

\* A user without work has promised nothing; one whose work is over has not either.
LEMMA PromisedAfter ==
    ASSUME GuardTypeOK, NEW c \in Users, NEW k \in {"payment", "bandwidth"}
    PROVE  /\ work[c] = NoWork => Promised(k)[c] = 0
           /\ work' = [work EXCEPT ![c] = NoWork] =>
                 /\ Promised(k)'[c] = 0
                 /\ \A x \in Users : x # c => Promised(k)[x] = Promised(k)'[x]
           /\ \A granted : work' = [work EXCEPT ![c] = granted] =>
                 /\ Promised(k)'[c] = IF granted.kind = k THEN granted.size ELSE 0
                 /\ \A x \in Users : x # c => Promised(k)[x] = Promised(k)'[x]
  BY DEF GuardTypeOK, Promised, NoWork

\* The counters and caps of an engine are numbers.
LEMMA CountersNat ==
    ASSUME GuardTypeOK
    PROVE  /\ EngineTypeOK(policy, Moments) /\ clock \in Moments
           /\ policy.hourlySpend \in Nat /\ policy.dailySpend \in Nat
           /\ policy.hourlyBytes \in Nat /\ policy.dailyBytes \in Nat
           /\ MaxPerHour \in Nat /\ MaxPerDay \in Nat /\ MaxPerTransaction \in Nat
           /\ MaxBytesPerHour \in Nat /\ MaxBytesPerDay \in Nat
           /\ ByteCounts \cup {0} \subseteq Nat
  BY PolicyAssumption, GuardAssumption DEF GuardTypeOK, EngineTypeOK

\* What a check leaves in the counters: nothing, or what was there.
LEMMA EvaluateCounters ==
    ASSUME GuardTypeOK, NEW c, NEW req, NEW granted, Evaluate(c, req, granted)
    PROVE  /\ policy'.hourlySpend \in {0, policy.hourlySpend}
           /\ policy'.dailySpend \in {0, policy.dailySpend}
           /\ policy'.hourlyBytes \in {0, policy.hourlyBytes}
           /\ policy'.dailyBytes \in {0, policy.dailyBytes}
           /\ work' # work =>
                 /\ work' = [work EXCEPT ![c] = granted]
                 /\ req.amount <= MaxPerTransaction
                 /\ policy'.hourlySpend + req.amount <= MaxPerHour
                 /\ policy'.dailySpend + req.amount <= MaxPerDay
                 /\ policy'.hourlyBytes + req.bytes <= MaxBytesPerHour
                 /\ policy'.dailyBytes + req.bytes <= MaxBytesPerDay
  <1> DEFINE q == Rolled(policy, clock)
  <1>1. /\ policy'.hourlySpend = q.hourlySpend /\ policy'.dailySpend = q.dailySpend
        /\ policy'.hourlyBytes = q.hourlyBytes /\ policy'.dailyBytes = q.dailyBytes
    <2>1. EngineTypeOK(policy, Moments) /\ clock \in Moments
      BY CountersNat
    <2>2. policy' = Evaluated(policy, req, clock)
      BY DEF Evaluate
    <2> QED BY <2>1, <2>2, MomentsNat, EvaluatedFields
  <1>2. /\ q.hourlySpend \in {0, policy.hourlySpend} /\ q.dailySpend \in {0, policy.dailySpend}
        /\ q.hourlyBytes \in {0, policy.hourlyBytes} /\ q.dailyBytes \in {0, policy.dailyBytes}
    BY DEF Rolled
  <1>3. work' # work =>
          /\ work' = [work EXCEPT ![c] = granted]
          /\ SpendingAllows(q, req.amount) /\ BandwidthAllows(q, req.bytes)
    BY DEF Evaluate, Allows
  <1> HIDE DEF q
  <1> QED BY <1>1, <1>2, <1>3 DEF SpendingAllows, BandwidthAllows

\* A check of a payment, or of bytes, leaves room for what it allows.
LEMMA EvaluateFits ==
    ASSUME GuardTypeOK, PaymentsFit, BytesFit, NEW c \in Users, NEW req, NEW a \in Nat,
           NEW k \in {"payment", "bandwidth"},
           IF k = "payment" THEN req.amount = a ELSE req.bytes = a /\ a \in ByteCounts,
           Evaluate(c, req, [kind |-> k, size |-> a])
    PROVE  PaymentsFit' /\ BytesFit'
  <1>1. PICK h \in Nat, d \in Nat, hb \in Nat, db \in Nat :
           /\ h = policy'.hourlySpend /\ d = policy'.dailySpend
           /\ hb = policy'.hourlyBytes /\ db = policy'.dailyBytes
    BY CountersNat, EvaluateCounters
  <1>2. /\ h \in {0, policy.hourlySpend} /\ d \in {0, policy.dailySpend}
        /\ hb \in {0, policy.hourlyBytes} /\ db \in {0, policy.dailyBytes}
    BY <1>1, EvaluateCounters
  <1>3. work[c] = NoWork
    BY DEF Evaluate
  <1>4. GuardTypeOK'
    <2>1. [kind |-> k, size |-> a] \in [kind : {"idle", "payment", "bandwidth"}, size : Nat]
      OBVIOUS
    <2> QED BY <2>1, EvaluateTyped
  <1>5. Promised("payment")' \in [Users -> Nat] /\ Promised("bandwidth")' \in [Users -> Nat]
    BY <1>4 DEF GuardTypeOK, Promised
  <1>6. PICK p \in [Users -> Nat], b \in [Users -> Nat] :
           p = Promised("payment")' /\ b = Promised("bandwidth")'
    BY <1>5
  <1>7. PICK u \in [Users -> Nat], v \in [Users -> Nat] :
           u = Promised("payment") /\ v = Promised("bandwidth")
    BY PromisedTyped
  <1>8. PICK m \in ByteCounts \cup {0} :
           Fits(v, policy.hourlyBytes, policy.dailyBytes, MaxBytesPerHour, MaxBytesPerDay, m)
    BY <1>7 DEF BytesFit
  <1>9. Fits(u, policy.hourlySpend, policy.dailySpend, MaxPerHour, MaxPerDay, MaxPerTransaction)
    BY <1>7 DEF PaymentsFit
  <1>10. /\ policy.hourlySpend \in Nat /\ policy.dailySpend \in Nat
        /\ policy.hourlyBytes \in Nat /\ policy.dailyBytes \in Nat
        /\ MaxPerHour \in Nat /\ MaxPerDay \in Nat /\ MaxPerTransaction \in Nat
        /\ MaxBytesPerHour \in Nat /\ MaxBytesPerDay \in Nat /\ m \in Nat
    BY CountersNat
  <1>11. Fits(u, h, d, MaxPerHour, MaxPerDay, MaxPerTransaction)
    BY ONLY <1>2, <1>9, <1>10, FitsReset
  <1>12. m \in Nat /\ Fits(v, hb, db, MaxBytesPerHour, MaxBytesPerDay, m)
    BY ONLY <1>2, <1>8, <1>10, FitsReset
  <1>13. SUFFICES /\ Fits(p, h, d, MaxPerHour, MaxPerDay, MaxPerTransaction)
                  /\ \E n \in ByteCounts \cup {0} :
                        Fits(b, hb, db, MaxBytesPerHour, MaxBytesPerDay, n)
    BY <1>1, <1>6, Zenon DEF PaymentsFit, BytesFit, Fits
  <1>14. CASE work' = work
    <2>1. p = u /\ b = v
      BY <1>6, <1>7, <1>14 DEF Promised
    <2> QED BY <1>11, <1>12, <2>1
  <1>15. CASE work' # work
    <2>1. /\ u[c] = 0 /\ v[c] = 0
          /\ p[c] = IF k = "payment" THEN a ELSE 0
          /\ b[c] = IF k = "bandwidth" THEN a ELSE 0
          /\ \A x \in Users : x # c => u[x] = p[x]
          /\ \A x \in Users : x # c => v[x] = b[x]
      <3>1. work' = [work EXCEPT ![c] = [kind |-> k, size |-> a]]
        BY <1>15, EvaluateCounters
      <3>2. ASSUME NEW j \in {"payment", "bandwidth"}
            PROVE  /\ Promised(j)[c] = 0
                   /\ Promised(j)'[c] = IF k = j THEN a ELSE 0
                   /\ \A x \in Users : x # c => Promised(j)[x] = Promised(j)'[x]
        <4> DEFINE granted == [kind |-> k, size |-> a]
        <4>1. granted.kind = k /\ granted.size = a
          OBVIOUS
        <4> HIDE DEF granted
        <4>2. work' = [work EXCEPT ![c] = granted]
          BY <3>1 DEF granted
        <4>3. /\ Promised(j)'[c] = IF granted.kind = j THEN granted.size ELSE 0
              /\ \A x \in Users : x # c => Promised(j)[x] = Promised(j)'[x]
          BY <4>2, PromisedAfter
        <4>4. Promised(j)[c] = 0
          BY <1>3, PromisedAfter
        <4> QED BY <4>1, <4>3, <4>4
      <3> QED BY <1>6, <1>7, <3>2
    <2>2. CASE k = "payment"
      <3>1. /\ req.amount = a /\ p[c] = a /\ b[c] = 0 /\ a <= MaxPerTransaction
            /\ h + a <= MaxPerHour /\ d + a <= MaxPerDay
        BY <1>1, <1>15, <2>1, <2>2, EvaluateCounters
      <3>2. \A x \in Users : p[x] <= MaxPerTransaction
        BY <1>9, <2>1, <3>1 DEF Fits
      <3>3. Fits(p, h, d, MaxPerHour, MaxPerDay, MaxPerTransaction)
        BY <3>1, <3>2, CountersNat, FitsAdmitted
      <3>4. Fits(b, hb, db, MaxBytesPerHour, MaxBytesPerDay, m)
        BY <1>12, <2>1, <3>1, CountersNat, FitsReleased
      <3> QED BY <3>3, <3>4
    <2>3. CASE k = "bandwidth"
      <3>1. /\ req.bytes = a /\ a \in ByteCounts /\ p[c] = 0 /\ b[c] = a
            /\ hb + a <= MaxBytesPerHour /\ db + a <= MaxBytesPerDay
        BY <1>1, <1>15, <2>1, <2>3, EvaluateCounters
      <3>2. Fits(p, h, d, MaxPerHour, MaxPerDay, MaxPerTransaction)
        BY <1>11, <2>1, <3>1, CountersNat, FitsReleased
      <3>3. PICK n \in ByteCounts \cup {0} : n \in Nat /\ a <= n /\ m <= n
        BY <1>12, <3>1
      <3>4. \A x \in Users : b[x] <= n
        <4>1. \A x \in Users : v[x] <= m /\ v[x] \in Nat
          BY <1>8 DEF Fits
        <4> QED BY <1>12, <2>1, <3>1, <3>3, <4>1
      <3>5. Fits(b, hb, db, MaxBytesPerHour, MaxBytesPerDay, n)
        BY <3>1, <3>3, <3>4, CountersNat, FitsAdmitted
      <3> QED BY <3>2, <3>5
    <2> QED BY <2>2, <2>3
  <1> QED BY <1>14, <1>15

\* Work that is over, recorded or not, makes as much room as it takes.
LEMMA ReleaseFits ==
    ASSUME GuardTypeOK, PaymentsFit, BytesFit, NEW c \in Users, GuardTypeOK',
           work' = [work EXCEPT ![c] = NoWork],
           policy'.hourlySpend \in {policy.hourlySpend, policy.hourlySpend + Promised("payment")[c]},
           policy'.dailySpend \in {policy.dailySpend, policy.dailySpend + Promised("payment")[c]},
           policy'.hourlyBytes \in {policy.hourlyBytes, policy.hourlyBytes + Promised("bandwidth")[c]},
           policy'.dailyBytes \in {policy.dailyBytes, policy.dailyBytes + Promised("bandwidth")[c]}
    PROVE  PaymentsFit' /\ BytesFit'
  <1>1. PICK h \in Nat, d \in Nat, hb \in Nat, db \in Nat :
           /\ h = policy'.hourlySpend /\ d = policy'.dailySpend
           /\ hb = policy'.hourlyBytes /\ db = policy'.dailyBytes
    BY DEF GuardTypeOK, EngineTypeOK
  <1>2. Promised("payment")' \in [Users -> Nat] /\ Promised("bandwidth")' \in [Users -> Nat]
    BY DEF GuardTypeOK, Promised
  <1>3. PICK p \in [Users -> Nat], b \in [Users -> Nat] :
           p = Promised("payment")' /\ b = Promised("bandwidth")'
    BY <1>2
  <1>4. PICK u \in [Users -> Nat], v \in [Users -> Nat] :
           u = Promised("payment") /\ v = Promised("bandwidth")
    BY PromisedTyped
  <1>5. PICK m \in ByteCounts \cup {0} :
           Fits(v, policy.hourlyBytes, policy.dailyBytes, MaxBytesPerHour, MaxBytesPerDay, m)
    BY <1>4 DEF BytesFit
  <1>6. Fits(u, policy.hourlySpend, policy.dailySpend, MaxPerHour, MaxPerDay, MaxPerTransaction)
    BY <1>4 DEF PaymentsFit
  <1>7. SUFFICES /\ Fits(p, h, d, MaxPerHour, MaxPerDay, MaxPerTransaction)
                 /\ Fits(b, hb, db, MaxBytesPerHour, MaxBytesPerDay, m)
    BY <1>1, <1>3, Zenon DEF PaymentsFit, BytesFit, Fits
  <1>8. /\ p[c] = 0 /\ b[c] = 0
        /\ \A x \in Users : x # c => u[x] = p[x]
        /\ \A x \in Users : x # c => v[x] = b[x]
    BY <1>3, <1>4, PromisedAfter
  <1>9. PICK h0 \in Nat, d0 \in Nat, hb0 \in Nat, db0 \in Nat :
           /\ h0 = policy.hourlySpend /\ d0 = policy.dailySpend
           /\ hb0 = policy.hourlyBytes /\ db0 = policy.dailyBytes
    BY CountersNat
  <1>10. policy.hourlySpend \in Nat /\ policy.dailySpend \in Nat /\ MaxPerHour \in Nat
         /\ MaxPerDay \in Nat /\ MaxPerTransaction \in Nat /\ MaxBytesPerHour \in Nat
         /\ MaxBytesPerDay \in Nat /\ m \in Nat
    BY CountersNat
  <1>11. /\ Fits(u, h0, d0, MaxPerHour, MaxPerDay, MaxPerTransaction)
         /\ Fits(v, hb0, db0, MaxBytesPerHour, MaxBytesPerDay, m)
    BY <1>9, <1>5, <1>6
  <1>12. (h = h0 \/ h = h0 + u[c]) /\ (d = d0 \/ d = d0 + u[c])
    BY <1>1, <1>9, <1>4
  <1>13. (hb = hb0 \/ hb = hb0 + v[c]) /\ (db = db0 \/ db = db0 + v[c])
    BY <1>1, <1>9, <1>4
  <1>14. Fits(p, h, d, MaxPerHour, MaxPerDay, MaxPerTransaction)
    <2>1. p[c] = 0
      BY <1>8
    <2>2. \A x \in Users : x # c => u[x] = p[x]
      BY <1>8
    <2>3. h = 0 \/ h = h0 \/ h = h0 + u[c]
      BY <1>12
    <2>4. d = 0 \/ d = d0 \/ d = d0 + u[c]
      BY <1>12
    <2>5. Fits(u, h0, d0, MaxPerHour, MaxPerDay, MaxPerTransaction)
      BY <1>11
    <2>6. MaxPerHour \in Nat /\ MaxPerDay \in Nat /\ MaxPerTransaction \in Nat
      BY <1>10
    <2> QED BY ONLY c \in Users, <2>1, <2>2, <2>3, <2>4, <2>5, <2>6, FitsReleased
  <1>15. Fits(b, hb, db, MaxBytesPerHour, MaxBytesPerDay, m)
    <2>1. b[c] = 0
      BY <1>8
    <2>2. \A x \in Users : x # c => v[x] = b[x]
      BY <1>8
    <2>3. hb = 0 \/ hb = hb0 \/ hb = hb0 + v[c]
      BY <1>13
    <2>4. db = 0 \/ db = db0 \/ db = db0 + v[c]
      BY <1>13
    <2>5. Fits(v, hb0, db0, MaxBytesPerHour, MaxBytesPerDay, m)
      BY <1>11
    <2>6. MaxBytesPerHour \in Nat /\ MaxBytesPerDay \in Nat /\ m \in Nat
      BY <1>10
    <2> QED BY ONLY c \in Users, <2>1, <2>2, <2>3, <2>4, <2>5, <2>6, FitsReleased
  <1> QED BY <1>14, <1>15

\* Every step of the guard keeps the room.
LEMMA FitsStep ==
    ASSUME GuardTypeOK, PaymentsFit, BytesFit, [GuardNext]_guardVars PROVE PaymentsFit' /\ BytesFit'
  <1>1. GuardTypeOK'
    BY GuardTypedStep
  <1>2. ASSUME UNCHANGED <<policy, work>> PROVE PaymentsFit' /\ BytesFit'
    BY <1>2, Zenon DEF PaymentsFit, BytesFit, Fits, Promised
  <1>3. ASSUME NEW c \in Users, NEW amount \in Prices, NEW r, Check(c, amount, r)
        PROVE  PaymentsFit' /\ BytesFit'
    <2> DEFINE req == [amount |-> amount, bytes |-> 0, recipient |-> r, regionOk |-> TRUE]
    <2>1. amount \in Nat /\ req.amount = amount
      BY GuardAssumption
    <2>2. Evaluate(c, req, [kind |-> "payment", size |-> amount])
      BY <1>3 DEF Check
    <2> HIDE DEF req
    <2> QED BY <2>1, <2>2, EvaluateFits
  <1>4. ASSUME NEW c \in Users, NEW bytes \in ByteCounts, NEW region, NEW ipType,
               CheckBandwidth(c, bytes, region, ipType)
        PROVE  PaymentsFit' /\ BytesFit'
    <2> DEFINE req == [amount |-> 0, bytes |-> bytes, recipient |-> NoRecipient,
                       regionOk |-> RegionAllows(region, ipType)]
    <2>1. bytes \in Nat /\ req.bytes = bytes
      BY GuardAssumption
    <2>2. Evaluate(c, req, [kind |-> "bandwidth", size |-> bytes])
      BY <1>4 DEF CheckBandwidth
    <2> HIDE DEF req
    <2> QED BY <2>1, <2>2, EvaluateFits
  <1>5. ASSUME NEW c \in Users, RecordPayment(c) PROVE PaymentsFit' /\ BytesFit'
    <2> DEFINE a == work[c].size
    <2>1. a \in Nat /\ Promised("payment")[c] = a
      BY <1>5 DEF GuardTypeOK, RecordPayment, Promised
    <2>2. policy' = WithSpend(policy, a)
      BY <1>5 DEF RecordPayment
    <2> HIDE DEF a
    <2>3. /\ policy'.hourlySpend = policy.hourlySpend + a /\ policy'.dailySpend = policy.dailySpend + a
          /\ policy'.hourlyBytes = policy.hourlyBytes /\ policy'.dailyBytes = policy.dailyBytes
      <3>1. EngineTypeOK(policy, Moments) /\ a \in Nat
        BY <2>1, CountersNat
      <3> QED BY <2>2, <3>1, MomentsNat, RecordedTyped
    <2> QED BY <1>1, <1>5, <2>1, <2>3, ReleaseFits DEF RecordPayment
  <1>6. ASSUME NEW c \in Users, RecordBandwidth(c) PROVE PaymentsFit' /\ BytesFit'
    <2> DEFINE a == work[c].size
    <2>1. a \in Nat /\ Promised("bandwidth")[c] = a
      BY <1>6 DEF GuardTypeOK, RecordBandwidth, Promised
    <2>2. policy' = WithBytes(policy, a)
      BY <1>6 DEF RecordBandwidth
    <2> HIDE DEF a
    <2>3. /\ policy'.hourlyBytes = policy.hourlyBytes + a /\ policy'.dailyBytes = policy.dailyBytes + a
          /\ policy'.hourlySpend = policy.hourlySpend /\ policy'.dailySpend = policy.dailySpend
      <3>1. EngineTypeOK(policy, Moments) /\ a \in Nat
        BY <2>1, CountersNat
      <3> QED BY <2>2, <3>1, MomentsNat, RecordedTyped
    <2> QED BY <1>1, <1>6, <2>1, <2>3, ReleaseFits DEF RecordBandwidth
  <1>7. ASSUME NEW c \in Users, Abandon(c) PROVE PaymentsFit' /\ BytesFit'
    BY <1>1, <1>7, ReleaseFits DEF Abandon
  <1>8. CASE ClockTicks
    BY <1>2, <1>8 DEF ClockTicks
  <1>9. CASE UNCHANGED guardVars
    BY <1>2, <1>9 DEF guardVars
  <1> QED BY <1>3, <1>4, <1>5, <1>6, <1>7, <1>8, <1>9 DEF GuardNext

\* Nothing has been promised at the start.
LEMMA FitsInit == GuardInit => PaymentsFit /\ BytesFit
  <1> SUFFICES ASSUME GuardInit PROVE PaymentsFit /\ BytesFit
    OBVIOUS
  <1>1. /\ policy.hourlySpend = 0 /\ policy.dailySpend = 0
        /\ policy.hourlyBytes = 0 /\ policy.dailyBytes = 0
    BY DEF GuardInit, NewEngine
  <1>2. ASSUME NEW k \in {"payment", "bandwidth"}, NEW maxHour \in Nat, NEW maxDay \in Nat, NEW m \in Nat
        PROVE  Fits(Promised(k), 0, 0, maxHour, maxDay, m)
    <2> DEFINE f == Promised(k)
    <2>1. \A x \in Users : f[x] = 0
      BY DEF GuardInit, Promised, NoWork
    <2> HIDE DEF f
    <2>2. SumFunctionOnSet(f, Users) = 0
      BY <2>1, UsersCounted, SumZero
    <2>3. Others * m \in Nat
      BY UsersCounted
    <2> QED BY <2>1, <2>2, <2>3 DEF Fits, f
  <1>3. GuardTypeOK
    BY GuardTypedInit
  <1>4. PaymentsFit
    BY <1>1, <1>2, <1>3, CountersNat DEF PaymentsFit
  <1>5. Fits(Promised("bandwidth"), 0, 0, MaxBytesPerHour, MaxBytesPerDay, 0)
    BY <1>2, <1>3, CountersNat
  <1>6. BytesFit
    BY <1>1, <1>5 DEF BytesFit
  <1> QED BY <1>4, <1>6

\* The room is what bounds the overshoot.
LEMMA FitsBounds == ASSUME GuardTypeOK, PaymentsFit, BytesFit PROVE GuardOvershootBounded
  <1>1. ASSUME NEW f \in [Users -> Nat], NEW hour \in Nat, NEW day \in Nat,
               NEW maxHour \in Nat, NEW maxDay \in Nat, NEW m \in Nat,
               Fits(f, hour, day, maxHour, maxDay, m)
        PROVE  hour <= maxHour + Others * m /\ day <= maxDay + Others * m
    <2> DEFINE F == SumFunctionOnSet(f, Users)
               room == Others * m
    <2>1. F \in Nat /\ room \in Nat
      <3>1. \A x \in Users : f[x] \in Nat
        OBVIOUS
      <3>2. IsFiniteSet(Users) /\ Others \in Nat
        BY UsersCounted
      <3>3. SumFunctionOnSet(f, Users) \in Nat
        BY ONLY <3>1, <3>2, SumGrows
      <3> QED BY <3>2, <3>3
    <2>2. hour + F <= maxHour + room /\ day + F <= maxDay + room
      BY <1>1 DEF Fits
    <2> HIDE DEF F, room
    <2>3. hour <= maxHour + room /\ day <= maxDay + room
      BY <2>1, <2>2
    <2> QED BY <2>3 DEF room
  <1>2. PICK m \in ByteCounts \cup {0} :
           Fits(Promised("bandwidth"), policy.hourlyBytes, policy.dailyBytes,
                MaxBytesPerHour, MaxBytesPerDay, m)
    BY DEF BytesFit
  <1>3. /\ policy.hourlyBytes <= MaxBytesPerHour + Others * m
        /\ policy.dailyBytes <= MaxBytesPerDay + Others * m
    BY <1>1, <1>2, CountersNat, PromisedTyped
  <1>4. /\ policy.hourlySpend <= MaxPerHour + Others * MaxPerTransaction
        /\ policy.dailySpend <= MaxPerDay + Others * MaxPerTransaction
    BY <1>1, CountersNat, PromisedTyped DEF PaymentsFit
  <1> QED BY <1>3, <1>4 DEF GuardOvershootBounded

-------------------------------------------------------------------------------
(* The configuration.  What was answered is what the rules answer to the   *)
(* request and the total it met; how these rules compare with the limits   *)
(* that were given is then a matter of one request.                        *)

Kinds == {"payment", "bandwidth"}

AnsweredByRules ==
    /\ config \in [SpendingLimits \cup BandwidthLimits -> Figures \cup {Unset}]
    /\ totals \in [Kinds -> Nat]
    /\ \A r \in answered :
        /\ r.kind \in Kinds /\ r.size \in Nat /\ r.total \in Nat
        /\ r.total + r.size <= MaxTotal
        /\ r.allowed <=> ConfiguredAllows(config, r.kind, r.total, r.size)

\* At the start nothing is answered.
LEMMA AnsweredInit == ConfigInit => AnsweredByRules
  BY DEF ConfigInit, AnsweredByRules, Kinds

\* Every answer comes from the rules, and the rules do not change.
LEMMA AnsweredStep ==
    ASSUME AnsweredByRules, [ConfigNext]_configVars PROVE AnsweredByRules'
  <1>1. ASSUME NEW kind \in Kinds, NEW size \in Prices, Request(kind, size)
        PROVE  AnsweredByRules'
    <2> DEFINE t == totals[kind]
               ok == ConfiguredAllows(config, kind, t, size)
    <2>1. t \in Nat /\ size \in Nat /\ t + size <= MaxTotal /\ t + size \in Nat
      BY <1>1, GuardAssumption DEF AnsweredByRules, Request
    <2>2. /\ UNCHANGED config
          /\ totals' = [totals EXCEPT ![kind] = IF ok THEN @ + size ELSE @]
          /\ answered' = answered \cup {[kind |-> kind, size |-> size, total |-> t, allowed |-> ok]}
      BY <1>1 DEF Request
    <2>3. totals' \in [Kinds -> Nat]
      BY <2>1, <2>2 DEF AnsweredByRules
    <2> HIDE DEF t
    <2>4. ASSUME NEW r \in answered'
          PROVE  /\ r.kind \in Kinds /\ r.size \in Nat /\ r.total \in Nat
                 /\ r.total + r.size <= MaxTotal
                 /\ r.allowed <=> ConfiguredAllows(config, r.kind, r.total, r.size)
      <3> HIDE DEF ok
      <3>1. CASE r \in answered
        BY <3>1 DEF AnsweredByRules
      <3>2. CASE r = [kind |-> kind, size |-> size, total |-> t, allowed |-> ok]
        <4>1. r.kind = kind /\ r.size = size /\ r.total = t /\ r.allowed = ok
          BY <3>2
        <4> QED BY <2>1, <4>1 DEF ok
      <3> QED BY <2>2, <3>1, <3>2
    <2>5. config' = config
      BY <2>2
    <2>6. config' \in [SpendingLimits \cup BandwidthLimits -> Figures \cup {Unset}]
      BY <2>5 DEF AnsweredByRules
    <2>7. \A r \in answered' :
            /\ r.kind \in Kinds /\ r.size \in Nat /\ r.total \in Nat
            /\ r.total + r.size <= MaxTotal
            /\ r.allowed <=> ConfiguredAllows(config', r.kind, r.total, r.size)
      BY <2>4, <2>5
    <2> QED BY <2>3, <2>6, <2>7, Zenon DEF AnsweredByRules
  <1>2. CASE Restart
    <2>1. /\ totals' = [kind \in DOMAIN totals |-> 0] /\ answered' = {} /\ config' = config
          /\ DOMAIN totals = Kinds
      BY <1>2 DEF Restart, AnsweredByRules
    <2> QED BY <2>1 DEF AnsweredByRules
  <1>3. CASE UNCHANGED configVars
    BY <1>3 DEF AnsweredByRules, configVars, ConfiguredAllows, HasRule, Limit
  <1> QED BY <1>1, <1>2, <1>3 DEF ConfigNext, Kinds

\* A limit that is given is a number of its own; another one is its default.
LEMMA LimitValue ==
    ASSUME AnsweredByRules, NEW l \in SpendingLimits \cup BandwidthLimits
    PROVE  /\ config[l] # Unset => config[l] \in Nat /\ Limit(config, l) = config[l]
           /\ config[l] = Unset => Limit(config, l) = DefaultLimit(l)
           /\ DefaultLimit(l) \in Nat
           /\ l \in BandwidthLimits => DefaultLimit(l) = MaxTotal + 10
  BY GuardAssumption DEF AnsweredByRules, Limit, DefaultLimit, SpendingLimits, BandwidthLimits

\* What the rules answer compares with the limits given as the property says.
LEMMA AnsweredMeansLimits == AnsweredByRules => ConfiguredLimitsHold
  <1> SUFFICES ASSUME AnsweredByRules, NEW r \in answered
               PROVE  LET Given == {l \in LimitsOf(r.kind) : config[l] # Unset}
                          Effective == \E l \in Given : config[l] > 0
                          Measure(l) == IF l = "maxPerTransaction" THEN r.size ELSE r.total + r.size
                          Keeps == \A l \in Given : Measure(l) <= config[l]
                      IN  /\ r.allowed /\ Effective => Keeps
                          /\ ~r.allowed =>
                               /\ Effective
                               /\ Keeps => /\ r.kind = "payment"
                                           /\ \E l \in SpendingLimits \ Given :
                                                Measure(l) > DefaultLimit(l)
    BY Zenon DEF ConfiguredLimitsHold
  <1> DEFINE L == LimitsOf(r.kind)
             Given == {l \in L : config[l] # Unset}
             Effective == \E l \in Given : config[l] > 0
             Measure(l) == IF l = "maxPerTransaction" THEN r.size ELSE r.total + r.size
             Keeps == \A l \in Given : Measure(l) <= config[l]
  <1>1. /\ r.kind \in Kinds /\ r.size \in Nat /\ r.total \in Nat
        /\ r.total + r.size <= MaxTotal /\ MaxTotal \in Nat
        /\ r.allowed <=> ConfiguredAllows(config, r.kind, r.total, r.size)
    BY GuardAssumption DEF AnsweredByRules
  <1>2. L \subseteq SpendingLimits \cup BandwidthLimits
    BY DEF LimitsOf
  <1>3. HasRule(config, L) <=> Effective
    <2>1. \A l \in L : config[l] # Unset => config[l] \in Nat
      BY <1>2, LimitValue
    <2> QED BY <2>1 DEF HasRule
  <1>4. r.allowed <=> (HasRule(config, L) => \A l \in L : Measure(l) <= Limit(config, l))
    <2>1. CASE r.kind = "payment"
      BY <1>1, <2>1 DEF ConfiguredAllows, LimitsOf, SpendingLimits
    <2>2. CASE r.kind = "bandwidth"
      BY <1>1, <2>2 DEF ConfiguredAllows, LimitsOf, BandwidthLimits
    <2> QED BY <1>1, <2>1, <2>2 DEF Kinds
  <1>5. \A l \in L : Measure(l) \in Nat /\ Limit(config, l) \in Nat
    BY <1>1, <1>2, LimitValue
  <1>6. \A l \in Given : Limit(config, l) = config[l]
    BY <1>2, LimitValue
  <1>7. \A l \in L \ Given : Limit(config, l) = DefaultLimit(l)
    BY <1>2, LimitValue
  <1>8. r.kind = "bandwidth" => \A l \in L \ Given : Measure(l) <= Limit(config, l)
    <2> SUFFICES ASSUME r.kind = "bandwidth", NEW l \in L \ Given
                 PROVE  Measure(l) <= Limit(config, l)
      OBVIOUS
    <2>1. l \in BandwidthLimits /\ l # "maxPerTransaction"
      BY DEF LimitsOf, BandwidthLimits
    <2>2. Limit(config, l) = MaxTotal + 10
      BY <1>7, <2>1, LimitValue
    <2> QED BY <1>1, <2>1, <2>2
  <1>9. r.kind = "payment" => L = SpendingLimits
    BY DEF LimitsOf
  <1>10. r.kind = "payment" \/ r.kind = "bandwidth"
    BY <1>1 DEF Kinds
  <1> HIDE DEF L, Measure
  <1>11. r.allowed /\ Effective => Keeps
    BY <1>3, <1>4, <1>6
  <1>12. ~r.allowed => Effective
    BY <1>3, <1>4
  <1>13. ~r.allowed /\ Keeps => \E l \in L \ Given : Measure(l) > DefaultLimit(l)
    <2> SUFFICES ASSUME ~r.allowed, Keeps
                 PROVE  \E l \in L \ Given : Measure(l) > DefaultLimit(l)
      OBVIOUS
    <2>1. PICK l \in L : ~(Measure(l) <= Limit(config, l))
      BY <1>4
    <2>2. l \notin Given
      BY <1>6, <2>1
    <2>3. Measure(l) > DefaultLimit(l)
      BY <1>5, <1>7, <2>1, <2>2
    <2> QED BY <2>2, <2>3
  <1>14. ~r.allowed /\ Keeps => r.kind = "payment"
    <2> SUFFICES ASSUME ~r.allowed, Keeps, r.kind = "bandwidth" PROVE FALSE
      BY <1>10
    <2>1. PICK l \in L : ~(Measure(l) <= Limit(config, l))
      BY <1>4
    <2> QED BY <1>6, <1>8, <2>1
  <1> QED BY <1>9, <1>11, <1>12, <1>13, <1>14 DEF L, Measure

-------------------------------------------------------------------------------
(* fetchWithPayment: types.                                                *)

CallsOK ==
    /\ call \in [Callers -> [pc : {"idle", "fetching", "routing", "paying"},
                             proxy : {"none", "spacerouter", "auto"},
                             bill : SUBSET Challenge]]
    /\ \A c \in Callers :
         call[c].pc = "paying" => \E ch \in Challenge : call[c].bill = {ch}

\* Ticks are natural numbers.
LEMMA TicksNat == Ticks \in SUBSET Nat
  BY ClientAssumption DEF Ticks

\* A call that ends leaves the calls well typed.
LEMMA FinishTyped == ASSUME CallsOK, NEW c \in Callers, Finish(c) PROVE CallsOK'
  BY DEF CallsOK, Finish, NoCall

\* What a call reads from its challenge is an amount.
LEMMA ExtractedNat == ASSUME NEW ch \in Challenge PROVE Extracted(ch) \in Nat /\ ch.amount \in Nat
  BY ClientAssumption DEF Extracted, Challenge

\* Every call starts idle, with a new engine.
LEMMA ClientTypedInit == Init => TypeOK
  <1> SUFFICES ASSUME Init PROVE TypeOK
    OBVIOUS
  <1>1. 0 \in Ticks
    BY ClientAssumption DEF Ticks
  <1>2. EngineTypeOK(engine, Ticks)
    BY <1>1, NewEngineTyped DEF Init
  <1> QED BY <1>1, <1>2 DEF Init, TypeOK, NoCall

\* Every step of fetchWithPayment keeps it well typed.
LEMMA ClientTypedStep == ASSUME TypeOK, [Next]_vars PROVE TypeOK'
  <1>1. /\ now \in Ticks /\ EngineTypeOK(engine, Ticks) /\ CallsOK
        /\ payLog \in [Ticks -> Nat] /\ moved \in [Ticks -> Nat] /\ signed \subseteq Challenge
    BY DEF TypeOK, CallsOK
  <1>2. SUFFICES /\ now' \in Ticks /\ EngineTypeOK(engine', Ticks) /\ CallsOK'
                 /\ payLog' \in [Ticks -> Nat] /\ moved' \in [Ticks -> Nat]
                 /\ signed' \subseteq Challenge
    BY <1>2, Zenon DEF TypeOK, CallsOK, EngineTypeOK, Ticks, Challenge
  <1>3. CASE Tick
    <2>1. now' \in Ticks
      BY <1>1, <1>3, ClientAssumption DEF Tick, Ticks
    <2> QED BY <1>1, <1>3, <2>1 DEF Tick, CallsOK
  <1>4. ASSUME NEW c \in Callers, NEW proxy \in {"none", "spacerouter", "auto"}, NEW ok \in BOOLEAN,
               Start(c, proxy, ok)
        PROVE  EngineTypeOK(engine', Ticks) /\ CallsOK' /\ UNCHANGED <<now, payLog, moved, signed>>
    <2>1. EngineTypeOK(engine', Ticks)
      BY <1>1, <1>4, TicksNat, EvaluatedTyped DEF Start
    <2>2. CallsOK'
      BY <1>1, <1>4 DEF Start, CallsOK
    <2> QED BY <1>4, <2>1, <2>2 DEF Start
  <1>5. ASSUME NEW c \in Callers, NEW ch \in Challenge, Resolves(c, ch)
        PROVE  /\ EngineTypeOK(engine', Ticks) /\ CallsOK' /\ now' = now
               /\ payLog' \in [Ticks -> Nat] /\ moved' \in [Ticks -> Nat] /\ signed' \subseteq Challenge
    <2>1. EngineTypeOK(engine', Ticks)
      BY <1>1, <1>5, TicksNat, ExtractedNat, RecordedTyped DEF Resolves
    <2>2. payLog' \in [Ticks -> Nat] /\ moved' \in [Ticks -> Nat]
      BY <1>1, <1>5, ExtractedNat DEF Resolves, Logged
    <2>3. CallsOK' /\ now' = now /\ signed' \subseteq Challenge
      BY <1>1, <1>5, FinishTyped DEF Resolves
    <2> QED BY <2>1, <2>2, <2>3
  <1>6. ASSUME NEW c \in Callers, EndsUnpaid(c) \/ Fallback(c)
        PROVE  CallsOK' /\ UNCHANGED <<now, engine, payLog, moved, signed>>
    <2>1. CASE EndsUnpaid(c)
      BY <1>1, <2>1, FinishTyped DEF EndsUnpaid
    <2>2. CASE Fallback(c)
      BY <1>1, <2>2 DEF Fallback, CallsOK
    <2> QED BY <1>6, <2>1, <2>2
  <1>7. ASSUME NEW c \in Callers, NEW ch \in Challenge,
               Paywalled(c, ch) \/ OverCap(c, ch) \/ \E h \in BOOLEAN : AdapterThrows(c, ch, h)
        PROVE  CallsOK' /\ signed' \subseteq Challenge /\ UNCHANGED <<now, engine, payLog, moved>>
    <2>1. CASE Paywalled(c, ch)
      BY <1>1, <2>1 DEF Paywalled, CallsOK
    <2>2. CASE OverCap(c, ch)
      BY <1>1, <2>2, FinishTyped DEF OverCap
    <2>3. CASE \E h \in BOOLEAN : AdapterThrows(c, ch, h)
      BY <1>1, <2>3, FinishTyped DEF AdapterThrows
    <2> QED BY <1>7, <2>1, <2>2, <2>3
  <1>8. CASE UNCHANGED vars
    BY <1>1, <1>8 DEF vars, CallsOK
  <1> QED BY <1>1, <1>3, <1>4, <1>5, <1>6, <1>7, <1>8 DEF Next

-------------------------------------------------------------------------------
(* Spending as the runs put it together: the client, the guard or the      *)
(* configured engine takes a step, and the others rest.                    *)

\* The guard's inductive invariant.
GuardInductive == GuardTypeOK /\ RateInv /\ CountersCovered /\ PaymentsFit /\ BytesFit

\* It holds at the start.
LEMMA GuardInductiveInit == GuardInit => GuardInductive
  BY GuardTypedInit, RateInit, CoveredInit, FitsInit DEF GuardInductive

\* Every step keeps it.
LEMMA GuardInductiveStep ==
    ASSUME GuardInductive, [GuardNext]_guardVars PROVE GuardInductive'
  <1>1. GuardTypeOK'
    BY GuardTypedStep DEF GuardInductive
  <1>2. RateInv'
    BY RateStep DEF GuardInductive
  <1>3. CountersCovered'
    BY CoveredStep DEF GuardInductive
  <1>4. PaymentsFit' /\ BytesFit'
    BY FitsStep DEF GuardInductive
  <1> QED BY <1>1, <1>2, <1>3, <1>4 DEF GuardInductive

\* It gives the guard's properties.
LEMMA GuardInductiveMeans ==
    ASSUME GuardInductive PROVE SummaryCoversWindow /\ RateLimited /\ GuardOvershootBounded
  BY CoveredMeansSummary, FitsBounds DEF GuardInductive, RateInv

SpendingInductive == TypeOK /\ GuardInductive /\ AnsweredByRules

\* The three begin well typed, with nothing spent and nothing answered.
LEMMA SpendingInit == MCInit => SpendingInductive
  BY ClientTypedInit, GuardInductiveInit, AnsweredInit DEF MCInit, SpendingInductive

\* Whoever steps keeps his part, and the others theirs.
LEMMA SpendingStep ==
    SpendingInductive /\ [MCNext]_<<vars, guardVars, configVars>> => SpendingInductive'
  <1> SUFFICES ASSUME SpendingInductive, [MCNext]_<<vars, guardVars, configVars>>
               PROVE  SpendingInductive'
    OBVIOUS
  <1>1. [Next]_vars /\ [GuardNext]_guardVars /\ [ConfigNext]_configVars
    BY DEF MCNext
  <1>2. TypeOK'
    BY <1>1, ClientTypedStep DEF SpendingInductive
  <1>3. GuardInductive'
    BY <1>1, GuardInductiveStep DEF SpendingInductive
  <1>4. AnsweredByRules'
    BY <1>1, AnsweredStep DEF SpendingInductive
  <1> QED BY <1>2, <1>3, <1>4 DEF SpendingInductive

\* For any number of users and callers and any limits, the client, the guard and
\* their engines stay well typed: no counter, window or log ever leaves the
\* natural numbers (policy/index.ts:107-119, client.ts:469-520).
THEOREM SpendingTyped == MCSpec => []TypesOK
  <1>1. SpendingInductive => TypesOK
    BY DEF SpendingInductive, GuardInductive, TypesOK
  <1> QED BY <1>1, SpendingInit, SpendingStep, PTL DEF MCSpec

\* For any number of users of one guard, however their checks, records, failures and
\* the clock interleave: the audit log's summary covers the counters the caps are
\* enforced on, the rate rule is a true sliding window, a cap is exceeded by at most
\* one maximal request for every other user, and the limits given in a configuration
\* are the ones that hold, beside the defaults they bring along
\* (policy/index.ts:123-175, 177-315).
THEOREM GuardAlwaysHolds == MCSpec => []GuardHolds
  <1>1. SpendingInductive => GuardHolds
    BY GuardInductiveMeans, AnsweredMeansLimits DEF SpendingInductive, GuardHolds
  <1> QED BY <1>1, SpendingInit, SpendingStep, PTL DEF MCSpec
===============================================================================
