----------------------------- MODULE AgentProvider -----------------------------
(***************************************************************************)
(* Serving paid tools: AgentProvider.handleToolCall of                     *)
(* src/agent/paid-tool.ts behind McpServer and the Express middleware,     *)
(* with SessionManager and a PricingEngine of one DemandStrategy.          *)
(*                                                                         *)
(* A call is priced and charged in one go, then its tool runs while others *)
(* come in.  The check of a payment proof is left to the tool by the code; *)
(* a request carries one or not.                                           *)
(***************************************************************************)
EXTENDS Integers, Functions

CONSTANTS
    ToolCalls,      \* calls, each made once
    ToolSessions,   \* ids of sessions
    NoSession,
    SessionBudget,  \* defaultBudget
    SessionTtl,     \* ttlMs, in ticks
    BasePrice, SurgePrice,
    SurgeThreshold, \* calls in the window that are still at the base price
    DemandWindow,   \* windowMs, in ticks
    MaxToolTime     \* bound on time

ASSUME ProviderAssumption ==
    /\ NoSession \notin ToolSessions
    /\ {SessionBudget, SessionTtl, BasePrice, SurgePrice, SurgeThreshold, DemandWindow, MaxToolTime} \subseteq Nat

VARIABLES
    toolNow,        \* Date.now()
    demand,         \* DemandStrategy.window: how many demands it holds of each instant
    toolSessions,   \* SessionManager.sessions
    toolCalls,      \* toolCalls[c]: where c stands, and histories: the session and
                    \* the price it was charged, the calls it was priced among
    lateCharges     \* history: calls charged to a session that had ended

providerVars == <<toolNow, demand, toolSessions, toolCalls, lateCharges>>

Statuses == {"active", "expired", "settled"}

\* One type invariant.
ProviderTypeOK ==
    /\ toolNow \in 0..MaxToolTime /\ demand \in [0..MaxToolTime -> Nat]
    /\ toolSessions \in [ToolSessions -> [status : Statuses \cup {"none"}, spent : Nat, until : Nat]]
    /\ toolCalls \in [ToolCalls -> [at : {"idle", "running", "200", "402", "500"},
                                    session : ToolSessions \cup {NoSession}, price : Nat, among : Nat]]
    /\ lateCharges \subseteq ToolCalls

ProviderInit ==
    /\ toolNow = 0 /\ demand = [t \in 0..MaxToolTime |-> 0] /\ lateCharges = {}
    /\ toolSessions = [s \in ToolSessions |-> [status |-> "none", spent |-> 0, until |-> 0]]
    /\ toolCalls = [c \in ToolCalls |-> [at |-> "idle", session |-> NoSession, price |-> 0, among |-> 0]]

-------------------------------------------------------------------------------
(* Sessions and prices.                                                    *)

CreateSession(s) ==
    /\ toolSessions[s].status = "none"
    /\ toolSessions' = [toolSessions EXCEPT ![s].status = "active", ![s].until = toolNow + SessionTtl]
    /\ UNCHANGED <<toolNow, demand, toolCalls, lateCharges>>

\* SessionManager.get marks a session that ran out.
Looked(s) ==
    IF toolSessions[s].status = "active" /\ toolNow > toolSessions[s].until
    THEN [toolSessions[s] EXCEPT !.status = "expired"]
    ELSE toolSessions[s]

\* SessionManager.settle asks neither the time nor the status.
SettleSession(s) ==
    /\ toolSessions[s].status # "none"
    /\ toolSessions' = [toolSessions EXCEPT ![s].status = "settled"]
    /\ UNCHANGED <<toolNow, demand, toolCalls, lateCharges>>

\* SessionManager.shouldSettle only looks.
LookAtSession(s) ==
    /\ toolSessions[s].status # "none"
    /\ toolSessions' = [toolSessions EXCEPT ![s] = Looked(s)]
    /\ UNCHANGED <<toolNow, demand, toolCalls, lateCharges>>

\* Every resolved price is itself a demand.
Demanded(window) ==
    [t \in 0..MaxToolTime |-> (IF toolNow - t < DemandWindow THEN window[t] ELSE 0)
                               + (IF t = toolNow THEN 1 ELSE 0)]

PriceAmong(n) == IF n > SurgeThreshold THEN SurgePrice ELSE BasePrice

\* SessionManager.charge
Chargeable(s, price) ==
    /\ Looked(s).status = "active"
    /\ Looked(s).spent + price <= SessionBudget

-------------------------------------------------------------------------------
(* Calls.                                                                  *)

\* A call that names a session is priced, and charged if the session has it.
ChargeSession(c, s) ==
    LET window == Demanded(demand)
        price == PriceAmong(SumFunction(window))
    IN  /\ toolCalls[c].at = "idle" /\ Chargeable(s, price)
        /\ toolSessions' = [toolSessions EXCEPT ![s] = [Looked(s) EXCEPT !.spent = @ + price]]
        /\ toolCalls' = [toolCalls EXCEPT ![c] = [at |-> "running", session |-> s, price |-> price,
                                                  among |-> SumFunction(window)]]
        /\ demand' = window
        /\ lateCharges' = IF toolSessions[s].status = "active" /\ toolNow <= toolSessions[s].until
                          THEN lateCharges ELSE lateCharges \cup {c}
        /\ UNCHANGED toolNow

\* The demand that a call has made when its session, if it names one, was
\* refused, and the sessions after that look.
AfterRefusal(s) ==
    IF s = NoSession
    THEN [window |-> demand, sessions |-> toolSessions]
    ELSE [window |-> Demanded(demand), sessions |-> [toolSessions EXCEPT ![s] = Looked(s)]]

Refused(s) == s # NoSession => ~Chargeable(s, PriceAmong(SumFunction(Demanded(demand))))

\* A proof is taken; it is not priced.
TakeProof(c, s) ==
    /\ toolCalls[c].at = "idle" /\ Refused(s)
    /\ toolCalls' = [toolCalls EXCEPT ![c].at = "running"]
    /\ demand' = AfterRefusal(s).window /\ toolSessions' = AfterRefusal(s).sessions
    /\ UNCHANGED <<toolNow, lateCharges>>

\* Neither: 402, priced (again) for its envelope.
Challenge402(c, s) ==
    /\ toolCalls[c].at = "idle" /\ Refused(s)
    /\ toolCalls' = [toolCalls EXCEPT ![c].at = "402"]
    /\ demand' = Demanded(AfterRefusal(s).window) /\ toolSessions' = AfterRefusal(s).sessions
    /\ UNCHANGED <<toolNow, lateCharges>>

\* The tool returns, or throws: the session keeps the charge.
ToolEnds(c) ==
    /\ toolCalls[c].at = "running"
    /\ \E status \in {"200", "500"} : toolCalls' = [toolCalls EXCEPT ![c].at = status]
    /\ UNCHANGED <<toolNow, demand, toolSessions, lateCharges>>

ToolTick ==
    /\ toolNow < MaxToolTime
    /\ toolNow' = toolNow + 1
    /\ UNCHANGED <<demand, toolSessions, toolCalls, lateCharges>>

ProviderNext ==
    \/ \E s \in ToolSessions : CreateSession(s) \/ SettleSession(s) \/ LookAtSession(s)
    \/ \E c \in ToolCalls : \E s \in ToolSessions : ChargeSession(c, s)
    \/ \E c \in ToolCalls : \E s \in ToolSessions \cup {NoSession} : TakeProof(c, s) \/ Challenge402(c, s)
    \/ \E c \in ToolCalls : ToolEnds(c)
    \/ ToolTick

ProviderSpec == ProviderInit /\ [][ProviderNext]_providerVars

-------------------------------------------------------------------------------
(* Properties.                                                             *)

\* The calls charged to a session, and what each was charged.
ChargedTo(s) == {c \in ToolCalls : toolCalls[c].session = s}
Prices == [c \in ToolCalls |-> toolCalls[c].price]

\* However calls, expiry and settlement interleave, a session has spent what its
\* calls were charged and no more than its budget, each at another than the base
\* price only in a rush, and none was charged after the session had run out or
\* was settled.
SessionsBalance ==
    /\ \A s \in ToolSessions :
          /\ toolSessions[s].spent = SumFunctionOnSet(Prices, ChargedTo(s))
          /\ toolSessions[s].spent <= SessionBudget
    /\ \A c \in ToolCalls :
          toolCalls[c].session # NoSession /\ toolCalls[c].price # BasePrice
              => toolCalls[c].among > SurgeThreshold
    /\ lateCharges = {}
===============================================================================
