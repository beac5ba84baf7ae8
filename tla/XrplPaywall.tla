----------------------------- MODULE XrplPaywall -----------------------------
(***************************************************************************)
(* The XRPL route of createPaywall() in src/middleware.ts: invoices are    *)
(* minted into a process-wide map, and a request that carries a signed     *)
(* payment is checked against its invoice, verified and settled by a       *)
(* facilitator, and only then served.  verify and settle are awaited, so   *)
(* requests overlap; a slot is one such request under way.  The            *)
(* facilitator and the ledger are external.                                *)
(***************************************************************************)
EXTENDS Naturals, FiniteSets

CONSTANTS
    Invoices,       \* invoice ids
    Pinned,         \* ids a route pins with cfg.invoiceId; the rest are random
    Payments,       \* signed payment transactions
    Slots,          \* settlement requests under way together
    Ttl,            \* XRPL_INVOICE_TTL_MS
    SettlesAgain,   \* does the facilitator confirm a settled payment again?
    None,
    MaxTime,        \* bound on the clock
    MaxIssued,      \* bound on the challenges per pinned id
    MaxRestarts     \* bound on process restarts

ASSUME PaywallAssumption ==
    /\ Pinned \subseteq Invoices
    /\ None \notin Invoices \cup Payments
    /\ {Ttl, MaxTime, MaxRestarts} \subseteq Nat /\ MaxIssued \in Nat \ {0}
    /\ SettlesAgain \in BOOLEAN

VARIABLES
    now,
    issued,     \* issued[i]: challenges emitted with id i
    invoices,   \* xrplInvoices: the record held for each id
    paysFor,    \* paysFor[p]: the invoice payment p was signed for
    requests,   \* requests[s]: the settlement request in slot s
    charged,    \* external: payments on the ledger
    served,     \* served[p]: how often next() ran for payment p
    restarts

vars == <<now, issued, invoices, paysFor, requests, charged, served, restarts>>

\* A record of the map.  A pinned id gets a new record per challenge, and a
\* request keeps the record it looked up: serial tells them apart.
Invoice == [expiresAt : 0 .. MaxTime + Ttl, consumed : BOOLEAN, serial : 1..MaxIssued]
Absent == [expiresAt |-> 0, consumed |-> FALSE, serial |-> 0]

Stages == {"verify", "settle", "settled"}
Idle == [stage |-> "idle", payment |-> None, serial |-> 0]

TypeOK ==
    /\ now \in 0..MaxTime
    /\ issued \in [Invoices -> 0..MaxIssued]
    /\ invoices \in [Invoices -> Invoice \cup {Absent}]
    /\ paysFor \in [Payments -> Invoices \cup {None}]
    /\ requests \in [Slots -> {Idle} \cup
           [stage : Stages, payment : Payments, serial : 1..MaxIssued]]
    /\ charged \subseteq Payments
    /\ served \in [Payments -> Nat]
    /\ restarts \in 0..MaxRestarts

Init ==
    /\ now = 0
    /\ issued = [i \in Invoices |-> 0]
    /\ invoices = [i \in Invoices |-> Absent]
    /\ paysFor = [p \in Payments |-> None]
    /\ requests = [s \in Slots |-> Idle]
    /\ charged = {}
    /\ served = [p \in Payments |-> 0]
    /\ restarts = 0

-------------------------------------------------------------------------------
(* The buyer and the clock.                                                *)

\* The buyer answers each challenge with at most one signed payment.
Sign(p, i) ==
    /\ paysFor[p] = None
    /\ Cardinality({q \in Payments : paysFor[q] = i}) < issued[i]
    /\ paysFor' = [paysFor EXCEPT ![p] = i]
    /\ UNCHANGED <<now, issued, invoices, requests, charged, served, restarts>>

Tick ==
    /\ now < MaxTime
    /\ now' = now + 1
    /\ UNCHANGED <<issued, invoices, paysFor, requests, charged, served, restarts>>

-------------------------------------------------------------------------------
(* The middleware.                                                         *)

\* A request without a payment: a new record under the route's id, whatever
\* the map held there.
Challenge(i) ==
    /\ issued[i] < IF i \in Pinned THEN MaxIssued ELSE 1
    /\ issued' = [issued EXCEPT ![i] = @ + 1]
    /\ invoices' = [invoices EXCEPT ![i] =
           [expiresAt |-> now + Ttl, consumed |-> FALSE, serial |-> issued'[i]]]
    /\ UNCHANGED <<now, paysFor, requests, charged, served, restarts>>

\* A slip the code avoids: consuming the invoice before the money has moved.
Bug_AdmitConsumes(s, p) ==
    LET i == paysFor[p] IN
    /\ requests[s] = Idle /\ i # None
    /\ invoices[i] # Absent
    /\ ~invoices[i].consumed
    /\ invoices[i].expiresAt >= now
    /\ invoices' = [invoices EXCEPT ![i].consumed = TRUE]
    /\ requests' = [requests EXCEPT ![s] = [stage |-> "verify", payment |-> p,
                                            serial |-> invoices[i].serial]]
    /\ UNCHANGED <<now, issued, paysFor, charged, served, restarts>>

\* A request with a payment passes the invoice checks and goes to the
\* facilitator.  Unknown and consumed invoices, other routes and other terms
\* are answered 402 and change nothing.
Admit(s, p) ==
    LET i == paysFor[p] IN
    /\ requests[s] = Idle /\ i # None
    /\ invoices[i] # Absent
    /\ ~invoices[i].consumed
    /\ invoices[i].expiresAt >= now
    /\ requests' = [requests EXCEPT ![s] = [stage |-> "verify", payment |-> p,
                                            serial |-> invoices[i].serial]]
    /\ UNCHANGED <<now, issued, invoices, paysFor, charged, served, restarts>>

\* An expired invoice is deleted when somebody tries to use it.
Expire(p) ==
    LET i == paysFor[p] IN
    /\ i # None
    /\ invoices[i] # Absent
    /\ ~invoices[i].consumed
    /\ invoices[i].expiresAt < now
    /\ invoices' = [invoices EXCEPT ![i] = Absent]
    /\ UNCHANGED <<now, issued, paysFor, requests, charged, served, restarts>>

\* A slip the code avoids: serving on the facilitator's verify alone.
Bug_VerifiedSkipsSettle(s) ==
    /\ requests[s].stage = "verify"
    /\ requests' = [requests EXCEPT ![s].stage = "settled"]
    /\ UNCHANGED <<now, issued, invoices, paysFor, charged, served, restarts>>

\* verify answered isValid; settle is called.
Verified(s) ==
    /\ requests[s].stage = "verify"
    /\ requests' = [requests EXCEPT ![s].stage = "settle"]
    /\ UNCHANGED <<now, issued, invoices, paysFor, charged, served, restarts>>

\* External: the facilitator submits the payment, or confirms one that is
\* already on the ledger if it is built to.
Settle(s) ==
    /\ requests[s].stage = "settle"
    /\ SettlesAgain \/ requests[s].payment \notin charged
    /\ charged' = charged \cup {requests[s].payment}
    /\ requests' = [requests EXCEPT ![s].stage = "settled"]
    /\ UNCHANGED <<now, issued, invoices, paysFor, served, restarts>>

\* A call to the facilitator fails or is refused, or the answer to a settle
\* that worked is lost: 402, and nothing else changes.
Refuse(s) ==
    /\ requests[s] # Idle
    /\ requests' = [requests EXCEPT ![s] = Idle]
    /\ UNCHANGED <<now, issued, invoices, paysFor, charged, served, restarts>>

\* settle answered success: the record looked up at the start is marked, and
\* the route is served.
Serve(s) ==
    LET p == requests[s].payment  i == paysFor[p] IN
    /\ requests[s].stage = "settled"
    /\ invoices' = IF invoices[i].serial = requests[s].serial
                      THEN [invoices EXCEPT ![i].consumed = TRUE]
                      ELSE invoices
    /\ served' = [served EXCEPT ![p] = @ + 1]
    /\ requests' = [requests EXCEPT ![s] = Idle]
    /\ UNCHANGED <<now, issued, paysFor, charged, restarts>>

\* The process restarts: the map and the requests under way are gone.
Restart ==
    /\ restarts < MaxRestarts
    /\ restarts' = restarts + 1
    /\ invoices' = [i \in Invoices |-> Absent]
    /\ requests' = [s \in Slots |-> Idle]
    /\ UNCHANGED <<now, issued, paysFor, charged, served>>

Next ==
    \/ Tick
    \/ Restart
    \/ \E i \in Invoices : Challenge(i)
    \/ \E p \in Payments, i \in Invoices : Sign(p, i)
    \/ \E p \in Payments : Expire(p)
    \/ \E s \in Slots :
        \/ \E p \in Payments : Admit(s, p)
        \/ Verified(s) \/ Settle(s) \/ Refuse(s) \/ Serve(s)

Spec == Init /\ [][Next]_vars

-------------------------------------------------------------------------------
(* Properties.                                                             *)

Access == INSTANCE PaidAccess

\* The paywall implements PaidAccess: next() runs only for a payment that
\* has landed, and once for each.  It holds while settlements of one payment
\* do not overlap and ids are random, or when the facilitator settles once.
ServesWhatIsPaid == Access!AccessSpec

\* A buyer who has been charged but not served, because an answer was lost,
\* is never turned away with "invoice_already_consumed" on a random id:
\* marking the invoice comes after the settlement, not before.
ChargedIsNotConsumed ==
    \A p \in Payments :
        p \in charged /\ served[p] = 0 /\ paysFor[p] \notin Pinned =>
            ~invoices[paysFor[p]].consumed
===============================================================================
