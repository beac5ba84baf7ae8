---------------------------- MODULE PaywallProofs ----------------------------
(***************************************************************************)
(* Proofs about the paywall.  XrplPaywall is well typed and implements     *)
(* PaidAccess for any number of overlapping requests, pinned ids and       *)
(* restarts, provided the facilitator confirms each payment once.          *)
(* TransferVerifier: the replay window for any number of overlapping       *)
(* calls and restarts, that the cache lets a proof through once unless it  *)
(* was exposed, and that while nothing is exposed the verifier implements  *)
(* PaidAccess.  Rails: for any buyers and merchants, which rail a payment  *)
(* takes, what is given away on it and who is turned away.  OwsWallet,     *)
(* CeloRail and StellarRails: what the buyer's side answers, counts,       *)
(* settles and shows.                                                      *)
(***************************************************************************)
EXTENDS MCPaywall, DataLemmas, TLAPS

Request == {Idle} \cup [stage : Stages, payment : Payments, serial : 1..MaxIssued]

-------------------------------------------------------------------------------
(* Types.                                                                  *)

\* The payment of a request under way names an invoice that was issued.
Bound == \A s \in Slots : requests[s] # Idle => paysFor[requests[s].payment] \in Invoices

TypedInv == TypeOK /\ Bound

\* TypedInv holds initially.
LEMMA TypedInit == Init => TypedInv
<1> SUFFICES ASSUME Init PROVE TypedInv
  OBVIOUS
<1>1. Absent \in Invoice \cup {Absent} /\ 0 \in 0..MaxTime /\ 0 \in 0..MaxRestarts /\ 0 \in 0..MaxIssued
  BY PaywallAssumption
<1>2. invoices \in [Invoices -> Invoice \cup {Absent}]
  BY <1>1 DEF Init
<1>3. TypeOK
  BY <1>1, <1>2 DEF Init, TypeOK
<1>4. Bound
  BY DEF Init, Bound
<1> QED
  BY <1>3, <1>4 DEF TypedInv

\* Challenge stores a record of the map's type.
LEMMA TypedChallenge ==
    ASSUME TypedInv, NEW i \in Invoices, Challenge(i)
    PROVE  TypedInv'
<1> USE PaywallAssumption DEF TypedInv, TypeOK
<1>1. issued[i] + 1 \in 1..MaxIssued
  BY DEF Challenge
<1>2. issued' \in [Invoices -> 0..MaxIssued] /\ issued'[i] = issued[i] + 1
  BY <1>1 DEF Challenge
<1>3. [expiresAt |-> now + Ttl, consumed |-> FALSE, serial |-> issued'[i]] \in Invoice
  BY <1>1, <1>2 DEF Invoice
<1>4. invoices' \in [Invoices -> Invoice \cup {Absent}]
  BY <1>3 DEF Challenge
<1> QED
  BY <1>2, <1>4 DEF Challenge, Bound

\* Admit copies a serial from a record that is there.
LEMMA TypedAdmit ==
    ASSUME TypedInv, NEW s \in Slots, NEW p \in Payments, Admit(s, p)
    PROVE  TypedInv'
<1> USE PaywallAssumption DEF TypedInv, TypeOK
<1> DEFINE i == paysFor[p]
<1>1. i \in Invoices /\ invoices[i] \in Invoice
  BY DEF Admit
<1>2. invoices[i].serial \in 1..MaxIssued
  BY <1>1 DEF Invoice
<1>3. requests' \in [Slots -> {Idle} \cup [stage : Stages, payment : Payments, serial : 1..MaxIssued]]
  BY <1>2 DEF Admit, Stages
<1>4. Bound'
  BY <1>1 DEF Admit, Bound, Idle
<1> QED
  BY <1>3, <1>4 DEF Admit

\* Serve marks a record only where a record with the same serial still is.
LEMMA TypedServe ==
    ASSUME TypedInv, NEW s \in Slots, Serve(s)
    PROVE  TypedInv'
<1> USE PaywallAssumption DEF TypedInv, TypeOK
<1> DEFINE p == requests[s].payment  i == paysFor[p]
<1>1. /\ requests[s] # Idle /\ p \in Payments /\ i \in Invoices
      /\ requests[s].serial \in 1..MaxIssued
  BY DEF Serve, Bound, Idle, Stages
<1>2. invoices' \in [Invoices -> Invoice \cup {Absent}]
  <2>1. CASE invoices[i].serial = requests[s].serial
    <3>1. invoices[i] \in Invoice
      BY <1>1, <2>1 DEF Absent
    <3>2. [invoices[i] EXCEPT !.consumed = TRUE] \in Invoice
      BY <3>1 DEF Invoice
    <3> QED
      BY <1>1, <2>1, <3>2 DEF Serve
  <2>2. CASE invoices[i].serial # requests[s].serial
    BY <2>2 DEF Serve
  <2> QED
    BY <2>1, <2>2
<1>3. served' \in [Payments -> Nat]
  BY <1>1 DEF Serve
<1>4. requests' \in [Slots -> {Idle} \cup [stage : Stages, payment : Payments, serial : 1..MaxIssued]]
  BY DEF Serve
<1>5. Bound'
  BY DEF Serve, Bound
<1> QED
  BY <1>2, <1>3, <1>4, <1>5 DEF Serve

\* Every step keeps TypedInv.
LEMMA TypedStep == TypedInv /\ [Next]_vars => TypedInv'
<1> SUFFICES ASSUME TypedInv, [Next]_vars PROVE TypedInv'
  OBVIOUS
<1> USE PaywallAssumption DEF TypedInv, TypeOK
<1>1. CASE Tick
  BY <1>1 DEF Tick, Bound
<1>2. CASE Restart
  BY <1>2 DEF Restart, Bound
<1>3. ASSUME NEW i \in Invoices, Challenge(i) PROVE TypedInv'
  BY <1>3, TypedChallenge
<1>4. ASSUME NEW p \in Payments, NEW i \in Invoices, Sign(p, i) PROVE TypedInv'
  BY <1>4 DEF Sign, Bound
<1>5. ASSUME NEW p \in Payments, Expire(p) PROVE TypedInv'
  BY <1>5 DEF Expire, Bound
<1>6. ASSUME NEW s \in Slots, NEW p \in Payments, Admit(s, p) PROVE TypedInv'
  BY <1>6, TypedAdmit
<1>7. ASSUME NEW s \in Slots, Verified(s) PROVE TypedInv'
  BY <1>7 DEF Verified, Bound, Idle, Stages
<1>8. ASSUME NEW s \in Slots, Settle(s) PROVE TypedInv'
  BY <1>8 DEF Settle, Bound, Idle, Stages
<1>9. ASSUME NEW s \in Slots, Refuse(s) PROVE TypedInv'
  BY <1>9 DEF Refuse, Bound
<1>10. ASSUME NEW s \in Slots, Serve(s) PROVE TypedInv'
  BY <1>10, TypedServe
<1>11. CASE UNCHANGED vars
  BY <1>11 DEF vars, Bound
<1> QED
  BY <1>1, <1>2, <1>3, <1>4, <1>5, <1>6, <1>7, <1>8, <1>9, <1>10, <1>11 DEF Next

\* The variables keep their types, for any constants.
THEOREM PaywallTyped == Spec => []TypeOK
<1>1. TypedInv => TypeOK
  BY DEF TypedInv
<1> QED
  BY TypedInit, TypedStep, <1>1, PTL DEF Spec

-------------------------------------------------------------------------------
(* Refinement.                                                             *)

\* What a request holds once its settlement has worked: a landed payment
\* that has not been served, and that no other request holds.
Holding ==
    /\ \A s \in Slots : requests[s].stage = "settled" =>
           /\ requests[s].payment \in charged
           /\ served[requests[s].payment] = 0
    /\ \A s, r \in Slots :
           /\ requests[s].stage = "settled" /\ requests[r].stage = "settled"
           /\ requests[s].payment = requests[r].payment
           => s = r

\* Only landed payments have been served.
ServedAreCharged == \A p \in Payments : served[p] > 0 => p \in charged

HoldingInv == TypedInv /\ Holding /\ ServedAreCharged

\* HoldingInv holds initially.
LEMMA HoldingInit == Init => HoldingInv
  BY TypedInit DEF Init, HoldingInv, Holding, ServedAreCharged, Idle

\* Every step keeps Holding and ServedAreCharged: a settlement that works
\* is the first of its payment, so nobody else holds or has served it.
LEMMA HoldingStep ==
    ASSUME ~SettlesAgain, HoldingInv, [Next]_vars
    PROVE  Holding' /\ ServedAreCharged'
<1> USE PaywallAssumption DEF HoldingInv, TypedInv, TypeOK, Holding, ServedAreCharged, Stages
<1>1. CASE Tick
  BY <1>1 DEF Tick
<1>2. CASE Restart
  BY <1>2 DEF Restart, Idle
<1>3. ASSUME NEW i \in Invoices, Challenge(i) PROVE Holding' /\ ServedAreCharged'
  BY <1>3 DEF Challenge
<1>4. ASSUME NEW p \in Payments, NEW i \in Invoices, Sign(p, i) PROVE Holding' /\ ServedAreCharged'
  BY <1>4 DEF Sign
<1>5. ASSUME NEW p \in Payments, Expire(p) PROVE Holding' /\ ServedAreCharged'
  BY <1>5 DEF Expire
<1>6. ASSUME NEW s \in Slots, NEW p \in Payments, Admit(s, p) PROVE Holding' /\ ServedAreCharged'
  BY <1>6 DEF Admit
<1>7. ASSUME NEW s \in Slots, Verified(s) PROVE Holding' /\ ServedAreCharged'
  BY <1>7 DEF Verified
<1>8. ASSUME NEW s \in Slots, Settle(s) PROVE Holding' /\ ServedAreCharged'
  <2>1. requests[s].payment \in Payments \ charged /\ requests[s] # Idle
    BY <1>8 DEF Settle, Idle
  <2>2. served[requests[s].payment] = 0
    BY <2>1
  <2> QED
    BY <1>8, <2>1, <2>2 DEF Settle
<1>9. ASSUME NEW s \in Slots, Refuse(s) PROVE Holding' /\ ServedAreCharged'
  BY <1>9 DEF Refuse, Idle
<1>10. ASSUME NEW s \in Slots, Serve(s) PROVE Holding' /\ ServedAreCharged'
  <2>1. requests[s].payment \in charged /\ requests[s].payment \in Payments
    BY <1>10 DEF Serve, Idle
  <2> QED
    BY <1>10, <2>1 DEF Serve, Idle
<1>11. CASE UNCHANGED vars
  BY <1>11 DEF vars
<1> QED
  BY <1>1, <1>2, <1>3, <1>4, <1>5, <1>6, <1>7, <1>8, <1>9, <1>10, <1>11 DEF Next

\* Every step is one of PaidAccess or stutters: Settle is Charge, Serve is
\* Serve.
LEMMA AccessAtStep ==
    ASSUME ~SettlesAgain, HoldingInv, [Next]_vars
    PROVE  [Access!AccessNext]_(Access!accessVars)
<1> USE PaywallAssumption DEF HoldingInv, TypedInv, TypeOK, Access!accessVars
<1>1. CASE UNCHANGED <<charged, served>>
  BY <1>1
<1>2. ASSUME NEW s \in Slots, Settle(s) PROVE [Access!AccessNext]_(Access!accessVars)
  <2>1. requests[s].payment \in Payments
    BY <1>2 DEF Settle, Idle
  <2>2. Access!Charge(requests[s].payment)
    BY <1>2 DEF Settle, Access!Charge
  <2> QED
    BY <2>1, <2>2 DEF Access!AccessNext
<1>3. ASSUME NEW s \in Slots, Serve(s) PROVE [Access!AccessNext]_(Access!accessVars)
  <2>1. requests[s].payment \in Payments
    BY <1>3 DEF Serve, Idle
  <2>2. requests[s].payment \in charged /\ served[requests[s].payment] = 0
    BY <1>3 DEF Serve, Holding
  <2>3. served' = [served EXCEPT ![requests[s].payment] = 1] /\ UNCHANGED charged
    BY <1>3, <2>1, <2>2 DEF Serve
  <2>4. Access!Serve(requests[s].payment)
    BY <2>2, <2>3 DEF Access!Serve
  <2> QED
    BY <2>1, <2>4 DEF Access!AccessNext
<1>4. [Next]_vars =>
        \/ UNCHANGED <<charged, served>>
        \/ \E s \in Slots : Settle(s) \/ Serve(s)
  BY DEF Next, vars, Tick, Restart, Challenge, Sign, Expire, Admit, Verified, Refuse
<1> QED
  BY <1>1, <1>2, <1>3, <1>4

\* With a facilitator that settles a payment once, the paywall implements
\* PaidAccess: overlapping requests, pinned ids, expiries, lost answers and
\* restarts never serve an unpaid request or one payment twice.
THEOREM PaywallImplementsPaidAccess ==
    ASSUME ~SettlesAgain
    PROVE  Spec => ServesWhatIsPaid
<1>1. Init => HoldingInv
  BY HoldingInit
<1>2. HoldingInv /\ [Next]_vars => HoldingInv'
  BY TypedStep, HoldingStep DEF HoldingInv
<1>3. HoldingInv /\ [Next]_vars => [Access!AccessNext]_(Access!accessVars)
  BY AccessAtStep
<1>4. Init => Access!AccessInit
  BY DEF Init, Access!AccessInit
<1> QED
  BY <1>1, <1>2, <1>3, <1>4, PTL DEF Spec, ServesWhatIsPaid, Access!AccessSpec

-------------------------------------------------------------------------------
(* Charged and not served.                                                 *)

\* A random id is issued once and so pays for one payment, and its invoice is
\* consumed only once that one was served; what is charged pays for an invoice.
OnceIssued ==
    /\ \A i \in Invoices \ Pinned :
          /\ issued[i] <= 1
          /\ invoices[i].consumed => \E p \in Payments : paysFor[p] = i /\ served[p] > 0
    /\ \A p, q \in Payments :
          paysFor[p] \in Invoices \ Pinned /\ paysFor[p] = paysFor[q] => p = q
    /\ \A p \in charged : paysFor[p] \in Invoices

\* A second payment cannot be signed for an id that was issued once.
LEMMA OneSigned ==
    ASSUME TypedInv, OnceIssued, NEW p \in Payments, NEW i \in Invoices \ Pinned, Sign(p, i),
           NEW q \in Payments
    PROVE  paysFor[q] # i
<1> DEFINE S == {r \in Payments : paysFor[r] = i}
<1> SUFFICES ASSUME paysFor[q] = i PROVE FALSE
  OBVIOUS
<1>1. S = {q}
  BY DEF OnceIssued
<1>2. Cardinality(S) = 1
  BY <1>1, FS_Singleton
<1>3. Cardinality(S) < issued[i] /\ issued[i] <= 1 /\ issued[i] \in Nat
  BY PaywallAssumption DEF Sign, OnceIssued, TypedInv, TypeOK
<1> QED
  BY <1>2, <1>3

\* Every step keeps OnceIssued.
LEMMA OnceIssuedStep == TypedInv /\ OnceIssued /\ [Next]_vars => OnceIssued'
<1> SUFFICES ASSUME TypedInv, OnceIssued, [Next]_vars PROVE OnceIssued'
  OBVIOUS
<1>1. /\ issued \in [Invoices -> 0..MaxIssued] /\ invoices \in [Invoices -> Invoice \cup {Absent}]
      /\ paysFor \in [Payments -> Invoices \cup {None}] /\ charged \subseteq Payments
      /\ served \in [Payments -> Nat] /\ requests \in [Slots -> Request]
      /\ Pinned \subseteq Invoices /\ None \notin Invoices /\ MaxIssued \in Nat
  BY PaywallAssumption DEF TypedInv, TypeOK, Request
<1>2. \A i \in Invoices : issued[i] \in Nat
  BY <1>1
<1>3. CASE Tick
  BY <1>3 DEF Tick, OnceIssued
<1>4. CASE Restart
  BY <1>4 DEF Restart, OnceIssued, Absent
<1>5. ASSUME NEW i \in Invoices, Challenge(i) PROVE OnceIssued'
  <2>1. /\ i \notin Pinned => issued[i] + 1 <= 1
        /\ issued' = [issued EXCEPT ![i] = issued[i] + 1]
        /\ invoices'[i].consumed = FALSE
        /\ \A j \in Invoices : j # i => invoices'[j] = invoices[j]
        /\ UNCHANGED <<paysFor, charged, served>>
    BY <1>1, <1>2, <1>5 DEF Challenge
  <2> QED
    BY <1>1, <2>1 DEF OnceIssued
<1>6. ASSUME NEW p \in Payments, NEW i \in Invoices, Sign(p, i) PROVE OnceIssued'
  <2>1. /\ paysFor[p] = None /\ paysFor' = [paysFor EXCEPT ![p] = i]
        /\ UNCHANGED <<issued, invoices, charged, served>>
    BY <1>6 DEF Sign
  <2>2. \A q \in Payments : q # p => paysFor'[q] = paysFor[q]
    BY <1>1, <2>1
  <2>3. paysFor'[p] = i
    BY <1>1, <2>1
  <2>4. i \notin Pinned => \A q \in Payments : paysFor[q] # i
    BY <1>6, OneSigned
  <2>5. \A j \in Invoices \ Pinned :
          invoices'[j].consumed => \E q \in Payments : paysFor'[q] = j /\ served'[q] > 0
    BY <1>1, <2>1, <2>2 DEF OnceIssued
  <2>6. \A q, r \in Payments :
          paysFor'[q] \in Invoices \ Pinned /\ paysFor'[q] = paysFor'[r] => q = r
    BY <2>2, <2>3, <2>4 DEF OnceIssued
  <2> QED
    BY <1>1, <2>1, <2>2, <2>3, <2>5, <2>6 DEF OnceIssued
<1>7. ASSUME NEW p \in Payments, Expire(p) PROVE OnceIssued'
  <2>1. /\ UNCHANGED <<issued, paysFor, charged, served>>
        /\ \A j \in Invoices : invoices'[j] \in {invoices[j], Absent}
    BY <1>1, <1>7 DEF Expire
  <2> QED
    BY <1>1, <2>1 DEF OnceIssued, Absent
<1>8. ASSUME NEW s \in Slots, Settle(s) PROVE OnceIssued'
  <2>1. requests[s] # Idle /\ charged' = charged \cup {requests[s].payment}
        /\ UNCHANGED <<issued, invoices, paysFor, served>>
    BY <1>8 DEF Settle, Idle
  <2>2. paysFor[requests[s].payment] \in Invoices
    BY <2>1 DEF TypedInv, Bound
  <2> QED
    BY <2>1, <2>2 DEF OnceIssued
<1>9. ASSUME NEW s \in Slots, Serve(s) PROVE OnceIssued'
  <2> DEFINE p == requests[s].payment
  <2>1. requests[s] # Idle /\ UNCHANGED <<issued, paysFor, charged>>
    BY <1>9 DEF Serve, Idle
  <2>2. p \in Payments
    BY <1>1, <2>1 DEF Request
  <2>3. /\ served'[p] > 0 /\ \A q \in Payments : served[q] > 0 => served'[q] > 0
        /\ \A j \in Invoices : invoices'[j].consumed => invoices[j].consumed \/ j = paysFor[p]
    BY <1>1, <1>9, <2>2 DEF Serve
  <2> QED
    BY <1>1, <2>1, <2>2, <2>3 DEF OnceIssued
<1>10. CASE UNCHANGED <<issued, invoices, paysFor, charged, served>>
  BY <1>10 DEF OnceIssued
<1> QED
  BY <1>3, <1>4, <1>5, <1>6, <1>7, <1>8, <1>9, <1>10 DEF Next, vars, Admit, Verified, Refuse

\* On a random id a buyer who was charged and not served is never turned away for
\* a consumed invoice, whatever overlaps, expires, is lost or restarts, for any
\* number of requests and whether or not the facilitator settles again
\* (src/middleware.ts:365-470).
THEOREM ChargedIsNeverConsumed == Spec => []ChargedIsNotConsumed
<1>1. Init => OnceIssued
  BY PaywallAssumption DEF Init, OnceIssued, Absent
<1>2. TypedInv /\ OnceIssued => ChargedIsNotConsumed
  BY DEF TypedInv, TypeOK, OnceIssued, ChargedIsNotConsumed
<1> QED
  BY TypedInit, TypedStep, OnceIssuedStep, <1>1, <1>2, PTL DEF Spec

-------------------------------------------------------------------------------
(* The replay window.                                                      *)

\* A call that waits for the block number has seen its receipt.
ReceiptSeen == \A s \in Verifications : calls[s].stage = "tip" => block[calls[s].tx] # 0

WindowInv == VerifierTypeOK /\ ReceiptSeen /\ ReplayWindowClosed

\* WindowInv holds initially: nothing is under way and nothing is accepted.
LEMMA WindowInit == VerifierInit => WindowInv
  BY VerifierAssumption
  DEF VerifierInit, WindowInv, VerifierTypeOK, Call, NoCall, ReceiptSeen, ReplayWindowClosed

\* Every step keeps WindowInv: blocks never change once they are set, and
\* Accept compares with the block that ReceiptSeen says is there.
LEMMA WindowStep == WindowInv /\ [VerifierNext]_verifierVars => WindowInv'
<1> SUFFICES ASSUME WindowInv, [VerifierNext]_verifierVars PROVE WindowInv'
  OBVIOUS
<1> USE VerifierAssumption DEF WindowInv, VerifierTypeOK, Call, NoCall, ReceiptSeen, ReplayWindowClosed, Paid
<1>1. CASE MineEmpty
  BY <1>1 DEF MineEmpty, answers
<1>2. ASSUME NEW t \in Txs, Mine(t) PROVE WindowInv'
  BY <1>2 DEF Mine, answers
<1>3. CASE Reboot
  BY <1>3 DEF Reboot, proved
<1>4. ASSUME NEW s \in Verifications, NEW t \in Txs, Start(s, t) PROVE WindowInv'
  BY <1>4 DEF Start, proved
<1>5. ASSUME NEW s \in Verifications, Receipt(s) PROVE WindowInv'
  BY <1>5 DEF Receipt, proved, answers
<1>6. ASSUME NEW s \in Verifications, Accept(s) PROVE WindowInv'
  BY <1>6 DEF Accept, proved, Recent
<1>7. ASSUME NEW s \in Verifications, RefuseProof(s) PROVE WindowInv'
  BY <1>7 DEF RefuseProof, proved, answers
<1>8. CASE UNCHANGED verifierVars
  BY <1>8 DEF verifierVars, proved, answers
<1> QED
  BY <1>1, <1>2, <1>3, <1>4, <1>5, <1>6, <1>7, <1>8 DEF VerifierNext

\* However calls overlap and however often the process restarts, only mined
\* payments are accepted, and only within maxBlockAge of their block.
THEOREM ReplayWindowAlwaysClosed == VerifierSpec => []ReplayWindowClosed
<1>1. WindowInv => ReplayWindowClosed
  BY DEF WindowInv
<1> QED
  BY WindowInit, WindowStep, <1>1, PTL DEF VerifierSpec

-------------------------------------------------------------------------------
(* Acceptance.                                                             *)

\* What the cache amounts to for a transaction that is not exposed: at most
\* one call is under way for it, none once it is accepted, and an accepted
\* one is in the cache.
Remembered ==
    \A t \in Txs \ exposed :
        /\ accepted[t] = 0 \/ (accepted[t] = 1 /\ t \in consumed)
        /\ \A s \in Verifications : calls[s].tx = t => t \notin consumed
        /\ \A s, r \in Verifications : calls[s].tx = t /\ calls[r].tx = t => s = r

RememberedInv == VerifierTypeOK /\ Remembered

\* RememberedInv holds initially.
LEMMA RememberedInit == VerifierInit => RememberedInv
  BY WindowInit, VerifierAssumption DEF WindowInv, VerifierInit, RememberedInv, Remembered, NoCall

\* Accept keeps Remembered: the call that ends was the only one for its
\* transaction, which goes into the cache.
LEMMA RememberedAccept ==
    ASSUME RememberedInv, NEW s \in Verifications, Accept(s)
    PROVE  Remembered'
<1> USE VerifierAssumption DEF RememberedInv, VerifierTypeOK, Call, NoCall
<1> DEFINE t == calls[s].tx
<1>1. /\ t \in Txs
      /\ consumed' = consumed \cup {t}
      /\ accepted' = [accepted EXCEPT ![t] = @ + 1]
      /\ calls' = [calls EXCEPT ![s] = NoCall]
      /\ exposed' = exposed
  BY DEF Accept
<1>2. SUFFICES ASSUME NEW u \in Txs \ exposed
               PROVE  /\ accepted'[u] = 0 \/ (accepted'[u] = 1 /\ u \in consumed')
                      /\ \A r \in Verifications : calls'[r].tx = u => u \notin consumed'
                      /\ \A r, q \in Verifications : calls'[r].tx = u /\ calls'[q].tx = u => r = q
  BY <1>1 DEF Remembered
<1>3. CASE u = t
  <2>1. accepted[u] = 0
    BY <1>3 DEF Remembered
  <2>2. \A r \in Verifications : calls'[r].tx # u
    BY <1>1, <1>3 DEF Remembered
  <2> QED
    BY <1>1, <1>3, <2>1, <2>2
<1>4. CASE u # t
  BY <1>1, <1>4 DEF Remembered
<1> QED
  BY <1>3, <1>4

\* Every step keeps Remembered: a second call for a transaction exposes it,
\* and so does a restart that clears it from the cache.
LEMMA RememberedStep ==
    ASSUME RememberedInv, [VerifierNext]_verifierVars
    PROVE  Remembered'
<1> USE VerifierAssumption DEF RememberedInv, VerifierTypeOK, Call, NoCall, Remembered
<1>1. CASE MineEmpty
  BY <1>1 DEF MineEmpty, answers
<1>2. ASSUME NEW t \in Txs, Mine(t) PROVE Remembered'
  BY <1>2 DEF Mine, answers
<1>3. CASE Reboot
  BY <1>3 DEF Reboot
<1>4. ASSUME NEW s \in Verifications, NEW t \in Txs, Start(s, t) PROVE Remembered'
  BY <1>4 DEF Start
<1>5. ASSUME NEW s \in Verifications, Receipt(s) PROVE Remembered'
  BY <1>5 DEF Receipt, answers
<1>6. ASSUME NEW s \in Verifications, Accept(s) PROVE Remembered'
  BY <1>6, RememberedAccept
<1>7. ASSUME NEW s \in Verifications, RefuseProof(s) PROVE Remembered'
  BY <1>7 DEF RefuseProof, answers
<1>8. CASE UNCHANGED verifierVars
  BY <1>8 DEF verifierVars, answers
<1> QED
  BY <1>1, <1>2, <1>3, <1>4, <1>5, <1>6, <1>7, <1>8 DEF VerifierNext

\* However many calls and restarts there are, a proof is accepted twice only
\* if two calls for it overlapped or a restart lost the cache.
THEOREM AcceptedAtMostOnce == VerifierSpec => []AcceptedOnce
<1>1. VerifierInit => WindowInv /\ RememberedInv
  BY WindowInit, RememberedInit
<1>2. WindowInv /\ RememberedInv /\ [VerifierNext]_verifierVars => WindowInv' /\ RememberedInv'
  BY WindowStep, RememberedStep DEF WindowInv, RememberedInv
<1>3. RememberedInv => AcceptedOnce
  <2> SUFFICES ASSUME RememberedInv, NEW t \in Txs \ exposed PROVE accepted[t] <= 1
    BY DEF AcceptedOnce, RememberedInv, VerifierTypeOK
  <2>1. accepted[t] = 0 \/ accepted[t] = 1
    BY DEF RememberedInv, Remembered
  <2> QED
    BY <2>1
<1> QED
  BY <1>1, <1>2, <1>3, PTL DEF VerifierSpec

-------------------------------------------------------------------------------
(* Refinement.                                                             *)

VerifierAccess ==
    INSTANCE PaidAccess WITH Payments <- Txs, charged <- Paid, served <- accepted

\* VerifierInit maps to AccessInit: nothing is mined and nothing is accepted.
LEMMA VerifierAccessInit == VerifierInit => VerifierAccess!AccessInit
  BY VerifierAssumption DEF VerifierInit, VerifierAccess!AccessInit, Paid

\* While nothing is exposed, every step is one of PaidAccess or stutters:
\* mining a matching transaction is Charge, Accept is Serve.
LEMMA VerifierAccessStep ==
    ASSUME WindowInv, Remembered, exposed = {}, [VerifierNext]_verifierVars
    PROVE  [VerifierAccess!AccessNext]_(VerifierAccess!accessVars)
<1> USE VerifierAssumption DEF WindowInv, VerifierTypeOK, Call, Paid, VerifierAccess!accessVars
<1>1. CASE MineEmpty
  BY <1>1 DEF MineEmpty, answers
<1>2. ASSUME NEW t \in Txs, Mine(t) PROVE [VerifierAccess!AccessNext]_(VerifierAccess!accessVars)
  <2>1. CASE t \in Matching
    <3>1. t \notin Paid /\ Paid' = Paid \cup {t}
      BY <1>2, <2>1 DEF Mine
    <3>2. VerifierAccess!Charge(t)
      BY <3>1, <1>2 DEF Mine, answers, VerifierAccess!Charge
    <3> QED
      BY <3>2 DEF VerifierAccess!AccessNext
  <2>2. CASE t \notin Matching
    <3>1. Paid' = Paid
      BY <1>2, <2>2 DEF Mine
    <3> QED
      BY <3>1, <1>2 DEF Mine, answers
  <2> QED
    BY <2>1, <2>2
<1>3. ASSUME NEW s \in Verifications, Accept(s)
      PROVE  [VerifierAccess!AccessNext]_(VerifierAccess!accessVars)
  <2> DEFINE t == calls[s].tx
  <2>1. t \in Txs /\ t \in Paid
    BY <1>3 DEF Accept, ReceiptSeen, NoCall
  <2>2. accepted[t] = 0
    BY <1>3, <2>1 DEF Remembered
  <2>3. VerifierAccess!Serve(t)
    BY <1>3, <2>1, <2>2 DEF Accept, proved, VerifierAccess!Serve
  <2> QED
    BY <2>1, <2>3 DEF VerifierAccess!AccessNext
<1>4. ASSUME UNCHANGED <<block, accepted>>
      PROVE  [VerifierAccess!AccessNext]_(VerifierAccess!accessVars)
  BY <1>4
<1>5. \/ UNCHANGED <<block, accepted>>
      \/ \E t \in Txs : Mine(t)
      \/ \E s \in Verifications : Accept(s)
  BY DEF VerifierNext, verifierVars, proved, answers, MineEmpty, Reboot, Start, Receipt, RefuseProof
<1> QED
  BY <1>2, <1>3, <1>4, <1>5

\* As long as no proof has been exposed, the verifier implements PaidAccess,
\* for any set of transactions: each is served at most once, and only if it
\* was mined and pays the merchant.
THEOREM VerifierImplementsPaidAccess ==
    VerifierSpec /\ [](exposed = {}) => VerifierAccess!AccessSpec
<1>1. VerifierInit => WindowInv /\ RememberedInv
  BY WindowInit, RememberedInit
<1>2. WindowInv /\ RememberedInv /\ [VerifierNext]_verifierVars => WindowInv' /\ RememberedInv'
  BY WindowStep, RememberedStep DEF WindowInv, RememberedInv
<1>3. WindowInv /\ RememberedInv /\ exposed = {} /\ [VerifierNext]_verifierVars
          => [VerifierAccess!AccessNext]_(VerifierAccess!accessVars)
  BY VerifierAccessStep DEF RememberedInv
<1> QED
  BY <1>1, <1>2, <1>3, VerifierAccessInit, PTL DEF VerifierSpec, VerifierAccess!AccessSpec

-------------------------------------------------------------------------------
(* Which rail a payment takes.  What the buyer gave away and what it sent  *)
(* follow from the challenge and the adapter that was picked for it; the   *)
(* paywall's tests then follow from what its route takes.                  *)

\* The adapter in use is that of the detected protocol, if the client has it,
\* and else claims the challenge.
Picked ==
    \/ rail = DetectProtocol(Offered)
    \/ Claims(rail, Offered) /\ \A i \in DOMAIN rails : rails[i] # DetectProtocol(Offered)

\* What was given away was asked for, or signed by x402 for its own chain.
Given ==
    \A p \in paid :
        \/ p[2] \in AsksFor(Offered)
        \/ /\ Offered.names = "none" /\ p \in {"signed"} \X EvmChains
           /\ \A i \in DOMAIN rails : rails[i] = DetectProtocol(Offered) => rails[i] = "x402"

\* The headers of the repeated request are those of a rail the challenge offers.
SentFor ==
    \/ rail \in {"x402", "celo-fee-abstracted"}
    \/ rail = "mpp" /\ sent = {"authorization"} /\ Offered.auth = "tempo"
    \/ rail = "xrpl" /\ sent = {"payment-signature"} /\ Offered.header = "xrpl"
    \/ rail = "stellar-x402" /\ Offered.header = "stellar"
    \/ rail = "stellar-mpp" /\ Offered.auth = "stellar"
    \/ rail = "nanopayment" /\ Offered.names = "circle"
    \/ rail = "morph-x402" /\ sent = {"x-payment-tx", "x-payment-network"} /\ Offered.header = "morph"
    \/ /\ rail = "flare-x402" /\ sent = {"x-payment"}
       /\ Offered.header = "flare" \/ Offered.names = "body"
    \/ rail = "cosmos-msgsend" /\ Offered.header = "initia"

\* What the rails never break.
RailsInv ==
    /\ rail # "goat"
    /\ at = "paying" => Picked
    /\ at \in {"new", "ready", "paying", "settling"} => sent = {}
    /\ at = "settling" => rail = "morph-x402" /\ Offered.header = "morph" /\ paid # {}
    /\ at = "repeated" => SentFor /\ (paid # {} \/ rail = "nanopayment")
    /\ at = "new" => rail = "none" /\ paid = {}
    /\ Given
    /\ rail \in {"x402-solana", "aave-gho"} => sent = {}
    /\ shop.takes # {} =>
          /\ at = "served" => paid # {}
          /\ at = "refused" /\ ~doubted => rail \in {"x402", "celo-fee-abstracted"} \/ ForeignNetwork

\* What a detected protocol, or a claim of an adapter, says of the challenge.
Reads(r, ch) ==
    /\ r # "goat"
    /\ r = "xrpl" => ch.header = "xrpl"
    /\ r = "stellar-x402" => ch.header = "stellar"
    /\ r = "stellar-mpp" => ch.auth = "stellar"
    /\ r = "nanopayment" => ch.names = "circle"
    /\ r = "morph-x402" => ch.header = "morph"
    /\ r = "cosmos-msgsend" => ch.header = "initia"

\* The protocol detectProtocol() names is one the challenge can be read for.
LEMMA DetectReads == ASSUME NEW ch PROVE Reads(DetectProtocol(ch), ch)
  BY DEF DetectProtocol, Reads

\* An adapter's detect() accepts only what the adapter can read.
LEMMA ClaimReads == ASSUME NEW ch, NEW r, Claims(r, ch) PROVE Reads(r, ch)
  BY DEF Claims, Reads

\* An adapter is picked for what it can read.
LEMMA PickedReads == Picked => Reads(rail, Offered)
  BY DetectReads, ClaimReads DEF Picked

\* The paywall's own challenges.
LEMMA OwnOffer ==
    ASSUME shop.takes # {}
    PROVE  /\ Offered.names = "asset" /\ Offered.auth \in {"none", "tempo"}
           /\ Takes("flare") => Offered.header = "flare" /\ Offered.auth = "none"
           /\ Takes("xrpl") /\ ~Takes("flare") => Offered.header = "xrpl" /\ Offered.auth = "none"
           /\ ~Takes("xrpl") /\ ~Takes("flare") =>
                 /\ Offered.auth = "tempo" <=> Takes("mpp")
                 /\ Takes("morph") => Offered.header = "morph"
                 /\ ~Takes("morph") /\ Takes("x402") => Offered.header = shop.other.header
                 /\ ~Takes("morph") /\ ~Takes("x402") => Offered.header = "none"
  <1>1. CASE Takes("flare")
    <2>1. Offered = [header |-> "flare", auth |-> "none", names |-> "asset"]
      BY <1>1 DEF Offered, Takes
    <2> QED BY <1>1, <2>1
  <1>2. CASE Takes("xrpl") /\ ~Takes("flare")
    <2>1. Offered = [header |-> "xrpl", auth |-> "none", names |-> "asset"]
      BY <1>2 DEF Offered, Takes
    <2> QED BY <1>2, <2>1
  <1>3. CASE ~Takes("xrpl") /\ ~Takes("flare")
    <2>1. Offered = [header |-> IF Takes("morph") THEN "morph"
                                ELSE IF Takes("x402") THEN shop.other.header ELSE "none",
                     auth |-> IF Takes("mpp") THEN "tempo" ELSE "none",
                     names |-> "asset"]
      BY <1>3, shop.takes # {} DEF Offered, Takes
    <2> QED BY <1>3, <2>1
  <1> QED BY <1>1, <1>2, <1>3

\* At the start nothing was picked or given.
LEMMA RailsInitially == RailsInit => RailsInv
  BY DEF RailsInit, RailsInv, Given

\* A repeated request that is turned away without a question was of x402, or
\* on a foreign network.
LEMMA TurnedAway ==
    ASSUME RailsInv, Paywall, shop.takes # {}, at' = "refused", doubted' = doubted
    PROVE  doubted \/ rail \in {"x402", "celo-fee-abstracted"} \/ ForeignNetwork
  <1>1. SentFor
    BY DEF RailsInv, Paywall
  <1>2. SUFFICES ASSUME ~doubted, rail \notin {"x402", "celo-fee-abstracted"}, ~ForeignNetwork
                 PROVE  FALSE
    OBVIOUS
  <1>3. ~Ask
    BY <1>2 DEF Ask
  <1>4. ~LetIn
    BY DEF LetIn
  <1>5. FlareOrXrpl \/ Others
    BY DEF Paywall
  <1>6. CASE FlareOrXrpl
    <2>1. CASE Takes("flare")
      <3>1. "x-payment" \notin sent
        BY <1>3, <1>6, <2>1 DEF FlareOrXrpl
      <3> QED BY <1>1, <1>2, <2>1, <3>1, OwnOffer DEF SentFor
    <2>2. CASE ~Takes("flare")
      <3>1. Takes("xrpl") /\ "payment-signature" \notin sent
        BY <1>3, <1>6, <2>2 DEF FlareOrXrpl, Takes
      <3> QED BY <1>1, <1>2, <2>2, <3>1, OwnOffer DEF SentFor
    <2> QED BY <2>1, <2>2
  <1>7. CASE Others
    <2>1. ~Takes("flare") /\ ~Takes("xrpl")
      BY <1>7 DEF Others, Takes
    <2>2. ~(Takes("x402") /\ X402Headers)
      BY <1>3, <1>4, <1>7 DEF Others
    <2>3. ~(Takes("mpp") /\ "authorization" \in sent)
      BY <1>4, <1>7, <2>2 DEF Others
    <2>4. ~(Takes("morph") /\ {"x-payment-tx", "x-payment-network"} \subseteq sent)
      BY <1>4, <1>7, <2>2, <2>3 DEF Others
    <2>5. CASE rail = "morph-x402"
      <3>1. "x-payment-tx" \in sent /\ "x-payment-network" \in sent /\ Offered.header = "morph"
        BY <1>1, <2>5 DEF SentFor
      <3>2. ~Takes("morph") /\ ~Takes("x402")
        BY <2>2, <2>4, <3>1 DEF X402Headers
      <3> QED BY <2>1, <3>1, <3>2, OwnOffer
    <2>6. CASE rail = "mpp"
      BY <1>1, <2>1, <2>3, <2>6, OwnOffer DEF SentFor
    <2>7. CASE rail = "xrpl"
      <3>1. "payment-signature" \in sent /\ Offered.header = "xrpl"
        BY <1>1, <2>7 DEF SentFor
      <3> QED BY <1>2, <2>1, <2>2, <3>1, OwnOffer DEF ForeignNetwork, X402Headers, EvmChains
    <2>8. CASE rail \in {"stellar-x402", "flare-x402", "cosmos-msgsend"}
      <3>1. Offered.header \in {"stellar", "flare", "initia"}
        BY <1>1, <2>1, <2>8, OwnOffer DEF SentFor
      <3> QED BY <1>2, <2>1, <3>1, OwnOffer DEF ForeignNetwork, EvmChains
    <2> QED BY <1>1, <1>2, <2>5, <2>6, <2>7, <2>8, OwnOffer DEF SentFor
  <1> QED BY <1>5, <1>6, <1>7

\* One pay() gives what was asked for, on the rail that was picked.
LEMMA PayStep ==
    ASSUME RailsInv, at = "paying", NEW gives, NEW headers, Repeats(gives, headers),
           \A p \in gives : \/ p[2] \in AsksFor(Offered)
                            \/ /\ Offered.names = "none" /\ p \in {"signed"} \X EvmChains
                               /\ rail \in {"x402", "celo-fee-abstracted"},
           gives # {} \/ rail = "nanopayment",
           rail \notin {"x402-solana", "aave-gho"},
           SentFor'
    PROVE  RailsInv'
  <1>1. /\ conf' = conf /\ shop' = shop /\ rails' = rails /\ rail' = rail /\ doubted' = doubted
        /\ at' = "repeated" /\ paid' = paid \cup gives /\ sent' = headers
    BY DEF Repeats
  <1>2. Offered' = Offered /\ AsksFor(Offered)' = AsksFor(Offered)
    BY <1>1 DEF Offered, AsksFor
  <1>3. DetectProtocol(Offered)' = DetectProtocol(Offered)
    BY <1>1, <1>2 DEF DetectProtocol
  <1>4. Picked
    BY DEF RailsInv
  <1>6. ASSUME NEW i \in DOMAIN rails, rail \in {"x402", "celo-fee-abstracted"},
               rails[i] = DetectProtocol(Offered)
        PROVE  rails[i] = "x402"
    <2>1. rail = DetectProtocol(Offered)
      BY <1>4, <1>6 DEF Picked
    <2>2. DetectProtocol(Offered) # "celo-fee-abstracted"
      BY DEF DetectProtocol
    <2> QED BY <1>6, <2>1, <2>2
  <1>7. Given'
    <2>1. SUFFICES ASSUME NEW p \in paid \cup gives
                   PROVE  \/ p[2] \in AsksFor(Offered)
                          \/ /\ Offered.names = "none" /\ p \in {"signed"} \X EvmChains
                             /\ \A i \in DOMAIN rails :
                                   rails[i] = DetectProtocol(Offered) => rails[i] = "x402"
      BY <1>1, <1>2, <1>3 DEF Given
    <2>2. CASE p \in paid
      BY <2>2 DEF RailsInv, Given
    <2>3. CASE p \in gives
      BY <1>6, <2>3
    <2> QED BY <2>1, <2>2, <2>3
  <1> QED BY <1>1, <1>7 DEF RailsInv

\* Whatever leaves the choice and the gifts as they are keeps what is known of them.
LEMMA GiftsStand ==
    ASSUME RailsInv, shop' = shop, conf' = conf, rails' = rails, paid' = paid
    PROVE  /\ Given' /\ ForeignNetwork' = ForeignNetwork /\ Offered' = Offered
           /\ DetectProtocol(Offered)' = DetectProtocol(Offered)
  <1>1. Offered' = Offered /\ AsksFor(Offered)' = AsksFor(Offered)
    BY DEF Offered, AsksFor
  <1>2. DetectProtocol(Offered)' = DetectProtocol(Offered)
    BY <1>1 DEF DetectProtocol
  <1>3. Given'
    BY <1>1, <1>2 DEF RailsInv, Given
  <1>4. ForeignNetwork' = ForeignNetwork
    BY DEF ForeignNetwork, Takes
  <1> QED BY <1>1, <1>2, <1>3, <1>4

\* The choice takes an adapter of the client's list.
LEMMA ChooseStep == RailsInv /\ Choose => RailsInv'
  <1> SUFFICES ASSUME RailsInv, Choose PROVE RailsInv'
    OBVIOUS
  <1>1. /\ at = "ready" /\ shop' = shop /\ conf' = conf /\ rails' = rails /\ paid' = paid
        /\ sent' = sent /\ doubted' = doubted
        /\ \/ at' = "threw" /\ rail' = rail
           \/ at' = "paying" /\ \E i \in Candidates(Offered) : rail' = rails[i]
    BY DEF Choose, Picks, Earliest
  <1>2. sent = {}
    BY <1>1 DEF RailsInv
  <1>3. CASE at' = "threw" /\ rail' = rail
    BY <1>1, <1>2, <1>3, GiftsStand DEF RailsInv
  <1>4. ASSUME at' = "paying", NEW i \in Candidates(Offered), rail' = rails[i]
        PROVE  RailsInv'
    <2>1. \/ rails[i] = DetectProtocol(Offered)
          \/ Claims(rails[i], Offered) /\ \A j \in DOMAIN rails : rails[j] # DetectProtocol(Offered)
      BY <1>4 DEF Candidates, Named, Claiming
    <2>2. Offered' = Offered /\ DetectProtocol(Offered)' = DetectProtocol(Offered)
      BY <1>1, GiftsStand
    <2>3. Claims(rail, Offered)' = Claims(rails[i], Offered)
      BY <1>4, <2>2 DEF Claims
    <2>4. Picked'
      BY <1>1, <1>4, <2>1, <2>2, <2>3 DEF Picked
    <2>5. rail' # "goat"
      <3> DEFINE ch == Offered
      <3> HIDE DEF ch
      <3>1. DetectProtocol(ch) # "goat" /\ ~Claims("goat", ch)
        BY DEF DetectProtocol, Claims
      <3> QED BY <1>4, <2>1, <3>1 DEF ch
    <2> QED BY <1>1, <1>2, <1>4, <2>4, <2>5, GiftsStand DEF RailsInv
  <1> QED BY <1>1, <1>3, <1>4

\* Each rail's pay() gives what the challenge it was picked for asks.
LEMMA PaysStep ==
    ASSUME RailsInv,
           \/ PayX402 \/ PayMpp \/ PayXrpl \/ PayStellarX402 \/ PayStellarMpp \/ PayCircle
           \/ PayFlare \/ PayInitia
    PROVE  RailsInv'
  <1>1. at = "paying" /\ Picked
    BY DEF RailsInv, PayX402, PayMpp, PayXrpl, PayStellarX402, PayStellarMpp, PayCircle, PayFlare, PayInitia
  <1>2. /\ \A gives, headers : Repeats(gives, headers) =>
              rail' = rail /\ sent' = headers /\ shop' = shop /\ conf' = conf /\ rails' = rails /\ paid' = paid \cup gives
        /\ shop' = shop => Offered' = Offered
    BY DEF Repeats, Offered
  <1>3. Offered.header \in AsksFor(Offered)
        /\ (Offered.auth # "none" => Offered.auth \in AsksFor(Offered))
        /\ (Offered.names = "body" => "flare" \in AsksFor(Offered))
    BY DEF AsksFor
  <1>4. CASE PayX402
    <2>1. PICK chain \in EvmChains :
            /\ Offered.header = chain \/ Offered.names = "none"
            /\ Repeats({<<"signed", chain>>}, {"x-payment"})
      BY <1>4 DEF PayX402
    <2>2. SentFor' /\ rail \in {"x402", "celo-fee-abstracted"}
      BY <1>2, <1>4, <2>1 DEF SentFor, PayX402
    <2>3. \A p \in {<<"signed", chain>>} :
             \/ p[2] \in AsksFor(Offered)
             \/ /\ Offered.names = "none" /\ p \in {"signed"} \X EvmChains
                /\ rail \in {"x402", "celo-fee-abstracted"}
      BY <1>3, <2>1, <2>2
    <2> QED BY <1>1, <2>1, <2>2, <2>3, PayStep
  <1>5. CASE PayMpp
    <2>1. Repeats({<<"moved", "tempo">>}, {"authorization"}) /\ rail = "mpp" /\ Offered.auth = "tempo"
      BY <1>5 DEF PayMpp
    <2>2. SentFor'
      BY <1>2, <2>1 DEF SentFor
    <2>3. \A p \in {<<"moved", "tempo">>} : p[2] \in AsksFor(Offered)
      BY <1>3, <2>1
    <2>4. {<<"moved", "tempo">>} # {} /\ rail \notin {"x402-solana", "aave-gho"}
      BY <2>1
    <2> QED BY <1>1, <2>1, <2>2, <2>3, <2>4, PayStep
  <1>6. CASE PayXrpl
    <2>1. Repeats({<<"signed", "xrpl">>}, {"payment-signature"}) /\ rail = "xrpl" /\ Offered.header = "xrpl"
      BY <1>6 DEF PayXrpl
    <2>2. SentFor'
      BY <1>2, <2>1 DEF SentFor
    <2>3. \A p \in {<<"signed", "xrpl">>} : p[2] \in AsksFor(Offered)
      BY <1>3, <2>1
    <2>4. {<<"signed", "xrpl">>} # {} /\ rail \notin {"x402-solana", "aave-gho"}
      BY <2>1
    <2> QED BY <1>1, <2>1, <2>2, <2>3, <2>4, PayStep
  <1>7. CASE PayStellarX402
    <2>1. /\ Repeats({<<"signed", "stellar">>}, {"x-payment-signature"}) /\ rail = "stellar-x402"
          /\ Offered.header = "stellar"
      BY <1>1, <1>7, PickedReads DEF PayStellarX402, Reads
    <2>2. SentFor'
      BY <1>2, <2>1 DEF SentFor
    <2>3. \A p \in {<<"signed", "stellar">>} : p[2] \in AsksFor(Offered)
      BY <1>3, <2>1
    <2>4. {<<"signed", "stellar">>} # {} /\ rail \notin {"x402-solana", "aave-gho"}
      BY <2>1
    <2> QED BY <1>1, <2>1, <2>2, <2>3, <2>4, PayStep
  <1>8. CASE PayStellarMpp
    <2>1. /\ Repeats({<<"signed", "stellar">>}, {"authorization"}) /\ rail = "stellar-mpp"
          /\ Offered.auth = "stellar"
      BY <1>1, <1>8, PickedReads DEF PayStellarMpp, Reads
    <2>2. SentFor'
      BY <1>2, <2>1 DEF SentFor
    <2>3. \A p \in {<<"signed", "stellar">>} : p[2] \in AsksFor(Offered)
      BY <1>3, <2>1
    <2>4. {<<"signed", "stellar">>} # {} /\ rail \notin {"x402-solana", "aave-gho"}
      BY <2>1
    <2> QED BY <1>1, <2>1, <2>2, <2>3, <2>4, PayStep
  <1>9. CASE PayCircle
    <2>1. Repeats({}, {"x-payment-authorization"}) /\ rail = "nanopayment" /\ Offered.names = "circle"
      BY <1>1, <1>9, PickedReads DEF PayCircle, Reads
    <2>2. SentFor'
      BY <1>2, <2>1 DEF SentFor
    <2> QED BY <1>1, <2>1, <2>2, PayStep
  <1>10. CASE PayFlare
    <2>1. /\ Repeats({<<"signed", "flare">>}, {"x-payment"}) /\ rail = "flare-x402"
          /\ Offered.header = "flare" \/ Offered.names = "body"
      BY <1>10 DEF PayFlare
    <2>2. SentFor'
      BY <1>2, <2>1 DEF SentFor
    <2>3. \A p \in {<<"signed", "flare">>} : p[2] \in AsksFor(Offered)
      BY <1>3, <2>1
    <2>4. {<<"signed", "flare">>} # {} /\ rail \notin {"x402-solana", "aave-gho"}
      BY <2>1
    <2> QED BY <1>1, <2>1, <2>2, <2>3, <2>4, PayStep
  <1>11. CASE PayInitia
    <2>1. /\ Repeats({<<"moved", "initia">>}, {"x-payment"}) /\ rail = "cosmos-msgsend"
          /\ Offered.header = "initia"
      BY <1>1, <1>11, PickedReads DEF PayInitia, Reads
    <2>2. SentFor'
      BY <1>2, <2>1 DEF SentFor
    <2>3. \A p \in {<<"moved", "initia">>} : p[2] \in AsksFor(Offered)
      BY <1>3, <2>1
    <2>4. {<<"moved", "initia">>} # {} /\ rail \notin {"x402-solana", "aave-gho"}
      BY <2>1
    <2> QED BY <1>1, <2>1, <2>2, <2>3, <2>4, PayStep
  <1> QED BY <1>4, <1>5, <1>6, <1>7, <1>8, <1>9, <1>10, <1>11

\* Every step keeps the invariant.
LEMMA RailsStep == RailsInv /\ [RailsNext]_railsVars => RailsInv'
  <1> SUFFICES ASSUME RailsInv, [RailsNext]_railsVars PROVE RailsInv'
    OBVIOUS
  <1>1. CASE UNCHANGED railsVars
    <2>1. /\ shop' = shop /\ conf' = conf /\ rails' = rails /\ paid' = paid /\ sent' = sent /\ at' = at
          /\ rail' = rail /\ doubted' = doubted
      BY <1>1 DEF railsVars
    <2>2. Given' /\ ForeignNetwork' = ForeignNetwork /\ Offered' = Offered
      BY <2>1, GiftsStand
    <2>3. Picked' = Picked /\ SentFor' = SentFor
      BY <2>1, <2>2, GiftsStand DEF Picked, SentFor, Claims
    <2> QED BY <2>1, <2>2, <2>3 DEF RailsInv
  <1>2. CASE Construct
    <2>1. /\ at = "new" /\ at' \in {"threw", "ready"} /\ shop' = shop /\ rail' = rail /\ sent' = sent
          /\ paid' = paid
      BY <1>2 DEF Construct
    <2>2. rail = "none" /\ paid = {} /\ sent = {}
      BY <2>1 DEF RailsInv
    <2> QED BY <2>1, <2>2 DEF RailsInv, Given
  <1>3. CASE Choose
    BY <1>3, ChooseStep
  <1>4. CASE CallAgain \/ PayThrows
    <2>1. /\ shop' = shop /\ conf' = conf /\ rails' = rails /\ paid' = paid /\ doubted' = doubted
          /\ \/ at' = "ready" /\ rail' = "none" /\ sent' = {}
             \/ at = "paying" /\ at' = "threw" /\ rail' = rail /\ sent' = sent
      BY <1>4 DEF CallAgain, PayThrows
    <2> QED BY <2>1, GiftsStand DEF RailsInv
  <1>5. CASE Paywall
    <2>1. /\ at = "repeated" /\ shop' = shop /\ conf' = conf /\ rails' = rails /\ paid' = paid
          /\ rail' = rail /\ sent' = sent
          /\ \/ at' = "served" /\ doubted' = doubted
             \/ at' = "refused" /\ doubted' = TRUE
             \/ at' = "refused" /\ doubted' = doubted
      BY <1>5 DEF Paywall, FlareOrXrpl, Others, Ask, LetIn, TurnAway
    <2>2. shop.takes # {} => paid # {}
      BY <2>1, OwnOffer DEF RailsInv, SentFor
    <2>3. shop.takes # {} /\ at' = "refused" /\ ~doubted' =>
             rail \in {"x402", "celo-fee-abstracted"} \/ ForeignNetwork
      BY <1>5, <2>1, TurnedAway
    <2> QED BY <2>1, <2>2, <2>3, GiftsStand DEF RailsInv
  <1>6. CASE \/ PayX402 \/ PayMpp \/ PayXrpl \/ PayStellarX402 \/ PayStellarMpp \/ PayCircle
             \/ PayFlare \/ PayInitia
    BY <1>6, PaysStep
  <1>7. CASE PayMorph
    <2>1. /\ at = "paying" /\ rail = "morph-x402" /\ at' = "settling" /\ paid' = paid \cup {MorphGives}
          /\ shop' = shop /\ conf' = conf /\ rails' = rails /\ rail' = rail /\ sent' = sent
      BY <1>7 DEF PayMorph
    <2>2. Offered.header = "morph"
      BY <2>1, PickedReads DEF RailsInv, Reads
    <2>3. Offered' = Offered /\ DetectProtocol(Offered)' = DetectProtocol(Offered)
      BY <2>1 DEF Offered, DetectProtocol
    <2>4. MorphGives[2] = "morph" /\ "morph" \in AsksFor(Offered)
      BY <2>2 DEF MorphGives, AsksFor
    <2>5. AsksFor(Offered)' = AsksFor(Offered)
      BY <2>3 DEF AsksFor
    <2>6. Given'
      BY <2>1, <2>3, <2>4, <2>5 DEF RailsInv, Given
    <2>7. paid' # {}
      BY <2>1
    <2> QED BY <2>1, <2>2, <2>3, <2>6, <2>7 DEF RailsInv
  <1>8. CASE SettleMorph
    <2>1. /\ at = "settling" /\ at' = "repeated" /\ sent' = {"x-payment-tx", "x-payment-network"}
          /\ shop' = shop /\ conf' = conf /\ rails' = rails /\ rail' = rail
          /\ paid' = paid \cup {<<"moved", "morph">>}
      BY <1>8 DEF SettleMorph, Repeats
    <2>2. rail = "morph-x402" /\ Offered.header = "morph"
      BY <2>1 DEF RailsInv
    <2>3. Offered' = Offered /\ DetectProtocol(Offered)' = DetectProtocol(Offered)
      BY <2>1 DEF Offered, DetectProtocol
    <2>4. "morph" \in AsksFor(Offered) /\ AsksFor(Offered)' = AsksFor(Offered)
      BY <2>2, <2>3 DEF AsksFor
    <2>5. Given'
      BY <2>1, <2>3, <2>4 DEF RailsInv, Given
    <2>6. SentFor' /\ paid' # {}
      BY <2>1, <2>2, <2>3 DEF SentFor
    <2> QED BY <2>1, <2>2, <2>5, <2>6 DEF RailsInv
  <1>9. CASE MorphSettleFails
    <2>1. /\ at = "settling" /\ at' = "threw" /\ shop' = shop /\ conf' = conf /\ rails' = rails
          /\ rail' = rail /\ sent' = sent /\ paid' = paid
      BY <1>9 DEF MorphSettleFails
    <2> QED BY <2>1, GiftsStand DEF RailsInv
  <1> QED BY <1>1, <1>2, <1>3, <1>4, <1>5, <1>6, <1>7, <1>8, <1>9 DEF RailsNext

\* For any configurations and merchants, any order of adapters and any number of calls:
\* a buyer gives only what it was asked for, with the one exception of a challenge that
\* names no asset; nobody is served who gave nothing; and only the x402 buyer, and
\* whoever pays on the foreign network an x402 route names, is turned away without a
\* question (client.ts:485-497, detect.ts:13-50, middleware.ts:118-182).
THEOREM RailsAlwaysHold == RailsSpec => []RailsHold
  <1>1. RailsInv => RailsHold
    BY DEF RailsInv, RailsHold, Given
  <1> QED BY <1>1, RailsInitially, RailsStep, PTL DEF RailsSpec

-------------------------------------------------------------------------------
(* The wallet behind the EVM rails.                                        *)

\* Where a call of the wallet may be, and what it may hold.
WalletCalls ==
    [at : {"idle", "waiting", "looking", "dripping", "counting", "sending",
           "receipt", "done", "threw", "nonceTaken"},
     kind : NumberKinds \cup CaipKinds, family : Families,
     acct : Accounts \cup {"none"}, nonce : Nat]

\* The types, without the bounds of the counters.
WalletTyped ==
    /\ setup \in [key : BOOLEAN, sdk : BOOLEAN, evm : BOOLEAN, faucet : BOOLEAN]
    /\ driver \in {"loading", "yes", "no"}
    /\ wops \in [WalletOps -> WalletCalls]
    /\ mined \in [Accounts -> SUBSET WalletOps] /\ pool \in [Accounts -> SUBSET WalletOps]
    /\ gas \in BOOLEAN /\ drips \in Nat

\* How many transactions an account has sent.
SentBy(a) == Cardinality(mined[a]) + Cardinality(pool[a])

\* An account's nonces are below the number of its transactions, each of which is
\* of a call that used the account and is past sending.
NoncesFit ==
    \A a \in Accounts :
        /\ mined[a] \cap pool[a] = {}
        /\ \A p \in mined[a] \cup pool[a] :
              /\ wops[p].acct = a /\ wops[p].at \in {"receipt", "done", "threw"}
              /\ wops[p].nonce < SentBy(a)

\* What is known of a call by where it is.
CallStands(o) ==
    /\ wops[o].at \in {"looking", "dripping", "counting", "sending", "receipt", "nonceTaken"} =>
          wops[o].kind \in SendKinds /\ wops[o].acct \in Accounts
    /\ wops[o].at = "done" /\ wops[o].kind \in SendKinds => wops[o].acct \in Accounts
    /\ wops[o].at \in {"looking", "dripping", "receipt"} => wops[o].acct = "key"
    /\ wops[o].at = "counting" => ~(wops[o].kind = "caipSend" /\ wops[o].acct = "driver")
    /\ wops[o].at = "sending" =>
          wops[o].nonce <= SentBy(wops[o].acct)
    /\ wops[o].at = "receipt" => o \in mined["key"] \cup pool["key"]
    /\ wops[o].at \in {"idle", "waiting"} => wops[o].acct = "none" /\ wops[o].nonce = 0
    /\ wops[o].kind \in NumberKinds => wops[o].family = "evm"

\* What WalletHolds says of one call.
CallHolds(o) ==
    /\ wops[o].at = "done" /\ wops[o].kind \in SendKinds =>
          o \in mined[wops[o].acct] \cup (IF wops[o].acct = "driver" THEN pool["driver"] ELSE {})
    /\ wops[o].acct = "key" =>
          /\ wops[o].family = "evm" /\ setup.key
          /\ wops[o].kind \in NumberKinds \ {"typed"} => driver = "no"
    /\ wops[o].acct = "driver" => driver = "yes" /\ wops[o].kind # "typed"
    /\ wops[o].at = "nonceTaken" =>
          \E p \in mined[wops[o].acct] \cup pool[wops[o].acct] :
              p # o /\ wops[p].nonce = wops[o].nonce
    /\ drips > 0 /\ wops[o].at = "looking" => gas

\* What is known of the wallet: once the faucet has paid, the key has gas.
WalletInv ==
    /\ WalletTyped /\ NoncesFit
    /\ \A o \in WalletOps : CallStands(o) /\ CallHolds(o)
    /\ drips > 0 => gas

\* Nothing has happened at first.
LEMMA WalletInitially == WalletInit => WalletInv
<1> SUFFICES ASSUME WalletInit PROVE WalletInv
  OBVIOUS
<1>1. NoOp \in WalletCalls
  BY DEF NoOp, WalletCalls, NumberKinds, CaipKinds, Families, Accounts
<1>2. WalletTyped
  BY <1>1 DEF WalletInit, WalletTyped
<1>3. NoncesFit
  BY DEF WalletInit, NoncesFit
<1>4. ASSUME NEW o \in WalletOps PROVE CallStands(o) /\ CallHolds(o)
  BY <1>4 DEF WalletInit, CallStands, CallHolds, NoOp, SendKinds
<1> QED BY <1>2, <1>3, <1>4 DEF WalletInit, WalletInv

\* Transactions are of finitely many calls, and can be counted.
LEMMA CallsCount == \A s \in SUBSET WalletOps : IsFiniteSet(s) /\ Cardinality(s) \in Nat
  BY WalletAssumption, FS_Subset, FS_CardinalityType

\* So is the number of an account's transactions.
LEMMA SentCounts == WalletTyped => \A a \in Accounts : SentBy(a) \in Nat
  BY CallsCount DEF WalletTyped, SentBy

\* A call that does not move keeps what is known of it, as long as nothing is
\* taken off the chain and no nonce there changes.
LEMMA CallRests ==
  ASSUME WalletInv, WalletTyped', NEW o \in WalletOps, wops'[o] = wops[o], setup' = setup,
         \/ driver' = driver
         \/ /\ wops[o].acct # "driver"
            /\ wops[o].acct = "key" => wops[o].kind \notin NumberKinds \ {"typed"},
         \A a \in Accounts : SentBy(a) <= SentBy(a)' /\ mined[a] \subseteq mined'[a]
                             /\ mined[a] \cup pool[a] \subseteq mined'[a] \cup pool'[a],
         \A a \in Accounts : \A p \in mined[a] \cup pool[a] : wops'[p].nonce = wops[p].nonce,
         drips' > 0 => gas'
  PROVE  CallStands(o)' /\ CallHolds(o)'
<1>1. CallStands(o) /\ CallHolds(o) /\ wops[o] \in WalletCalls
  BY DEF WalletInv, WalletTyped
<1>2. CallStands(o)'
  <2>1. wops[o].at = "sending" => wops[o].nonce <= SentBy(wops[o].acct)'
    <3>1. SUFFICES ASSUME wops[o].at = "sending" PROVE wops[o].nonce <= SentBy(wops[o].acct)'
      OBVIOUS
    <3>2. wops[o].acct \in Accounts /\ wops[o].nonce <= SentBy(wops[o].acct)
      BY <1>1, <3>1 DEF CallStands
    <3>3. wops[o].nonce \in Nat /\ SentBy(wops[o].acct) \in Nat
      BY <1>1, <3>2, SentCounts DEF WalletInv, WalletCalls
    <3>4. \A a \in Accounts : SentBy(a)' \in Nat
      BY CallsCount DEF WalletTyped, SentBy
    <3>5. SentBy(wops[o].acct) <= SentBy(wops[o].acct)' /\ SentBy(wops[o].acct)' \in Nat
      BY <3>2, <3>4
    <3> QED BY <3>2, <3>3, <3>5
  <2>2. wops[o].at = "receipt" => o \in mined'["key"] \cup pool'["key"]
    BY <1>1 DEF CallStands, Accounts
  <2> QED BY <1>1, <2>1, <2>2 DEF CallStands
<1>3. CallHolds(o)'
  <2>1. wops[o].at = "done" /\ wops[o].kind \in SendKinds =>
          o \in mined'[wops[o].acct] \cup (IF wops[o].acct = "driver" THEN pool'["driver"] ELSE {})
    BY <1>1 DEF CallHolds, CallStands, Accounts
  <2>2. wops[o].at = "nonceTaken" =>
          \E p \in mined'[wops[o].acct] \cup pool'[wops[o].acct] :
              p # o /\ wops'[p].nonce = wops[o].nonce
    BY <1>1 DEF CallHolds, CallStands
  <2>3. /\ wops[o].acct = "key" =>
              /\ wops[o].family = "evm" /\ setup.key
              /\ wops[o].kind \in NumberKinds \ {"typed"} => driver' = "no"
        /\ wops[o].acct = "driver" => driver' = "yes" /\ wops[o].kind # "typed"
    BY <1>1 DEF CallHolds
  <2> QED BY <2>1, <2>2, <2>3 DEF CallHolds
<1> QED BY <1>2, <1>3

\* A call that only moves on, or chooses its account, leaves the chain as it was.
LEMMA CallMoves ==
  ASSUME WalletInv, NEW o \in WalletOps, NEW r \in WalletCalls,
         wops' = [wops EXCEPT ![o] = r], setup' = setup, driver' = driver,
         mined' = mined, pool' = pool,
         \/ wops[o].at \notin {"receipt", "done", "threw"}
         \/ r.at \in {"done", "threw"} /\ r.acct = wops[o].acct /\ r.nonce = wops[o].nonce,
         gas' \in BOOLEAN, drips' \in Nat, drips' > 0 => gas',
         CallStands(o)', CallHolds(o)'
  PROVE  WalletInv'
<1>1. WalletTyped'
  BY DEF WalletInv, WalletTyped
<1>2. /\ wops'[o] = r /\ \A q \in WalletOps \ {o} : wops'[q] = wops[q]
      /\ \A a \in Accounts : SentBy(a)' = SentBy(a)
  BY DEF WalletInv, WalletTyped, SentBy
<1>3. ASSUME NEW a \in Accounts, NEW p \in mined[a] \cup pool[a]
      PROVE  /\ wops'[p].acct = a /\ wops'[p].at \in {"receipt", "done", "threw"}
             /\ wops'[p].nonce = wops[p].nonce
  <2>1. p \in WalletOps /\ wops[p].acct = a /\ wops[p].at \in {"receipt", "done", "threw"}
    BY DEF WalletInv, WalletTyped, NoncesFit
  <2>2. CASE p = o
    BY <1>2, <2>1, <2>2
  <2>3. CASE p # o
    BY <1>2, <2>1, <2>3
  <2> QED BY <2>2, <2>3
<1>4. NoncesFit'
  BY <1>2, <1>3 DEF WalletInv, NoncesFit
<1>5. ASSUME NEW q \in WalletOps PROVE CallStands(q)' /\ CallHolds(q)'
  <2>1. CASE q = o
    BY <2>1
  <2>2. CASE q # o
    <3>1. wops'[q] = wops[q]
      BY <1>2, <2>2
    <3>2. \A a \in Accounts : SentBy(a) <= SentBy(a)' /\ mined[a] \subseteq mined'[a]
                              /\ mined[a] \cup pool[a] \subseteq mined'[a] \cup pool'[a]
      BY <1>2, SentCounts DEF WalletInv
    <3> QED BY <1>1, <1>3, <3>1, <3>2, CallRests
  <2> QED BY <2>1, <2>2
<1> QED BY <1>1, <1>4, <1>5 DEF WalletInv

\* The driver is there, or will not be; no call has chosen an account that speaks
\* against it.
LEMMA DriverStep == WalletInv /\ DriverReady => WalletInv'
<1> SUFFICES ASSUME WalletInv, DriverReady PROVE WalletInv'
  OBVIOUS
<1>1. /\ driver = "loading" /\ driver' \in {"yes", "no"} /\ setup' = setup /\ wops' = wops
      /\ mined' = mined /\ pool' = pool /\ gas' = gas /\ drips' = drips
  BY DEF DriverReady, chainVars
<1>2. WalletTyped' /\ NoncesFit' /\ \A a \in Accounts : SentBy(a)' = SentBy(a)
  BY <1>1 DEF WalletInv, WalletTyped, NoncesFit, SentBy
<1>3. ASSUME NEW q \in WalletOps PROVE CallStands(q)' /\ CallHolds(q)'
  <2>1. /\ wops[q].acct # "driver"
        /\ wops[q].acct = "key" => wops[q].kind \notin NumberKinds \ {"typed"}
    BY <1>1 DEF WalletInv, CallHolds
  <2>2. \A a \in Accounts : SentBy(a) <= SentBy(a)' /\ mined[a] \subseteq mined'[a]
                            /\ mined[a] \cup pool[a] \subseteq mined'[a] \cup pool'[a]
    BY <1>1, <1>2, SentCounts DEF WalletInv
  <2>3. /\ wops'[q] = wops[q] /\ drips' > 0 => gas'
        /\ \A a \in Accounts : \A p \in mined[a] \cup pool[a] : wops'[p].nonce = wops[p].nonce
    BY <1>1 DEF WalletInv
  <2> QED BY <1>1, <1>2, <2>1, <2>2, <2>3, CallRests
<1> QED BY <1>1, <1>2, <1>3 DEF WalletInv

\* Where a call goes that has its account.
LEMMA OnwardGoes ==
  ASSUME NEW kind, NEW acct
  PROVE  /\ Onward(kind, acct) \in {"done", "looking", "sending", "counting"}
         /\ Onward(kind, acct) = "done" <=> kind \notin SendKinds
         /\ Onward(kind, acct) = "looking" => acct = "key"
         /\ Onward(kind, acct) = "counting" => ~(kind = "caipSend" /\ acct = "driver")
  BY DEF Onward, SendKinds

\* Starting or resuming a call chooses an account the wallet has.
LEMMA ChoiceStep ==
  ASSUME WalletInv, NEW o \in WalletOps,
         \/ \E kind \in CaipKinds, family \in Families : StartCaip(o, kind, family)
         \/ \E kind \in NumberKinds : StartNumber(o, kind)
         \/ Resume(o)
  PROVE  WalletInv'
<1>1. /\ wops[o] \in WalletCalls /\ CallStands(o) /\ CallHolds(o) /\ wops[o].at \in {"idle", "waiting"}
      /\ setup' = setup /\ driver' = driver /\ mined' = mined /\ pool' = pool /\ gas' = gas /\ drips' = drips
      /\ drips \in Nat /\ gas \in BOOLEAN /\ (drips > 0 => gas) /\ setup.key \in BOOLEAN
      /\ driver \in {"loading", "yes", "no"} /\ wops \in [WalletOps -> WalletCalls]
      /\ \A a \in Accounts : SentBy(a) \in Nat
  BY SentCounts DEF WalletInv, WalletTyped, StartCaip, StartNumber, Resume, chainVars
<1>2. ASSUME NEW r \in WalletCalls, wops' = [wops EXCEPT ![o] = r],
             r.at \in {"waiting", "threw", "done", "looking", "sending", "counting"},
             r.kind \in NumberKinds => r.family = "evm",
             r.at \in {"looking", "sending", "counting"} =>
                 r.kind \in SendKinds /\ r.acct \in Accounts,
             r.at = "done" => r.kind \notin SendKinds,
             r.at = "looking" => r.acct = "key",
             r.at = "counting" => ~(r.kind = "caipSend" /\ r.acct = "driver"),
             r.at = "waiting" => r.acct = "none",
             r.nonce = 0,
             r.acct = "key" => /\ r.family = "evm" /\ setup.key
                               /\ r.kind \in NumberKinds \ {"typed"} => driver = "no",
             r.acct = "driver" => driver = "yes" /\ r.kind # "typed"
      PROVE  WalletInv'
  <2>1. wops'[o] = r
    BY <1>1, <1>2
  <2>2. CallHolds(o)'
    BY <1>1, <1>2, <2>1 DEF CallHolds
  <2>3. r.at = "sending" => r.nonce <= SentBy(r.acct)'
    BY <1>1, <1>2 DEF SentBy
  <2>4. CallStands(o)'
    BY <1>1, <1>2, <2>1, <2>3 DEF CallStands
  <2> QED BY <1>1, <1>2, <2>2, <2>4, CallMoves
<1>3. ASSUME NEW kind \in CaipKinds, NEW family \in Families, StartCaip(o, kind, family)
      PROVE  WalletInv'
  <2> DEFINE early == family = "evm" /\ setup.key /\ driver # "yes"
             r == [NoOp EXCEPT !.kind = kind, !.family = family,
                          !.acct = IF early THEN "key" ELSE "none",
                          !.at = IF family = "unknown" THEN "threw"
                                 ELSE IF early THEN Onward(kind, "key") ELSE "waiting"]
  <2>1. wops' = [wops EXCEPT ![o] = r]
    BY <1>3 DEF StartCaip
  <2>2. NoOp \in WalletCalls /\ NoOp.nonce = 0
    BY DEF NoOp, WalletCalls, NumberKinds, CaipKinds, Families, Accounts
  <2> DEFINE acct == IF early THEN "key" ELSE "none"
             goes == IF family = "unknown" THEN "threw"
                     ELSE IF early THEN Onward(kind, "key") ELSE "waiting"
  <2>6. acct \in Accounts \cup {"none"} /\ goes \in {"threw", "waiting", "done", "looking", "sending", "counting"}
    BY OnwardGoes DEF Accounts
  <2>7. r = [NoOp EXCEPT !.kind = kind, !.family = family, !.acct = acct, !.at = goes]
    OBVIOUS
  <2> HIDE DEF r, acct, goes
  <2>3. /\ r.kind = kind /\ r.family = family /\ r.nonce = 0 /\ r.acct = acct /\ r.at = goes
    BY <2>2, <2>7 DEF WalletCalls
  <2>4. r \in WalletCalls
    BY <2>2, <2>6, <2>7 DEF WalletCalls
  <2>5. kind \notin NumberKinds
    BY DEF CaipKinds, NumberKinds
  <2>8. /\ goes \in {"looking", "sending", "counting"} => kind \in SendKinds /\ acct = "key"
        /\ goes = "done" => kind \notin SendKinds
        /\ goes = "waiting" => acct = "none"
        /\ acct # "driver" /\ (acct = "key" => family = "evm" /\ setup.key)
    BY OnwardGoes DEF acct, goes
  <2> QED BY <1>2, <2>1, <2>3, <2>4, <2>5, <2>6, <2>8 DEF Accounts
<1>4. ASSUME NEW kind \in NumberKinds, StartNumber(o, kind) PROVE WalletInv'
  <2> DEFINE r == [NoOp EXCEPT !.kind = kind, !.at = "waiting"]
  <2>1. wops' = [wops EXCEPT ![o] = r]
    BY <1>4 DEF StartNumber
  <2>2. NoOp \in WalletCalls /\ NoOp.nonce = 0 /\ NoOp.family = "evm" /\ NoOp.acct = "none"
    BY DEF NoOp, WalletCalls, NumberKinds, CaipKinds, Families, Accounts
  <2>3. /\ r.kind = kind /\ r.family = "evm" /\ r.nonce = 0 /\ r.acct = "none" /\ r.at = "waiting"
        /\ r \in WalletCalls
    BY <2>2 DEF WalletCalls
  <2> HIDE DEF r
  <2> QED BY <1>2, <2>1, <2>3
<1>5. ASSUME Resume(o) PROVE WalletInv'
  <2> DEFINE acct == Account(wops[o].kind)
             missing == wops[o].kind = "caipAddress" /\ wops[o].family = "evm" /\ ~setup.evm
             goes == IF acct = "none" \/ (acct = "driver" /\ missing) THEN "threw"
                   ELSE Onward(wops[o].kind, acct)
             r == [wops[o] EXCEPT !.acct = acct, !.at = goes]
  <2>1. wops' = [wops EXCEPT ![o] = r] /\ driver # "loading" /\ wops[o].at = "waiting"
    BY <1>1, <1>5 DEF Resume
  <2>2. acct \in Accounts \cup {"none"}
    BY DEF Account, Accounts
  <2>3. /\ acct = "key" => setup.key /\ (wops[o].kind \in NumberKinds)
                           /\ (wops[o].kind # "typed" => driver = "no")
        /\ acct = "driver" => driver = "yes" /\ wops[o].kind # "typed"
    BY <1>1, <2>1 DEF Account, NumberKinds
  <2> HIDE DEF acct
  <2>4. goes \in {"threw", "done", "looking", "sending", "counting"}
    BY OnwardGoes
  <2>5. /\ r.kind = wops[o].kind /\ r.family = wops[o].family /\ r.nonce = wops[o].nonce
        /\ r.acct = acct /\ r.at = goes /\ r \in WalletCalls
    BY <1>1, <2>2, <2>4 DEF WalletCalls
  <2>6. goes \in {"looking", "sending", "counting"} =>
          wops[o].kind \in SendKinds /\ acct \in Accounts
    BY <2>2, OnwardGoes DEF Accounts
  <2>7. /\ goes = "done" => wops[o].kind \notin SendKinds
        /\ goes = "looking" => acct = "key"
        /\ goes = "counting" => ~(wops[o].kind = "caipSend" /\ acct = "driver")
    BY OnwardGoes
  <2>8. wops[o].nonce = 0 /\ (wops[o].kind \in NumberKinds => wops[o].family = "evm")
    BY <1>1, <2>1 DEF CallStands
  <2> HIDE DEF r, goes
  <2> QED BY <1>2, <2>1, <2>3, <2>4, <2>5, <2>6, <2>7, <2>8
<1> QED BY <1>3, <1>4, <1>5

\* The look at the gas, a drip and a count move a call on to its sending.
LEMMA GasStep ==
  ASSUME WalletInv, NEW o \in WalletOps, LookAtGas(o) \/ Drip(o) \/ Count(o) PROVE WalletInv'
<1>1. /\ wops[o] \in WalletCalls /\ CallStands(o) /\ CallHolds(o)
      /\ wops[o].at \in {"looking", "dripping", "counting"}
      /\ setup' = setup /\ driver' = driver /\ mined' = mined /\ pool' = pool
      /\ gas' \in BOOLEAN /\ drips' \in Nat /\ (drips' > 0 => gas')
      /\ wops \in [WalletOps -> WalletCalls]
      /\ \A a \in Accounts : SentBy(a) \in Nat
  <2>1. /\ wops[o] \in WalletCalls /\ CallStands(o) /\ CallHolds(o)
        /\ wops \in [WalletOps -> WalletCalls] /\ \A a \in Accounts : SentBy(a) \in Nat
        /\ gas \in BOOLEAN /\ drips \in Nat /\ (drips > 0 => gas)
    BY SentCounts DEF WalletInv, WalletTyped
  <2>2. /\ wops[o].at \in {"looking", "dripping", "counting"}
        /\ setup' = setup /\ driver' = driver /\ mined' = mined /\ pool' = pool
    BY DEF LookAtGas, Drip, Count, chainVars
  <2>3. (gas' = TRUE /\ drips' = drips + 1) \/ (gas' = gas /\ drips' = drips)
    BY DEF LookAtGas, Drip, Count, chainVars
  <2>4. gas' \in BOOLEAN /\ drips' \in Nat /\ (drips' > 0 => gas')
    <3>1. CASE gas' = TRUE /\ drips' = drips + 1
      <4>1. drips' \in Nat
        BY <2>1, <3>1
      <4> QED BY <3>1, <4>1
    <3>2. CASE gas' = gas /\ drips' = drips
      BY <2>1, <3>2
    <3> QED BY <2>3, <3>1, <3>2
  <2> QED BY <2>1, <2>2, <2>4
<1>2. wops[o].kind \in SendKinds /\ wops[o].acct \in Accounts
  BY <1>1 DEF CallStands
<1>3. ASSUME NEW r \in WalletCalls, wops' = [wops EXCEPT ![o] = r],
             r.at \in {"counting", "dripping", "threw", "sending"},
             r.kind = wops[o].kind, r.family = wops[o].family, r.acct = wops[o].acct,
             r.at = "sending" => r.nonce <= SentBy(r.acct),
             r.at = "dripping" => r.acct = "key",
             r.at = "counting" => r.acct = "key"
      PROVE  WalletInv'
  <2>1. wops'[o] = r
    BY <1>1, <1>3
  <2>2. CallHolds(o)'
    BY <1>1, <1>3, <2>1 DEF CallHolds
  <2>3. r.at = "sending" => r.nonce <= SentBy(r.acct)'
    BY <1>1, <1>3 DEF SentBy
  <2>4. CallStands(o)'
    BY <1>1, <1>2, <1>3, <2>1, <2>3 DEF CallStands
  <2> QED BY <1>1, <1>3, <2>2, <2>4, CallMoves
<1>4. ASSUME NEW goes \in {"counting", "dripping", "threw"}, Goes(o, goes), wops[o].acct = "key"
      PROVE  WalletInv'
  <2> DEFINE r == [wops[o] EXCEPT !.at = goes]
  <2>1. wops' = [wops EXCEPT ![o] = r]
    BY <1>1, <1>4 DEF Goes
  <2>2. /\ r.kind = wops[o].kind /\ r.family = wops[o].family /\ r.acct = wops[o].acct
        /\ r.at = goes /\ r \in WalletCalls
    BY <1>1 DEF WalletCalls
  <2> HIDE DEF r
  <2> QED BY <1>3, <1>4, <2>1, <2>2
<1>5. CASE LookAtGas(o) \/ Drip(o)
  <2>1. wops[o].acct = "key"
    BY <1>1, <1>5 DEF LookAtGas, Drip, CallStands
  <2>2. \E goes \in {"counting", "dripping", "threw"} : Goes(o, goes)
    BY <1>5 DEF LookAtGas, Drip
  <2> QED BY <1>4, <2>1, <2>2
<1>6. CASE Count(o)
  <2> DEFINE a == wops[o].acct
             n == Cardinality(mined[a]) + (IF a = "key" THEN Cardinality(pool[a]) ELSE 0)
             r == [wops[o] EXCEPT !.nonce = n, !.at = "sending"]
  <2>1. wops' = [wops EXCEPT ![o] = r]
    BY <1>1, <1>6 DEF Count
  <2>2. Cardinality(mined[a]) \in Nat /\ Cardinality(pool[a]) \in Nat
    BY <1>2, CallsCount DEF WalletInv, WalletTyped
  <2>3. n \in Nat /\ n <= SentBy(a)
    BY <2>2 DEF SentBy
  <2> HIDE DEF n
  <2>4. /\ r.kind = wops[o].kind /\ r.family = wops[o].family /\ r.acct = a
        /\ r.at = "sending" /\ r.nonce = n /\ r \in WalletCalls
    BY <1>1, <2>3 DEF WalletCalls
  <2> HIDE DEF r, a
  <2> QED BY <1>3, <2>1, <2>3, <2>4 DEF a
<1> QED BY <1>5, <1>6

\* The nonce of a transaction is at most the number of those its account has sent,
\* and the SDK's own is never taken.
LEMMA NonceFree ==
  ASSUME WalletInv, NEW o \in WalletOps, wops[o].at = "sending"
  PROVE  /\ wops[o].acct \in Accounts /\ wops[o].kind \in SendKinds
         /\ Nonce(o) \in Nat /\ Nonce(o) <= SentBy(wops[o].acct)
         /\ Taken(o) => Nonce(o) = wops[o].nonce
<1>1. /\ CallStands(o) /\ wops[o] \in WalletCalls /\ NoncesFit
      /\ \A a \in Accounts : SentBy(a) \in Nat
  BY SentCounts DEF WalletInv, WalletTyped
<1>2. /\ wops[o].acct \in Accounts /\ wops[o].kind \in SendKinds
      /\ wops[o].nonce <= SentBy(wops[o].acct) /\ wops[o].nonce \in Nat
  BY <1>1 DEF CallStands, WalletCalls
<1>3. CASE wops[o].kind = "caipSend" /\ wops[o].acct = "driver"
  <2>1. Nonce(o) = SentBy("driver")
    BY <1>3 DEF Nonce, SentBy
  <2>2. ~Taken(o)
    <3>1. SUFFICES ASSUME NEW p \in mined["driver"] \cup pool["driver"], wops[p].nonce = SentBy("driver")
                   PROVE  FALSE
      BY <1>3, <2>1 DEF Taken
    <3>2. wops[p].nonce < SentBy("driver") /\ SentBy("driver") \in Nat
      BY <1>1, <3>1 DEF NoncesFit, Accounts
    <3> QED BY <3>1, <3>2
  <2> QED BY <1>1, <1>2, <1>3, <2>1, <2>2
<1>4. CASE ~(wops[o].kind = "caipSend" /\ wops[o].acct = "driver")
  BY <1>2, <1>4 DEF Nonce
<1> QED BY <1>3, <1>4

\* Sending a transaction gives it the next nonce of its account, or one below.
LEMMA SendStep ==
  ASSUME WalletInv, NEW o \in WalletOps, Submit(o) PROVE WalletInv'
<1>1. /\ CallStands(o) /\ CallHolds(o) /\ wops[o] \in WalletCalls /\ NoncesFit
      /\ wops \in [WalletOps -> WalletCalls] /\ pool \in [Accounts -> SUBSET WalletOps]
      /\ mined \in [Accounts -> SUBSET WalletOps]
  BY DEF WalletInv, WalletTyped
<1>2. /\ wops[o].at = "sending" /\ setup' = setup /\ driver' = driver /\ mined' = mined
      /\ gas' = gas /\ drips' = drips /\ ~Taken(o)
      /\ pool' = [pool EXCEPT ![wops[o].acct] = @ \cup {o}]
  BY DEF Submit
<1> DEFINE acct == wops[o].acct
           n == Nonce(o)
<1>3. acct \in Accounts /\ wops[o].kind \in SendKinds /\ n \in Nat /\ n <= SentBy(acct)
  BY <1>2, NonceFree
<1>4. PICK goes \in {IF acct = "driver" THEN "done" ELSE "receipt", "threw"} :
         wops' = [wops EXCEPT ![o].nonce = n, ![o].at = goes]
  BY DEF Submit
<1> DEFINE r == [wops[o] EXCEPT !.nonce = n, !.at = goes]
<1> HIDE DEF n
<1>5. wops' = [wops EXCEPT ![o] = r]
  BY <1>1, <1>4
<1>6. /\ r.kind = wops[o].kind /\ r.family = wops[o].family /\ r.acct = acct
      /\ r.at = goes /\ r.nonce = n /\ r \in WalletCalls
  BY <1>1, <1>3 DEF WalletCalls
<1> HIDE DEF r
<1>7. \A a \in Accounts : o \notin mined[a] /\ o \notin pool[a]
  BY <1>1, <1>2 DEF NoncesFit
<1>8. WalletTyped'
  BY <1>1, <1>2, <1>3, <1>5, <1>6 DEF WalletInv, WalletTyped
<1>9. \A a \in Accounts : SentBy(a) \in Nat /\ SentBy(a)' = (IF a = acct THEN SentBy(a) + 1 ELSE SentBy(a))
  <2>1. SUFFICES ASSUME NEW a \in Accounts
                 PROVE  SentBy(a) \in Nat /\ SentBy(a)' = (IF a = acct THEN SentBy(a) + 1 ELSE SentBy(a))
    OBVIOUS
  <2>2. /\ IsFiniteSet(pool[a]) /\ Cardinality(pool[a]) \in Nat /\ Cardinality(mined[a]) \in Nat
    BY <1>1, CallsCount
  <2>3. Cardinality(pool[a] \cup {o}) = Cardinality(pool[a]) + 1
    BY <1>7, <2>2, FS_AddElement
  <2>4. mined'[a] = mined[a] /\ pool'[a] = (IF a = acct THEN pool[a] \cup {o} ELSE pool[a])
    BY <1>1, <1>2
  <2>5. CASE a = acct
    <3>1. SentBy(a)' = Cardinality(mined[a]) + Cardinality(pool[a] \cup {o})
      BY <2>4, <2>5 DEF SentBy
    <3> QED BY <2>2, <2>3, <2>5, <3>1 DEF SentBy
  <2>6. CASE a # acct
    <3>1. SentBy(a)' = Cardinality(mined[a]) + Cardinality(pool[a])
      BY <2>4, <2>6 DEF SentBy
    <3> QED BY <2>2, <2>6, <3>1 DEF SentBy
  <2> QED BY <2>5, <2>6
<1>10. /\ wops'[o] = r /\ \A q \in WalletOps \ {o} : wops'[q] = wops[q]
       /\ \A a \in Accounts : mined'[a] = mined[a] /\ pool'[a] = (IF a = acct THEN pool[a] \cup {o} ELSE pool[a])
  BY <1>1, <1>2, <1>5
<1>11. NoncesFit'
  <2>1. ASSUME NEW a \in Accounts PROVE mined'[a] \cap pool'[a] = {}
    <3>1. mined[a] \cap pool[a] = {} /\ o \notin mined[a]
      BY <1>1, <1>7 DEF NoncesFit
    <3>2. mined'[a] = mined[a] /\ pool'[a] \subseteq pool[a] \cup {o}
      BY <1>10
    <3> QED BY <3>1, <3>2
  <2>2. ASSUME NEW a \in Accounts, NEW p \in mined'[a] \cup pool'[a]
        PROVE  /\ wops'[p].acct = a /\ wops'[p].at \in {"receipt", "done", "threw"}
               /\ wops'[p].nonce < SentBy(a)'
    <3>1. SentBy(a) \in Nat /\ SentBy(a)' = (IF a = acct THEN SentBy(a) + 1 ELSE SentBy(a))
      BY <1>9
    <3>2. PICK k \in Nat : k = SentBy(a)'
      BY <3>1
    <3>3. CASE p \in mined[a] \cup pool[a]
      <4>1. /\ wops[p].acct = a /\ wops[p].at \in {"receipt", "done", "threw"}
            /\ wops[p].nonce < SentBy(a) /\ p \in WalletOps /\ p # o
        BY <1>1, <1>7, <3>3 DEF NoncesFit
      <4>2. wops'[p] = wops[p] /\ wops[p].nonce \in Nat
        BY <1>1, <1>10, <4>1 DEF WalletCalls
      <4>3. wops[p].nonce < k
        BY <3>1, <3>2, <4>1, <4>2
      <4> QED BY <3>2, <4>1, <4>2, <4>3
    <3>4. CASE p \notin mined[a] \cup pool[a]
      <4>1. a = acct /\ p = o
        BY <1>10, <3>4
      <4>2. n < k
        BY <1>3, <3>1, <3>2, <4>1
      <4>3. r.at \in {"receipt", "done", "threw"}
        BY <1>4, <1>6
      <4> QED BY <1>6, <1>10, <3>2, <4>1, <4>2, <4>3
    <3> QED BY <3>3, <3>4
  <2> QED BY <2>1, <2>2 DEF NoncesFit
<1>12. CallStands(o)'
  <2>1. acct = "driver" \/ acct = "key"
    BY <1>3 DEF Accounts
  <2>2. /\ r.at \in {"receipt", "done", "threw"}
        /\ r.at = "receipt" => r.acct = "key" /\ o \in pool'["key"]
    BY <1>4, <1>6, <1>10, <2>1 DEF Accounts
  <2>3. r.kind \in NumberKinds => r.family = "evm"
    BY <1>1, <1>6 DEF CallStands
  <2> QED BY <1>3, <1>6, <1>10, <2>2, <2>3 DEF CallStands
<1>13. CallHolds(o)'
  <2>1. r.at # "nonceTaken" /\ r.at # "looking" /\ (r.at = "done" => r.acct = "driver" /\ o \in pool'["driver"])
    BY <1>4, <1>6, <1>10 DEF Accounts
  <2>2. /\ r.acct = "key" =>
              /\ r.family = "evm" /\ setup.key
              /\ r.kind \in NumberKinds \ {"typed"} => driver = "no"
        /\ r.acct = "driver" => driver = "yes" /\ r.kind # "typed"
    BY <1>1, <1>6 DEF CallHolds
  <2> QED BY <1>2, <1>10, <2>1, <2>2 DEF CallHolds
<1>14. ASSUME NEW q \in WalletOps PROVE CallStands(q)' /\ CallHolds(q)'
  <2>1. CASE q = o
    BY <1>12, <1>13, <2>1
  <2>2. CASE q # o
    <3>1. wops'[q] = wops[q]
      BY <1>10, <2>2
    <3>2. ASSUME NEW a \in Accounts
          PROVE  SentBy(a) <= SentBy(a)' /\ mined[a] \subseteq mined'[a]
                 /\ mined[a] \cup pool[a] \subseteq mined'[a] \cup pool'[a]
      <4>1. mined[a] \subseteq mined'[a] /\ mined[a] \cup pool[a] \subseteq mined'[a] \cup pool'[a]
        BY <1>10
      <4>2. PICK k \in Nat : k = SentBy(a)'
        BY <1>9
      <4>3. SentBy(a) <= k
        BY <1>9, <4>2
      <4> QED BY <4>1, <4>2, <4>3
    <3>3. \A a \in Accounts : \A p \in mined[a] \cup pool[a] : wops'[p].nonce = wops[p].nonce
      BY <1>1, <1>7, <1>10
    <3>4. drips' > 0 => gas'
      BY <1>2 DEF WalletInv
    <3> QED BY <1>2, <1>8, <3>1, <3>2, <3>3, <3>4, CallRests
  <2> QED BY <2>1, <2>2
<1> QED BY <1>2, <1>8, <1>11, <1>14 DEF WalletInv

\* A refused call leaves the chain as it was; one refused its nonce has not used it.
LEMMA RefusedStep ==
  ASSUME WalletInv, NEW o \in WalletOps, SubmitFails(o) \/ AwaitReceipt(o) PROVE WalletInv'
<1>1. /\ CallStands(o) /\ CallHolds(o) /\ wops[o] \in WalletCalls /\ NoncesFit
      /\ wops \in [WalletOps -> WalletCalls] /\ gas \in BOOLEAN /\ drips \in Nat /\ (drips > 0 => gas)
      /\ pool \in [Accounts -> SUBSET WalletOps] /\ mined \in [Accounts -> SUBSET WalletOps]
  BY DEF WalletInv, WalletTyped
<1>2. /\ wops[o].at \in {"sending", "receipt"} /\ setup' = setup /\ driver' = driver
      /\ mined' = mined /\ pool' = pool /\ gas' = gas /\ drips' = drips
  BY DEF SubmitFails, AwaitReceipt, chainVars
<1>3. wops[o].acct \in Accounts /\ wops[o].kind \in SendKinds
  BY <1>1, <1>2 DEF CallStands
<1>4. PICK goes \in {"threw", "done", "nonceTaken"} :
        /\ Goes(o, goes)
        /\ goes = "done" => wops[o].at = "receipt" /\ o \in mined["key"]
        /\ goes = "nonceTaken" => wops[o].at = "sending" /\ Taken(o)
  BY DEF SubmitFails, AwaitReceipt
<1> DEFINE r == [wops[o] EXCEPT !.at = goes]
<1>5. wops' = [wops EXCEPT ![o] = r]
  BY <1>1, <1>4 DEF Goes
<1>6. /\ r.kind = wops[o].kind /\ r.family = wops[o].family /\ r.acct = wops[o].acct
      /\ r.nonce = wops[o].nonce /\ r.at = goes /\ r \in WalletCalls
  BY <1>1 DEF WalletCalls
<1> HIDE DEF r
<1>7. wops'[o] = r /\ \A q \in WalletOps \ {o} : wops'[q] = wops[q]
  BY <1>1, <1>5
<1>8. r.at = "nonceTaken" =>
        \E p \in mined[r.acct] \cup pool[r.acct] : p # o /\ wops'[p].nonce = r.nonce
  <2> SUFFICES ASSUME r.at = "nonceTaken"
               PROVE  \E p \in mined[r.acct] \cup pool[r.acct] : p # o /\ wops'[p].nonce = r.nonce
    OBVIOUS
  <2>1. Taken(o) /\ wops[o].at = "sending"
    BY <1>4, <1>6
  <2>2. Nonce(o) = wops[o].nonce
    BY <2>1, NonceFree
  <2>3. PICK p \in mined[wops[o].acct] \cup pool[wops[o].acct] : wops[p].nonce = wops[o].nonce
    BY <2>1, <2>2 DEF Taken
  <2>4. p \in WalletOps /\ wops[p].at # "sending"
    BY <1>1, <1>3 DEF NoncesFit
  <2>5. p # o
    BY <2>1, <2>4
  <2> QED BY <1>6, <1>7, <2>3, <2>4, <2>5
<1>9. CallStands(o)'
  <2>1. r.kind \in NumberKinds => r.family = "evm"
    BY <1>1, <1>6 DEF CallStands
  <2> QED BY <1>3, <1>4, <1>6, <1>7, <2>1 DEF CallStands
<1>10. CallHolds(o)'
  <2>1. r.at = "done" => r.acct = "key" /\ o \in mined["key"]
    BY <1>1, <1>4, <1>6 DEF CallStands
  <2>2. /\ r.acct = "key" =>
              /\ r.family = "evm" /\ setup.key
              /\ r.kind \in NumberKinds \ {"typed"} => driver = "no"
        /\ r.acct = "driver" => driver = "yes" /\ r.kind # "typed"
    BY <1>1, <1>6 DEF CallHolds
  <2>3. r.at # "looking"
    BY <1>4, <1>6
  <2> QED BY <1>2, <1>7, <1>8, <2>1, <2>2, <2>3 DEF CallHolds
<1>11. \/ wops[o].at \notin {"receipt", "done", "threw"}
       \/ r.at \in {"done", "threw"} /\ r.acct = wops[o].acct /\ r.nonce = wops[o].nonce
  BY <1>4, <1>6
<1> QED BY <1>1, <1>2, <1>5, <1>6, <1>9, <1>10, <1>11, CallMoves

\* A block takes a transaction from those that wait; its account has sent as many.
LEMMA BlockStep ==
  ASSUME WalletInv, NEW o \in WalletOps, PutInBlock(o) PROVE WalletInv'
<1>1. /\ NoncesFit /\ pool \in [Accounts -> SUBSET WalletOps] /\ mined \in [Accounts -> SUBSET WalletOps]
  BY DEF WalletInv, WalletTyped
<1>2. PICK b \in Accounts :
        /\ o \in pool[b]
        /\ mined' = [mined EXCEPT ![b] = @ \cup {o}] /\ pool' = [pool EXCEPT ![b] = @ \ {o}]
        /\ setup' = setup /\ driver' = driver /\ wops' = wops /\ gas' = gas /\ drips' = drips
  BY DEF PutInBlock
<1>3. WalletTyped'
  BY <1>1, <1>2 DEF WalletInv, WalletTyped
<1>4. \A a \in Accounts : /\ mined'[a] = (IF a = b THEN mined[a] \cup {o} ELSE mined[a])
                          /\ pool'[a] = (IF a = b THEN pool[a] \ {o} ELSE pool[a])
  BY <1>1, <1>2
<1>5. \A a \in Accounts : mined[a] \cup pool[a] = mined'[a] \cup pool'[a]
  BY <1>2, <1>4
<1>6. \A a \in Accounts : SentBy(a) \in Nat /\ SentBy(a)' = SentBy(a)
  <2>1. SUFFICES ASSUME NEW a \in Accounts PROVE SentBy(a) \in Nat /\ SentBy(a)' = SentBy(a)
    OBVIOUS
  <2>2. /\ IsFiniteSet(pool[a]) /\ Cardinality(pool[a]) \in Nat
        /\ IsFiniteSet(mined[a]) /\ Cardinality(mined[a]) \in Nat
    BY <1>1, CallsCount
  <2>3. CASE a = b
    <3>1. o \notin mined[a] /\ o \in pool[a]
      BY <1>1, <1>2, <2>3 DEF NoncesFit
    <3>2. Cardinality(mined[a] \cup {o}) = Cardinality(mined[a]) + 1
      BY <2>2, <3>1, FS_AddElement
    <3>3. Cardinality(pool[a] \ {o}) = Cardinality(pool[a]) - 1
      BY <2>2, <3>1, FS_RemoveElement
    <3>4. SentBy(a)' = Cardinality(mined[a] \cup {o}) + Cardinality(pool[a] \ {o})
      BY <1>4, <2>3 DEF SentBy
    <3> QED BY <2>2, <3>2, <3>3, <3>4 DEF SentBy
  <2>4. CASE a # b
    <3>1. SentBy(a)' = Cardinality(mined[a]) + Cardinality(pool[a])
      BY <1>4, <2>4 DEF SentBy
    <3> QED BY <2>2, <3>1 DEF SentBy
  <2> QED BY <2>3, <2>4
<1>7. NoncesFit'
  <2>1. ASSUME NEW a \in Accounts PROVE mined'[a] \cap pool'[a] = {}
    BY <1>1, <1>2, <1>4 DEF NoncesFit
  <2>2. ASSUME NEW a \in Accounts, NEW p \in mined'[a] \cup pool'[a]
        PROVE  /\ wops'[p].acct = a /\ wops'[p].at \in {"receipt", "done", "threw"}
               /\ wops'[p].nonce < SentBy(a)'
    <3>1. p \in mined[a] \cup pool[a] /\ SentBy(a)' = SentBy(a)
      BY <1>5, <1>6
    <3>2. wops[p].acct = a /\ wops[p].at \in {"receipt", "done", "threw"} /\ wops[p].nonce < SentBy(a)
      BY <1>1, <3>1 DEF NoncesFit
    <3> QED BY <1>2, <3>1, <3>2
  <2> QED BY <2>1, <2>2 DEF NoncesFit
<1>8. ASSUME NEW q \in WalletOps PROVE CallStands(q)' /\ CallHolds(q)'
  <2>1. wops'[q] = wops[q] /\ setup' = setup /\ driver' = driver /\ (drips' > 0 => gas')
    BY <1>2 DEF WalletInv
  <2>2. \A a \in Accounts : SentBy(a) <= SentBy(a)' /\ mined[a] \subseteq mined'[a]
                            /\ mined[a] \cup pool[a] \subseteq mined'[a] \cup pool'[a]
    <3>1. \A a \in Accounts : SentBy(a) <= SentBy(a)'
      BY ONLY <1>6
    <3> QED BY <1>4, <1>5, <3>1
  <2>3. \A a \in Accounts : \A p \in mined[a] \cup pool[a] : wops'[p].nonce = wops[p].nonce
    BY <1>2
  <2> QED BY <1>3, <2>1, <2>2, <2>3, CallRests
<1> QED BY <1>2, <1>3, <1>7, <1>8 DEF WalletInv

\* Every step of the wallet keeps what is known of it.
LEMMA WalletStep == WalletInv /\ [WalletNext]_walletVars => WalletInv'
<1> SUFFICES ASSUME WalletInv, [WalletNext]_walletVars PROVE WalletInv'
  OBVIOUS
<1>1. CASE DriverReady
  BY <1>1, DriverStep
<1>2. ASSUME NEW o \in WalletOps,
             \/ \E kind \in CaipKinds, family \in Families : StartCaip(o, kind, family)
             \/ \E kind \in NumberKinds : StartNumber(o, kind)
             \/ Resume(o)
      PROVE  WalletInv'
  BY <1>2, ChoiceStep
<1>3. ASSUME NEW o \in WalletOps, LookAtGas(o) \/ Drip(o) \/ Count(o) PROVE WalletInv'
  BY <1>3, GasStep
<1>4. ASSUME NEW o \in WalletOps, Submit(o) PROVE WalletInv'
  BY <1>4, SendStep
<1>5. ASSUME NEW o \in WalletOps, SubmitFails(o) \/ AwaitReceipt(o) PROVE WalletInv'
  BY <1>5, RefusedStep
<1>6. ASSUME NEW o \in WalletOps, PutInBlock(o) PROVE WalletInv'
  BY <1>6, BlockStep
<1>7. CASE UNCHANGED walletVars
  BY <1>7 DEF walletVars, WalletInv, WalletTyped, NoncesFit, CallStands, CallHolds, SentBy
<1> QED BY <1>1, <1>2, <1>3, <1>4, <1>5, <1>6, <1>7 DEF WalletNext

-------------------------------------------------------------------------------
(* The lifecycle of wallets.                                               *)

\* What a call of the lifecycle may hold.
LifeRecords ==
    [at : {"idle", "loading", "sdk", "shell", "ended"}, kind : LifeKinds \cup {"none"},
     given : BOOLEAN,
     answer : {"none", "ok", "untyped", "OWS_CONFIRM_REQUIRED", "OWS_SDK_NOT_INSTALLED",
               "OWS_WALLET_NOT_FOUND", "OWS_POLICY_VIOLATION", "OWS_FAMILY_PARTIAL",
               "OWS_CLI_NOT_AVAILABLE"},
     did : {"nothing", "sdk", "cli"}]

\* What the import of the SDK may have resolved to.
Resolved == {"none", "plain", "full"}

\* The types of the lifecycle.
LifeTyped ==
    /\ tools \in [sdk : Resolved, cli : BOOLEAN, passphrase : BOOLEAN]
    /\ sdk \in Resolved \cup {"unasked", "importing"}
    /\ life \in [LifeCalls -> LifeRecords]

\* What is known of a call by where it is: it is with the SDK, or at the command
\* line in its place, only once the import has resolved to what says so.
LifeStands(l) ==
    /\ life[l].at = "sdk" \/ life[l].did = "sdk" => sdk \in {"plain", "full"}
    /\ (life[l].at = "shell" \/ life[l].did = "cli") /\ life[l].kind \in VaultKinds =>
          sdk \in Resolved /\ ~SdkServes(l)
    /\ life[l].answer = "OWS_SDK_NOT_INSTALLED" => sdk = "none"
    /\ life[l].at # "ended" => life[l].did = "nothing" /\ life[l].answer = "none"
    /\ life[l].at \in {"loading", "sdk", "shell"} /\ life[l].kind \in ConfirmedKinds => life[l].given
    /\ life[l].kind \in ConfirmedKinds /\ life[l].did # "nothing" => life[l].given
    /\ life[l].answer \in {"OWS_CONFIRM_REQUIRED", "OWS_SDK_NOT_INSTALLED"} =>
          life[l].did = "nothing"
    /\ life[l].answer = "untyped" => life[l].kind \in VaultKinds

\* The types, and what is known of every call.
LifeInv == LifeTyped /\ \A l \in LifeCalls : LifeStands(l)

\* Nothing was asked at first.
LEMMA LifeInitially == LifeInit => LifeInv
<1> SUFFICES ASSUME LifeInit PROVE LifeInv
  OBVIOUS
<1>1. NewCall \in LifeRecords
  BY DEF NewCall, LifeRecords
<1>2. LifeTyped
  BY <1>1 DEF LifeInit, LifeTyped, Resolved
<1>3. ASSUME NEW l \in LifeCalls PROVE LifeStands(l)
  BY DEF LifeInit, LifeStands, NewCall
<1> QED BY <1>2, <1>3 DEF LifeInv

\* What is known of a call outlasts the import and the steps of other calls.
LEMMA LifeRests ==
  ASSUME LifeInv, NEW l \in LifeCalls, life'[l] = life[l],
         sdk' = sdk \/ sdk \notin Resolved, tools'.passphrase = tools.passphrase
  PROVE  LifeStands(l)'
<1>1. LifeStands(l)
  BY DEF LifeInv
<1>2. sdk \in {"plain", "full"} => sdk' = sdk
  BY DEF Resolved
<1>3. sdk = "none" => sdk' = sdk
  BY DEF Resolved
<1>4. sdk \in Resolved /\ ~SdkServes(l) => sdk' \in Resolved /\ ~SdkServes(l)'
  BY DEF SdkServes
<1> QED BY <1>1, <1>2, <1>3, <1>4 DEF LifeStands

\* One call moves while the import stays as it is, or is begun.
LEMMA LifeMoves ==
  ASSUME LifeInv, NEW l \in LifeCalls, NEW r \in LifeRecords, life' = [life EXCEPT ![l] = r],
         tools' = tools, sdk' = sdk \/ (sdk = "unasked" /\ sdk' = "importing"), LifeStands(l)'
  PROVE  LifeInv'
<1>1. LifeTyped'
  BY DEF LifeInv, LifeTyped
<1>2. ASSUME NEW m \in LifeCalls PROVE LifeStands(m)'
  <2>1. CASE m = l
    BY <2>1
  <2>2. CASE m # l
    <3>1. life'[m] = life[m]
      BY <2>2 DEF LifeInv, LifeTyped
    <3>2. sdk' = sdk \/ sdk \notin Resolved
      BY DEF Resolved
    <3> QED BY <3>1, <3>2, LifeRests
  <2> QED BY <2>1, <2>2
<1> QED BY <1>1, <1>2 DEF LifeInv

\* A call that starts has been confirmed, or is refused.
LEMMA LifeStarts ==
  ASSUME LifeInv, NEW l \in LifeCalls, NEW kind \in LifeKinds, NEW given \in BOOLEAN,
         StartLife(l, kind, given)
  PROVE  LifeInv'
<1> DEFINE shell == kind = "configureAutoBackup"
           refused == Unconfirmed(kind, given)
           goes == IF refused THEN "ended" ELSE IF shell THEN "shell" ELSE "loading"
           ans == IF refused THEN "OWS_CONFIRM_REQUIRED" ELSE "none"
           r == [NewCall EXCEPT !.kind = kind, !.given = given, !.at = goes, !.answer = ans]
<1>1. /\ life' = [life EXCEPT ![l] = r] /\ tools' = tools
      /\ sdk' = sdk \/ (sdk = "unasked" /\ sdk' = "importing")
  BY DEF StartLife
<1>2. /\ NewCall \in LifeRecords /\ NewCall.did = "nothing"
  BY DEF NewCall, LifeRecords
<1>3. goes \in {"ended", "shell", "loading"} /\ ans \in {"OWS_CONFIRM_REQUIRED", "none"}
  OBVIOUS
<1>4. /\ goes # "ended" => ans = "none" /\ (kind \in ConfirmedKinds => given)
      /\ goes = "shell" => kind \notin VaultKinds
  BY DEF Unconfirmed, VaultKinds
<1> HIDE DEF goes, ans
<1>5. /\ r.kind = kind /\ r.given = given /\ r.at = goes /\ r.answer = ans /\ r.did = "nothing"
      /\ r \in LifeRecords
  BY <1>2, <1>3 DEF LifeRecords
<1> HIDE DEF r
<1>6. life'[l] = r
  BY <1>1 DEF LifeInv, LifeTyped
<1>7. LifeStands(l)'
  BY <1>3, <1>4, <1>5, <1>6 DEF LifeStands
<1> QED BY <1>1, <1>5, <1>7, LifeMoves

\* A call ends with an answer and what was done for it.
LEMMA LifeEnds ==
  ASSUME LifeInv, NEW l \in LifeCalls, NEW answer, NEW did, Ends(l, answer, did),
         [life[l] EXCEPT !.at = "ended", !.answer = answer, !.did = did] \in LifeRecords,
         tools' = tools, sdk' = sdk, life[l].at \in {"loading", "sdk", "shell"},
         did = "sdk" => sdk \in {"plain", "full"},
         did = "cli" /\ life[l].kind \in VaultKinds => sdk \in Resolved /\ ~SdkServes(l),
         answer = "OWS_SDK_NOT_INSTALLED" => sdk = "none" /\ did = "nothing",
         answer # "OWS_CONFIRM_REQUIRED", answer = "untyped" => life[l].kind \in VaultKinds
  PROVE  LifeInv'
<1> DEFINE r == [life[l] EXCEPT !.at = "ended", !.answer = answer, !.did = did]
<1>1. life' = [life EXCEPT ![l] = r]
  BY DEF Ends, LifeInv, LifeTyped
<1>2. /\ r.kind = life[l].kind /\ r.given = life[l].given /\ r.at = "ended"
      /\ r.answer = answer /\ r.did = did /\ r \in LifeRecords
  BY DEF LifeInv, LifeTyped, LifeRecords
<1> HIDE DEF r
<1>3. life'[l] = r /\ LifeStands(l)
  BY <1>1 DEF LifeInv, LifeTyped
<1>4. did = "cli" /\ r.kind \in VaultKinds => sdk' \in Resolved /\ ~SdkServes(l)'
  BY <1>2, <1>3 DEF SdkServes
<1>5. r.kind \in ConfirmedKinds => r.given
  BY <1>2, <1>3 DEF LifeStands
<1>6. LifeStands(l)'
  BY <1>2, <1>3, <1>4, <1>5 DEF LifeStands
<1> QED BY <1>1, <1>2, <1>6, LifeMoves

\* Every step of the lifecycle keeps what is known of it.
LEMMA LifeStep == LifeInv /\ [LifeNext]_lifeVars => LifeInv'
<1> SUFFICES ASSUME LifeInv, [LifeNext]_lifeVars PROVE LifeInv'
  OBVIOUS
<1>1. ASSUME ImportEnds \/ Install PROVE LifeInv'
  <2>1. /\ life' = life /\ tools'.passphrase = tools.passphrase /\ (sdk' = sdk \/ sdk \notin Resolved)
        /\ LifeTyped'
    <3>1. CASE ImportEnds
      BY <3>1 DEF ImportEnds, LifeInv, LifeTyped, Resolved
    <3>2. CASE Install
      BY <3>2 DEF Install, LifeInv, LifeTyped, Resolved
    <3> QED BY <1>1, <3>1, <3>2
  <2> QED BY <2>1, LifeRests DEF LifeInv
<1>2. ASSUME NEW l \in LifeCalls, NEW kind \in LifeKinds, NEW given \in BOOLEAN,
             StartLife(l, kind, given)
      PROVE  LifeInv'
  BY <1>2, LifeStarts
<1>3. ASSUME NEW l \in LifeCalls, Loaded(l) PROVE LifeInv'
  <2>1. /\ life[l] \in LifeRecords /\ LifeStands(l) /\ life[l].at = "loading"
        /\ sdk \in Resolved /\ tools' = tools /\ sdk' = sdk
    BY <1>3 DEF LifeInv, LifeTyped, Loaded
  <2>2. ASSUME NEW goes \in {"sdk", "shell"}, life' = [life EXCEPT ![l].at = goes],
               goes = "sdk" => SdkServes(l), goes = "shell" => ~SdkServes(l)
        PROVE  LifeInv'
    <3> DEFINE r == [life[l] EXCEPT !.at = goes]
    <3>1. life' = [life EXCEPT ![l] = r]
      BY <2>2 DEF LifeInv, LifeTyped
    <3>2. /\ r.kind = life[l].kind /\ r.given = life[l].given /\ r.at = goes
          /\ r.answer = life[l].answer /\ r.did = life[l].did /\ r \in LifeRecords
      BY <2>1 DEF LifeRecords
    <3> HIDE DEF r
    <3>3. life'[l] = r
      BY <3>1 DEF LifeInv, LifeTyped
    <3>4. goes = "sdk" => sdk \in {"plain", "full"}
      BY <2>1, <2>2 DEF SdkServes, Resolved
    <3>5. goes = "shell" => ~SdkServes(l)'
      BY <2>1, <2>2, <3>2, <3>3 DEF SdkServes
    <3>6. LifeStands(l)'
      BY <2>1, <3>2, <3>3, <3>4, <3>5 DEF LifeStands
    <3> QED BY <2>1, <3>1, <3>2, <3>6, LifeMoves
  <2>3. CASE SdkServes(l)
    BY <1>3, <2>2, <2>3 DEF Loaded
  <2>4. CASE ~SdkServes(l) /\ life[l].kind \in VaultKinds
    BY <1>3, <2>2, <2>4 DEF Loaded
  <2>5. CASE ~SdkServes(l) /\ life[l].kind \notin VaultKinds
    <3>1. Ends(l, "OWS_SDK_NOT_INSTALLED", "nothing")
      BY <1>3, <2>5 DEF Loaded
    <3>2. sdk = "none"
      BY <2>5 DEF SdkServes, VaultKinds
    <3>3. [life[l] EXCEPT !.at = "ended", !.answer = "OWS_SDK_NOT_INSTALLED", !.did = "nothing"] \in LifeRecords
      BY <2>1 DEF LifeRecords
    <3> QED BY <2>1, <3>1, <3>2, <3>3, LifeEnds
  <2> QED BY <2>3, <2>4, <2>5
<1>4. ASSUME NEW l \in LifeCalls, SdkEnds(l) PROVE LifeInv'
  <2>1. /\ life[l] \in LifeRecords /\ LifeStands(l) /\ life[l].at = "sdk"
        /\ tools' = tools /\ sdk' = sdk
    BY <1>4 DEF LifeInv, LifeTyped, SdkEnds
  <2>2. PICK answer \in {"ok", "untyped", "OWS_WALLET_NOT_FOUND", "OWS_POLICY_VIOLATION", "OWS_FAMILY_PARTIAL"},
             did \in {"sdk", "nothing"} :
          Ends(l, answer, did) /\ (answer = "untyped" => life[l].kind \in VaultKinds)
    BY <1>4 DEF SdkEnds, SdkError
  <2>3. [life[l] EXCEPT !.at = "ended", !.answer = answer, !.did = did] \in LifeRecords
    BY <2>1 DEF LifeRecords
  <2>4. sdk \in {"plain", "full"}
    BY <2>1 DEF LifeStands
  <2> QED BY <2>1, <2>2, <2>3, <2>4, LifeEnds
<1>5. ASSUME NEW l \in LifeCalls, ShellEnds(l) PROVE LifeInv'
  <2>1. /\ life[l] \in LifeRecords /\ LifeStands(l) /\ life[l].at = "shell"
        /\ tools' = tools /\ sdk' = sdk
    BY <1>5 DEF LifeInv, LifeTyped, ShellEnds
  <2>2. PICK answer \in {"ok", "OWS_CLI_NOT_AVAILABLE", "OWS_FAMILY_PARTIAL"},
             did \in {"cli", "nothing"} : Ends(l, answer, did)
    BY <1>5 DEF ShellEnds
  <2>3. [life[l] EXCEPT !.at = "ended", !.answer = answer, !.did = did] \in LifeRecords
    BY <2>1 DEF LifeRecords
  <2>4. life[l].kind \in VaultKinds => sdk \in Resolved /\ ~SdkServes(l)
    BY <2>1 DEF LifeStands
  <2> QED BY <2>1, <2>2, <2>3, <2>4, LifeEnds
<1>6. CASE UNCHANGED lifeVars
  <2>1. life' = life /\ sdk' = sdk /\ tools' = tools
    BY <1>6 DEF lifeVars
  <2>2. LifeTyped'
    BY <2>1 DEF LifeInv, LifeTyped
  <2> QED BY <2>1, <2>2, LifeRests DEF LifeInv
<1> QED BY <1>1, <1>2, <1>3, <1>4, <1>5, <1>6 DEF LifeNext

\* What is known of the calls is what the lifecycle promises.
LEMMA LifeFollows == LifeInv => LifecycleHolds
<1> SUFFICES ASSUME LifeInv, NEW l \in LifeCalls, life[l].at = "ended"
             PROVE  /\ life[l].answer = "OWS_SDK_NOT_INSTALLED" =>
                          \A m \in LifeCalls : life[m].at # "sdk" /\ life[m].did # "sdk"
                    /\ life[l].did = "cli" /\ life[l].kind \in VaultKinds => ~SdkServes(l)
                    /\ life[l].kind \in ConfirmedKinds /\ life[l].did # "nothing" => life[l].given
                    /\ life[l].answer \in {"OWS_CONFIRM_REQUIRED", "OWS_SDK_NOT_INSTALLED"} =>
                          life[l].did = "nothing"
                    /\ life[l].answer = "untyped" => life[l].kind \in VaultKinds
  BY DEF LifecycleHolds
<1>1. \A m \in LifeCalls : LifeStands(m)
  BY DEF LifeInv
<1>2. life[l].answer = "OWS_SDK_NOT_INSTALLED" =>
        \A m \in LifeCalls : life[m].at # "sdk" /\ life[m].did # "sdk"
  BY <1>1 DEF LifeStands
<1> QED BY <1>1, <1>2 DEF LifeStands

-------------------------------------------------------------------------------
(* Settlements of the Celo rail.                                           *)

\* A settlement that was sent had an adapter for its gas, and one that has
\* answered was carried out or ran out.
SettleInv ==
    \A s \in Settles :
        /\ settling[s].at = "sent" => feeAdapter
        /\ settling[s].at = "settled" => feeAdapter /\ settling[s].auth \in used \cup lapsed

\* The table of settlements has a row for each.
SettleRows == \E D : settling \in [Settles -> [at : {"idle", "sent", "settled", "threw"}, auth : D]]

\* What is known of the settlements.
SettleAll == SettleInv /\ SettleRows

\* Nothing was settled at first.
LEMMA SettleInitially == CeloInit => SettleAll
<1> SUFFICES ASSUME CeloInit PROVE SettleAll
  OBVIOUS
<1>1. SettleInv
  BY DEF CeloInit, SettleInv
<1>2. settling \in [Settles -> [at : {"idle", "sent", "settled", "threw"},
                                auth : {CHOOSE a \in Authorizations : TRUE}]]
  BY DEF CeloInit
<1> QED BY <1>1, <1>2 DEF SettleAll, SettleRows

\* Every step of the settlements keeps it.
LEMMA SettleStep == SettleAll /\ [SettleNext]_settleVars => SettleAll'
<1> SUFFICES ASSUME SettleAll, [SettleNext]_settleVars PROVE SettleAll'
  OBVIOUS
<1>1. PICK D : settling \in [Settles -> [at : {"idle", "sent", "settled", "threw"}, auth : D]]
  BY DEF SettleAll, SettleRows
<1>2. SettleInv
  BY DEF SettleAll
<1>3. ASSUME NEW s \in Settles, NEW a \in Authorizations, Send(s, a) PROVE SettleAll'
  <2>1. PICK goes \in {"sent", "threw"} :
          /\ goes = "sent" => feeAdapter
          /\ settling' = [settling EXCEPT ![s] = [at |-> goes, auth |-> a]]
          /\ feeAdapter' = feeAdapter /\ used' = used /\ lapsed' = lapsed
    BY <1>3 DEF Send
  <2>2. settling' \in [Settles -> [at : {"idle", "sent", "settled", "threw"}, auth : D \cup {a}]]
    BY <1>1, <2>1
  <2>3. SettleInv'
    BY <1>1, <1>2, <2>1 DEF SettleInv
  <2> QED BY <2>2, <2>3 DEF SettleAll, SettleRows
<1>4. ASSUME NEW s \in Settles, Settled(s) PROVE SettleAll'
  <2>1. /\ settling' = [settling EXCEPT ![s].at = "settled"] /\ settling[s].at = "sent"
        /\ used' = (IF settling[s].auth \in lapsed THEN used ELSE used \cup {settling[s].auth})
        /\ feeAdapter' = feeAdapter /\ lapsed' = lapsed
    BY <1>4 DEF Settled
  <2>2. settling' \in [Settles -> [at : {"idle", "sent", "settled", "threw"}, auth : D]]
    BY <1>1, <2>1
  <2>3. used \subseteq used' /\ settling[s].auth \in used' \cup lapsed
    BY <2>1
  <2>4. /\ settling'[s].at = "settled" /\ settling'[s].auth = settling[s].auth
        /\ \A q \in Settles \ {s} : settling'[q] = settling[q]
    BY <1>1, <2>1
  <2>5. SettleInv'
    BY <1>2, <2>1, <2>3, <2>4 DEF SettleInv
  <2> QED BY <2>2, <2>5 DEF SettleAll, SettleRows
<1>5. ASSUME NEW s \in Settles, SettleTimesOut(s) PROVE SettleAll'
  <2>1. /\ settling' = [settling EXCEPT ![s].at = "threw"] /\ used \subseteq used'
        /\ feeAdapter' = feeAdapter /\ lapsed' = lapsed
    BY <1>5 DEF SettleTimesOut
  <2>2. settling' \in [Settles -> [at : {"idle", "sent", "settled", "threw"}, auth : D]]
    BY <1>1, <2>1
  <2>3. settling'[s].at = "threw" /\ \A q \in Settles \ {s} : settling'[q] = settling[q]
    BY <1>1, <2>1
  <2>4. SettleInv'
    BY <1>2, <2>1, <2>3 DEF SettleInv
  <2> QED BY <2>2, <2>4 DEF SettleAll, SettleRows
<1>6. ASSUME NEW a \in Authorizations, Lapse(a) PROVE SettleAll'
  BY <1>1, <1>2, <1>6 DEF Lapse, SettleInv, SettleAll, SettleRows
<1>7. CASE UNCHANGED settleVars
  BY <1>1, <1>2, <1>7 DEF settleVars, SettleInv, SettleAll, SettleRows
<1> QED BY <1>3, <1>4, <1>5, <1>6, <1>7 DEF SettleNext

-------------------------------------------------------------------------------
(* Corridors of Mento.                                                     *)

\* A corridor that is offered at one for one or worse has counted the units of the
\* two coins as slippage, and found it tolerable.
LEMMA UnitsTell ==
  ASSUME NEW mid \in Nat, mid # 0, NEW rate \in Nat, rate <= Par,
         Quote(mid, rate, "USDC") # 0, Slippage(mid, Quote(mid, rate, "USDC")) <= MaxSlippage
  PROVE  (Shrink - 1) * Par < (MaxSlippage + 1) * Shrink
<1> DEFINE out == Quote(mid, rate, "USDC")
<1>1. Par \in Nat /\ Par > 0 /\ Shrink \in Nat /\ Shrink > 0 /\ MaxSlippage \in Nat
  BY CeloAssumption
<1>2. out \in Nat /\ out * Shrink <= mid
  <2>1. mid * rate \in Nat /\ Par * Shrink \in Nat /\ Par * Shrink > 0
    BY <1>1
  <2>2. out = (mid * rate) \div (Par * Shrink)
    BY DEF Quote
  <2>3. out \in Nat /\ (Par * Shrink) * out <= mid * rate
    BY <2>1, <2>2, QuotientBounds
  <2>4. mid * rate <= mid * Par
    BY <1>1
  <2> HIDE DEF out
  <2>5. (Par * Shrink) * out = (out * Shrink) * Par /\ out * Shrink \in Nat
    BY <1>1, <2>3
  <2>6. (out * Shrink) * Par <= mid * Par
    BY <1>1, <2>1, <2>3, <2>4, <2>5
  <2>7. ~(mid < out * Shrink)
    <3>1. SUFFICES ASSUME mid + 1 <= out * Shrink PROVE FALSE
      BY <2>5
    <3>2. (mid + 1) * Par <= (out * Shrink) * Par
      BY ONLY <1>1, <2>5, <3>1, mid \in Nat, ProductOrder
    <3>3. (mid + 1) * Par = mid * Par + Par
      BY <1>1
    <3> QED BY <1>1, <2>5, <2>6, <3>2, <3>3
  <2> QED BY <2>3, <2>5, <2>7
<1> HIDE DEF out
<1>3. CASE out >= mid
  <2>1. Shrink = 1
    <3>1. SUFFICES ASSUME Shrink >= 2 PROVE FALSE
      BY <1>1
    <3>2. 2 * out <= Shrink * out
      BY ONLY <1>1, <1>2, <3>1, ProductOrder
    <3>3. Shrink * out <= mid /\ Shrink * out \in Nat
      BY <1>1, <1>2
    <3> QED BY ONLY <1>2, <1>3, <3>2, <3>3, mid \in Nat, mid # 0
  <2> QED BY <1>1, <2>1
<1>4. CASE out < mid
  <2> DEFINE lost == mid - out
  <2>1. lost \in Nat /\ lost * Par \in Nat
    BY <1>1, <1>2, <1>4
  <2>2. Slippage(mid, out) = (lost * Par) \div mid
    BY <1>2, <1>4 DEF Slippage
  <2> HIDE DEF lost
  <2>3. lost * Par < mid * (MaxSlippage + 1)
    <3>1. /\ Slippage(mid, out) \in Nat /\ lost * Par < mid * (Slippage(mid, out) + 1)
      BY <2>1, <2>2, QuotientBounds
    <3>2. Slippage(mid, out) <= MaxSlippage
      BY DEF out
    <3> HIDE DEF Slippage
    <3>3. (Slippage(mid, out) + 1) * mid <= (MaxSlippage + 1) * mid
      BY <1>1, <3>1, <3>2, ProductOrder
    <3> QED BY <1>1, <2>1, <3>1, <3>3
  <2>4. mid * (Shrink - 1) <= lost * Shrink
    <3>1. lost * Shrink = mid * Shrink - out * Shrink
      BY <1>1, <1>2 DEF lost
    <3>2. mid * (Shrink - 1) = mid * Shrink - mid
      BY <1>1
    <3> QED BY <1>1, <1>2, <3>1, <3>2
  <2>5. (mid * (Shrink - 1)) * Par <= (lost * Shrink) * Par
    BY <1>1, <2>1, <2>4, ProductOrder
  <2>6. (lost * Shrink) * Par = (lost * Par) * Shrink
    BY <1>1, <2>1
  <2>7. (lost * Par) * Shrink < (mid * (MaxSlippage + 1)) * Shrink
    <3>1. lost * Par + 1 <= mid * (MaxSlippage + 1)
      BY <1>1, <2>1, <2>3
    <3>2. (lost * Par + 1) * Shrink <= (mid * (MaxSlippage + 1)) * Shrink
      BY <1>1, <2>1, <3>1, ProductOrder
    <3>3. (lost * Par + 1) * Shrink = (lost * Par) * Shrink + Shrink
      BY <1>1, <2>1
    <3> QED BY <1>1, <2>1, <3>2, <3>3
  <2>8. /\ (mid * (Shrink - 1)) * Par = ((Shrink - 1) * Par) * mid
        /\ (mid * (MaxSlippage + 1)) * Shrink = ((MaxSlippage + 1) * Shrink) * mid
    BY <1>1
  <2>9. ((Shrink - 1) * Par) * mid < ((MaxSlippage + 1) * Shrink) * mid
    BY <1>1, <2>1, <2>5, <2>6, <2>7, <2>8
  <2>10. (Shrink - 1) * Par \in Nat /\ (MaxSlippage + 1) * Shrink \in Nat
    BY <1>1
  <2> QED BY <2>9, <2>10, ProductStrict
<1> QED BY <1>2, <1>3, <1>4

\* What holds of a decision of the corridors.
CorridorInv ==
    corridor.kind # "no-route" =>
        corridor.quoted[2] > Par \/ (Shrink - 1) * Par < (MaxSlippage + 1) * Shrink

\* Every decision does.
LEMMA CorridorStep == CorridorInv /\ [CorridorNext]_corridor => CorridorInv'
<1> SUFFICES ASSUME CorridorInv, [CorridorNext]_corridor PROVE CorridorInv'
  OBVIOUS
<1>1. CASE corridor' = corridor
  BY <1>1 DEF CorridorInv
<1>2. ASSUME NEW assetIn \in {"USDm", "cKES"}, NEW amount \in {0, Par, Par * Shrink},
             NEW rates \in Rates \X Rates, NEW floor \in {0, Par},
             Select(assetIn, amount, rates, floor)
      PROVE  CorridorInv'
  <2> DEFINE mid == IF assetIn = "USDm" THEN amount ELSE Quote(amount, rates[1], "USDm")
             out == Quote(mid, rates[2], "USDC")
  <2>1. amount \in Nat /\ rates[1] \in Nat /\ rates[2] \in Nat /\ Par \in Nat /\ Par > 0
    <3>1. Par \in Nat /\ Par > 0 /\ Shrink \in Nat /\ Rates \subseteq Nat
      BY CeloAssumption
    <3>2. Par * Shrink \in Nat
      BY <3>1
    <3>3. rates[1] \in Rates /\ rates[2] \in Rates
      OBVIOUS
    <3>4. {0, Par, Par * Shrink} \subseteq Nat
      BY ONLY <3>1, <3>2
    <3>5. amount \in Nat
      BY <3>4, Zenon
    <3> QED BY <3>1, <3>3, <3>5
  <2>2. mid \in Nat
    <3>1. amount * rates[1] \in Nat /\ Par * 1 \in Nat /\ Par * 1 > 0
      BY <2>1
    <3>2. (amount * rates[1]) \div (Par * 1) \in Nat
      BY <3>1, QuotientBounds
    <3> QED BY <2>1, <3>2 DEF Quote
  <2>3. CASE amount = 0 \/ mid = 0 \/ out = 0 \/ Slippage(mid, out) > MaxSlippage
             \/ (floor # 0 /\ out < floor)
    BY <1>2, <2>3 DEF Select, NoRoute, CorridorInv
  <2>4. CASE ~(amount = 0 \/ mid = 0 \/ out = 0 \/ Slippage(mid, out) > MaxSlippage
               \/ (floor # 0 /\ out < floor))
    <3>1. corridor'.quoted = rates
      BY <1>2, <2>4 DEF Select
    <3>2. Slippage(mid, out) <= MaxSlippage
      <4>1. Slippage(mid, out) \in Nat /\ MaxSlippage \in Nat
        <5>1. out \in Nat
          <6>0. Shrink \in Nat /\ Shrink > 0
            BY CeloAssumption
          <6> HIDE DEF mid
          <6>1. mid * rates[2] \in Nat /\ Par * Shrink \in Nat /\ Par * Shrink > 0
            BY <2>1, <2>2, <6>0
          <6>2. (mid * rates[2]) \div (Par * Shrink) \in Nat
            BY <6>1, QuotientBounds
          <6> QED BY <6>2 DEF Quote
        <5> HIDE DEF mid, out
        <5>2. out < mid => (mid - out) * Par \in Nat /\ mid > 0
          BY <2>1, <2>2, <5>1
        <5>3. out < mid => ((mid - out) * Par) \div mid \in Nat
          BY <2>2, <5>2, QuotientBounds
        <5> QED BY <2>2, <5>1, <5>3, CeloAssumption DEF Slippage
      <4> HIDE DEF mid, out
      <4> QED BY <2>4, <4>1
    <3>3. rates[2] <= Par => (Shrink - 1) * Par < (MaxSlippage + 1) * Shrink
      BY <2>1, <2>2, <2>4, <3>2, UnitsTell
    <3>4. rates[2] <= Par \/ rates[2] > Par
      BY <2>1
    <3> QED BY <3>1, <3>3, <3>4 DEF CorridorInv
  <2> QED BY <2>3, <2>4
<1> QED BY <1>1, <1>2 DEF CorridorNext

-------------------------------------------------------------------------------
(* The visa tracker.                                                       *)

\* The stored state of an agent, and what a record may hold.
VisaStates == [count : Nat, tier : {"none", "tourist", "work", "citizenship"}]
VisaRecords ==
    [at : {"idle", "queued", "read", "gathered", "torn", "done", "threw"},
     key : Keys \cup {NoRecord.key}, read : VisaStates, all : [Agents -> VisaStates]]

\* The types of the tracker.
VisaTyped ==
    /\ file \in BOOLEAN /\ selfId \in BOOLEAN
    /\ store \in [Agents -> VisaStates]
    /\ recording \in [Records -> VisaRecords]
    /\ lines \in [Keys -> Seq(Records)]
    /\ \A r \in Records : recording[r].at # "idle" => recording[r].key \in Keys

Works == {"read", "gathered", "torn"}

\* A record that is queued or works is on the line of its key, and works only at
\* its head.
LineHolds(r) ==
    /\ recording[r].at \in {"queued"} \cup Works =>
          \E i \in 1..Len(lines[recording[r].key]) : lines[recording[r].key][i] = r
    /\ recording[r].at \in Works => Head(lines[recording[r].key]) = r
    /\ recording[r].at \in {"gathered", "torn"} => file

\* A state of an agent that counts no more payments than were made.
Sound(g, state) == state.count <= Cardinality(DoneFor(g)) /\ state.tier = Tier(state.count)

\* So are the stored states, and those a record has read or gathered.
SoundInv ==
    /\ \A g \in Agents : Sound(g, store[g])
    /\ \A r \in Records :
          /\ recording[r].at \in Works => Sound(recording[r].key[1], recording[r].read)
          /\ recording[r].at \in {"gathered", "torn"} => \A g \in Agents : Sound(g, recording[r].all[g])

\* The agents of which the storage counts every payment.
Alone(g) == WrittenOneWay(g) /\ (~file \/ Recorded \subseteq {g})

\* For them it does, and a record that works has read the count as it is.
ExactFor(g) ==
    Alone(g) =>
        /\ store[g].count = Cardinality(DoneFor(g))
        /\ \A r \in Records : recording[r].at \in Works /\ recording[r].key[1] = g =>
              recording[r].read.count = store[g].count

\* What is known of the tracker.
VisaInv ==
    /\ VisaTyped /\ SoundInv
    /\ \A r \in Records : LineHolds(r)
    /\ \A g \in Agents : ExactFor(g)

\* Nothing was recorded at first.
LEMMA NoRecordTyped == NoRecord \in VisaRecords /\ Unseen \in VisaStates /\ NoRecord.at = "idle"
<1>1. Unseen \in VisaStates
  BY DEF Unseen, VisaStates
<1>2. [g \in Agents |-> Unseen] \in [Agents -> VisaStates]
  BY <1>1
<1>3. /\ NoRecord.at = "idle" /\ NoRecord.read = Unseen /\ NoRecord.all = [g \in Agents |-> Unseen]
  BY DEF NoRecord
<1>4. NoRecord = [at |-> NoRecord.at, key |-> NoRecord.key, read |-> NoRecord.read, all |-> NoRecord.all]
  BY DEF NoRecord
<1> QED BY <1>1, <1>2, <1>3, <1>4 DEF VisaRecords

\* So nothing is counted.
LEMMA VisaInitially == CeloInit => VisaInv
<1> SUFFICES ASSUME CeloInit PROVE VisaInv
  OBVIOUS
<1>1. /\ \A r \in Records : recording[r].at = "idle"
      /\ \A g \in Agents : store[g].count = 0 /\ store[g].tier = "none"
  BY NoRecordTyped DEF CeloInit, Unseen
<1>2. VisaTyped
  <2>1. \A k \in Keys : <<>> \in Seq(Records)
    OBVIOUS
  <2> QED BY <1>1, <2>1, NoRecordTyped DEF CeloInit, VisaTyped
<1>3. \A g \in Agents : DoneFor(g) = {}
  BY <1>1 DEF DoneFor
<1>4. \A g \in Agents : Cardinality(DoneFor(g)) = 0
  BY <1>3, FS_EmptySet
<1>5. SoundInv
  BY <1>1, <1>4 DEF SoundInv, Sound, Tier, Works
<1>6. ASSUME NEW r \in Records PROVE LineHolds(r)
  BY <1>1 DEF LineHolds, Works
<1>7. ASSUME NEW g \in Agents PROVE ExactFor(g)
  BY <1>1, <1>4 DEF ExactFor, Works
<1> QED BY <1>2, <1>5, <1>6, <1>7 DEF VisaInv

\* One more payment is done, or none.
LEMMA DoneGrows ==
  ASSUME VisaInv, NEW r \in Records, recording[r].at # "done",
         \A q \in Records \ {r} : recording'[q] = recording[q], NEW g \in Agents
  PROVE  /\ Cardinality(DoneFor(g)) \in Nat
         /\ recording'[r].at = "done" /\ recording'[r].key[1] = g =>
               Cardinality(DoneFor(g)') = Cardinality(DoneFor(g)) + 1
         /\ ~(recording'[r].at = "done" /\ recording'[r].key[1] = g) =>
               Cardinality(DoneFor(g)') = Cardinality(DoneFor(g))
<1>1. DoneFor(g) \subseteq Records /\ r \notin DoneFor(g)
  BY DEF DoneFor
<1>2. IsFiniteSet(DoneFor(g)) /\ Cardinality(DoneFor(g)) \in Nat
  BY <1>1, CeloAssumption, FS_Subset, FS_CardinalityType
<1>3. CASE recording'[r].at = "done" /\ recording'[r].key[1] = g
  <2>1. DoneFor(g)' = DoneFor(g) \cup {r}
    BY <1>1, <1>3 DEF DoneFor
  <2>2. Cardinality(DoneFor(g) \cup {r}) = Cardinality(DoneFor(g)) + 1
    BY <1>1, <1>2, FS_AddElement
  <2> QED BY <1>2, <1>3, <2>1, <2>2
<1>4. CASE ~(recording'[r].at = "done" /\ recording'[r].key[1] = g)
  <2>1. DoneFor(g)' = DoneFor(g)
    BY <1>1, <1>4 DEF DoneFor
  <2> QED BY <1>2, <1>4, <2>1
<1> QED BY <1>3, <1>4

\* An agent's address that is written in one way now was so before, and whoever
\* pays alone did.
LEMMA AloneBefore ==
  ASSUME VisaInv, NEW r \in Records, file' = file,
         \A q \in Records \ {r} : recording'[q] = recording[q],
         recording[r].at = "idle" \/ (recording'[r].key = recording[r].key /\ recording'[r].at # "idle"),
         NEW g \in Agents, Alone(g)'
  PROVE  Alone(g)
<1>1. SpellingsOf(g) \subseteq SpellingsOf(g)' /\ Recorded \subseteq Recorded'
  <2>1. ASSUME NEW q \in Records, recording[q].at # "idle"
        PROVE  recording'[q].at # "idle" /\ recording'[q].key = recording[q].key
    BY <2>1
  <2> QED BY <2>1 DEF SpellingsOf, Recorded
<1>2. PICK w \in Spellings : SpellingsOf(g)' \subseteq {w}
  BY DEF Alone, WrittenOneWay
<1>3. WrittenOneWay(g)
  BY <1>1, <1>2 DEF WrittenOneWay
<1>4. ~file \/ Recorded \subseteq {g}
  BY <1>1 DEF Alone
<1> QED BY <1>3, <1>4 DEF Alone

\* Two records that work for an agent alone are one.
LEMMA OneWorks ==
  ASSUME VisaInv, NEW g \in Agents, WrittenOneWay(g),
         NEW r \in Records, recording[r].at \in Works, recording[r].key[1] = g,
         NEW q \in Records, recording[q].at \in Works, recording[q].key[1] = g
  PROVE  q = r
<1>1. recording[r].key \in Keys /\ recording[q].key \in Keys
  BY DEF VisaInv, VisaTyped, Works
<1>2. recording[r].key[2] = recording[q].key[2]
  <2>1. recording[r].key[2] \in SpellingsOf(g) /\ recording[q].key[2] \in SpellingsOf(g)
    BY DEF SpellingsOf, Works
  <2> QED BY <2>1 DEF WrittenOneWay
<1>3. recording[r].key = recording[q].key
  BY <1>1, <1>2 DEF Keys
<1> QED BY <1>3 DEF VisaInv, LineHolds

\* A state that is sound stays so as payments are made.
LEMMA SoundStays ==
  ASSUME VisaInv, NEW r \in Records, recording[r].at # "done", selfId' = selfId,
         \A q \in Records \ {r} : recording'[q] = recording[q],
         NEW g \in Agents, NEW state \in VisaStates, Sound(g, state)
  PROVE  state.count <= Cardinality(DoneFor(g)') /\ state.tier = Tier(state.count)'
<1>1. state.count \in Nat /\ state.count <= Cardinality(DoneFor(g)) /\ state.tier = Tier(state.count)
  BY DEF Sound, VisaStates
<1>2. PICK k \in Nat : k = Cardinality(DoneFor(g)') /\ Cardinality(DoneFor(g)) <= k /\ Cardinality(DoneFor(g)) \in Nat
  <2>1. Cardinality(DoneFor(g)) \in Nat
    BY DoneGrows
  <2>2. \/ Cardinality(DoneFor(g)') = Cardinality(DoneFor(g)) + 1
        \/ Cardinality(DoneFor(g)') = Cardinality(DoneFor(g))
    BY DoneGrows
  <2> QED BY <2>1, <2>2
<1>3. state.count <= k
  BY <1>1, <1>2
<1>4. Tier(state.count)' = Tier(state.count)
  BY DEF Tier
<1> QED BY <1>1, <1>2, <1>3, <1>4

\* A record that works on, or begins to at the head of its line, leaves the lines.
LEMMA LinesStay ==
  ASSUME VisaInv, NEW r \in Records, NEW x \in VisaRecords, recording' = [recording EXCEPT ![r] = x],
         recording[r].at \in {"queued"} \cup Works, x.at \in Works, x.key = recording[r].key,
         Head(lines[recording[r].key]) = r, x.at \in {"gathered", "torn"} => file,
         lines' = lines, file' = file
  PROVE  \A q \in Records : LineHolds(q)'
<1> SUFFICES ASSUME NEW q \in Records PROVE LineHolds(q)'
  OBVIOUS
<1>1. recording \in [Records -> VisaRecords] /\ LineHolds(q) /\ LineHolds(r)
  BY DEF VisaInv, VisaTyped
<1>2. CASE q = r
  <2>1. recording'[q] = x
    BY <1>1, <1>2
  <2> QED BY <1>1, <1>2, <2>1 DEF LineHolds
<1>3. CASE q # r
  <2>1. recording'[q] = recording[q]
    BY <1>1, <1>3
  <2> QED BY <1>1, <2>1 DEF LineHolds
<1> QED BY <1>2, <1>3

\* The record at the head of its line leaves it to those behind.
LEMMA LinesRelease ==
  ASSUME VisaInv, NEW r \in Records, NEW x \in VisaRecords, recording' = [recording EXCEPT ![r] = x],
         recording[r].at \in {"queued"} \cup Works, x.at \in {"done", "threw"},
         Head(lines[recording[r].key]) = r,
         lines' = [lines EXCEPT ![recording[r].key] = Tail(@)], file' = file
  PROVE  lines' \in [Keys -> Seq(Records)] /\ \A q \in Records : LineHolds(q)'
<1> DEFINE k == recording[r].key
           line == lines[k]
<1>1. /\ recording \in [Records -> VisaRecords] /\ lines \in [Keys -> Seq(Records)] /\ k \in Keys
      /\ LineHolds(r)
  BY DEF VisaInv, VisaTyped, Works
<1>2. line \in Seq(Records) /\ line # <<>> /\ line[1] = r
  BY <1>1 DEF LineHolds
<1>3. Tail(line) \in Seq(Records) /\ lines'[k] = Tail(line)
  BY <1>1, <1>2
<1>4. lines' \in [Keys -> Seq(Records)]
  BY <1>1, <1>3
<1>5. ASSUME NEW q \in Records PROVE LineHolds(q)'
  <2>1. CASE q = r
    <3>1. recording'[q] = x
      BY <1>1, <2>1
    <3> QED BY <3>1 DEF LineHolds, Works
  <2>2. CASE q # r
    <3>1. recording'[q] = recording[q] /\ LineHolds(q)
      BY <1>1, <2>2 DEF VisaInv
    <3>2. CASE recording[q].key = k
      <4>1. recording[q].at \notin Works
        BY <1>2, <2>2, <3>1, <3>2 DEF LineHolds
      <4>2. recording[q].at = "queued" => \E i \in 1..Len(Tail(line)) : Tail(line)[i] = q
        <5>1. SUFFICES ASSUME recording[q].at = "queued" PROVE \E i \in 1..Len(Tail(line)) : Tail(line)[i] = q
          OBVIOUS
        <5>2. PICK i \in 1..Len(line) : line[i] = q
          BY <3>1, <3>2, <5>1 DEF LineHolds
        <5>3. i - 1 \in 1..Len(Tail(line)) /\ Tail(line)[i - 1] = q
          BY <1>2, <2>2, <5>2
        <5> QED BY <5>3
      <4> QED BY <1>3, <3>1, <3>2, <4>1, <4>2 DEF LineHolds, Works
    <3>3. CASE recording[q].key # k
      <4>1. recording[q].at \in {"queued"} \cup Works => lines'[recording[q].key] = lines[recording[q].key]
        BY <1>1, <3>3 DEF VisaInv, VisaTyped, Works
      <4> QED BY <3>1, <4>1 DEF LineHolds
    <3> QED BY <3>2, <3>3
  <2> QED BY <2>1, <2>2
<1> QED BY <1>4, <1>5

\* A record that is queued comes behind those on its line.
LEMMA LinesQueue ==
  ASSUME VisaInv, NEW r \in Records, NEW key \in Keys, NEW x \in VisaRecords,
         recording' = [recording EXCEPT ![r] = x], recording[r].at = "idle",
         x.at = "queued", x.key = key,
         lines' = [lines EXCEPT ![key] = Append(@, r)], file' = file
  PROVE  lines' \in [Keys -> Seq(Records)] /\ \A q \in Records : LineHolds(q)'
<1> DEFINE line == lines[key]
<1>1. /\ recording \in [Records -> VisaRecords] /\ lines \in [Keys -> Seq(Records)]
  BY DEF VisaInv, VisaTyped
<1>2. /\ line \in Seq(Records) /\ Append(line, r) \in Seq(Records) /\ lines'[key] = Append(line, r)
      /\ Len(Append(line, r)) = Len(line) + 1 /\ Append(line, r)[Len(line) + 1] = r
      /\ \A i \in 1..Len(line) : Append(line, r)[i] = line[i] /\ i \in 1..(Len(line) + 1)
  BY <1>1
<1>3. lines' \in [Keys -> Seq(Records)]
  BY <1>1, <1>2
<1>4. ASSUME NEW q \in Records PROVE LineHolds(q)'
  <2>1. CASE q = r
    <3>1. recording'[q] = x
      BY <1>1, <2>1
    <3>2. Len(line) + 1 \in 1..(Len(line) + 1)
      BY <1>2
    <3>3. \E i \in 1..Len(lines'[key]) : lines'[key][i] = r
      BY <1>2, <3>2
    <3> QED BY <2>1, <3>1, <3>3 DEF LineHolds, Works
  <2>2. CASE q # r
    <3>1. recording'[q] = recording[q] /\ LineHolds(q)
      BY <1>1, <2>2 DEF VisaInv
    <3>2. CASE recording[q].key = key /\ recording[q].at \in {"queued"} \cup Works
      <4>1. PICK i \in 1..Len(line) : line[i] = q
        BY <3>1, <3>2 DEF LineHolds
      <4>2. i \in 1..Len(lines'[key]) /\ lines'[key][i] = q
        BY <1>2, <4>1
      <4>3. Head(Append(line, r)) = Head(line)
        BY <1>2, <4>1
      <4> QED BY <1>2, <3>1, <3>2, <4>2, <4>3 DEF LineHolds
    <3>3. CASE recording[q].key # key \/ recording[q].at \notin {"queued"} \cup Works
      <4>1. recording[q].at \in {"queued"} \cup Works => lines'[recording[q].key] = lines[recording[q].key]
        BY <1>1, <3>3 DEF VisaInv, VisaTyped, Works
      <4> QED BY <3>1, <4>1 DEF LineHolds, Works
    <3> QED BY <3>2, <3>3
  <2> QED BY <2>1, <2>2
<1> QED BY <1>3, <1>4

\* A step that stores nothing: what a record holds it has read, or held before.
LEMMA VisaMoves ==
  ASSUME VisaInv, NEW r \in Records, NEW x \in VisaRecords, recording' = [recording EXCEPT ![r] = x],
         recording[r].at # "done", x.at \notin {"idle", "done"}, x.key \in Keys,
         recording[r].at = "idle" \/ x.key = recording[r].key,
         file' = file, selfId' = selfId, store' = store, lines' \in [Keys -> Seq(Records)],
         \A q \in Records : LineHolds(q)',
         x.at \in Works =>
             x.read = store[x.key[1]] \/ (recording[r].at \in Works /\ x.read = recording[r].read),
         x.at \in {"gathered", "torn"} =>
             x.all = store \/ (recording[r].at \in {"gathered", "torn"} /\ x.all = recording[r].all)
  PROVE  VisaInv'
<1>1. /\ recording \in [Records -> VisaRecords] /\ store \in [Agents -> VisaStates]
      /\ SoundInv /\ VisaTyped
  BY DEF VisaInv, VisaTyped
<1>2. recording'[r] = x /\ \A q \in Records \ {r} : recording'[q] = recording[q]
  BY <1>1
<1>3. VisaTyped'
  BY <1>1, <1>2 DEF VisaTyped
<1>4. \A g \in Agents : /\ Cardinality(DoneFor(g)) \in Nat
                        /\ Cardinality(DoneFor(g)') = Cardinality(DoneFor(g))
  BY <1>2, DoneGrows
<1>5. \A g \in Agents, state \in VisaStates : Sound(g, state) => Sound(g, state)'
  BY <1>2, SoundStays DEF Sound
<1>6. x.key[1] \in Agents
  BY DEF Keys
<1>7. SoundInv'
  <2>1. \A g \in Agents : Sound(g, store[g])'
    BY <1>1, <1>5 DEF SoundInv, Sound
  <2>2. ASSUME NEW q \in Records
        PROVE  /\ recording'[q].at \in Works => Sound(recording[q].key[1], recording[q].read)'
               /\ recording'[q].at \in {"gathered", "torn"} =>
                     \A g \in Agents : Sound(g, recording[q].all[g])'
    <3>1. CASE q = r
      <4>1. recording[r].at \in Works => Sound(recording[r].key[1], recording[r].read)
        BY <1>1 DEF SoundInv
      <4>2. x.at \in Works => Sound(x.key[1], x.read)
        BY <1>1, <1>6, <4>1 DEF SoundInv, Works
      <4>3. x.at \in {"gathered", "torn"} => \A g \in Agents : Sound(g, x.all[g])
        BY <1>1 DEF SoundInv
      <4>4. x.read \in VisaStates /\ \A g \in Agents : x.all[g] \in VisaStates
        BY DEF VisaRecords
      <4>5. x.at \in Works => Sound(x.key[1], x.read)'
        BY <1>5, <1>6, <4>2, <4>4
      <4>6. x.at \in {"gathered", "torn"} => \A g \in Agents : Sound(g, x.all[g])'
        BY <1>5, <4>3, <4>4
      <4> QED BY <1>2, <3>1, <4>5, <4>6 DEF Sound
    <3>2. CASE q # r
      <4>1. recording'[q] = recording[q] /\ recording[q] \in VisaRecords
        BY <1>1, <1>2, <3>2
      <4>2. recording[q].at \in Works => recording[q].key[1] \in Agents
        BY <1>1 DEF VisaTyped, Works, Keys
      <4>3. recording[q].read \in VisaStates /\ \A g \in Agents : recording[q].all[g] \in VisaStates
        BY <4>1 DEF VisaRecords
      <4> QED BY <1>1, <1>5, <4>1, <4>2, <4>3 DEF SoundInv, Sound
    <3> QED BY <3>1, <3>2
  <2> QED BY <2>1, <2>2 DEF SoundInv
<1>8. ASSUME NEW g \in Agents PROVE ExactFor(g)'
  <2> SUFFICES ASSUME Alone(g)'
               PROVE  /\ store[g].count = Cardinality(DoneFor(g)')
                      /\ \A q \in Records : recording'[q].at \in Works /\ recording'[q].key[1] = g =>
                            recording'[q].read.count = store[g].count
    BY DEF ExactFor
  <2>1. recording[r].at = "idle" \/ (recording'[r].key = recording[r].key /\ recording'[r].at # "idle")
    BY <1>2
  <2>2. Alone(g)
    BY <1>2, <2>1, AloneBefore
  <2>3. ExactFor(g)
    BY DEF VisaInv
  <2>4. \A q \in Records : recording'[q].at \in Works /\ recording'[q].key[1] = g =>
            recording'[q].read.count = store[g].count
    <3>1. SUFFICES ASSUME NEW q \in Records, recording'[q].at \in Works, recording'[q].key[1] = g
                   PROVE  recording'[q].read.count = store[g].count
      OBVIOUS
    <3>2. CASE q = r
      <4>1. x.at \in Works /\ x.key[1] = g /\ recording'[q] = x
        BY <1>2, <3>1, <3>2
      <4>2. CASE x.read = store[x.key[1]]
        BY <4>1, <4>2
      <4>3. CASE recording[r].at \in Works /\ x.read = recording[r].read
        <5>1. recording[r].key[1] = g
          BY <4>1, <4>3 DEF Works
        <5> QED BY <2>2, <2>3, <4>1, <4>3, <5>1 DEF ExactFor
      <4> QED BY <4>1, <4>2, <4>3
    <3>3. CASE q # r
      BY <1>2, <2>2, <2>3, <3>1, <3>3 DEF ExactFor
    <3> QED BY <3>2, <3>3
  <2> QED BY <1>4, <2>2, <2>3, <2>4 DEF ExactFor
<1> QED BY <1>3, <1>7, <1>8 DEF VisaInv

\* A payment is stored: it is done, and counted for its agent over what its record
\* has read; the other agents are as they were, or as the record had gathered them.
LEMMA VisaWrites ==
  ASSUME VisaInv, NEW r \in Records, recording[r].at \in Works, Release(r, "done"),
         NEW base \in [Agents -> VisaStates],
         store' = [base EXCEPT ![recording[r].key[1]] = NextState(r)],
         (base = store /\ ~file) \/ (file /\ recording[r].at = "torn" /\ base = recording[r].all),
         file' = file, selfId' = selfId
  PROVE  VisaInv'
<1> DEFINE k == recording[r].key
           x == [recording[r] EXCEPT !.at = "done"]
<1>1. /\ recording \in [Records -> VisaRecords] /\ store \in [Agents -> VisaStates]
      /\ SoundInv /\ VisaTyped /\ k \in Keys /\ recording[r] \in VisaRecords
      /\ \A q \in Records : LineHolds(q)
  BY DEF VisaInv, VisaTyped, Works
<1>2. /\ recording' = [recording EXCEPT ![r] = x]
      /\ lines' = [lines EXCEPT ![recording[r].key] = Tail(@)]
  BY <1>1 DEF Release
<1>3. /\ x \in VisaRecords /\ x.at = "done" /\ x.key = k
  BY <1>1 DEF VisaRecords
<1> HIDE DEF x
<1>4. recording'[r] = x /\ \A q \in Records \ {r} : recording'[q] = recording[q]
  BY <1>1, <1>2
<1>5. k[1] \in Agents /\ Head(lines[k]) = r
  BY <1>1 DEF Keys, LineHolds
<1>6. lines' \in [Keys -> Seq(Records)] /\ \A q \in Records : LineHolds(q)'
  BY <1>2, <1>3, <1>5, LinesRelease
<1> DEFINE n == recording[r].read.count + 1
<1>7. n \in Nat /\ NextState(r) = [count |-> n, tier |-> Tier(n)] /\ NextState(r) \in VisaStates
  <2>1. recording[r].read.count \in Nat
    BY <1>1 DEF VisaRecords, VisaStates
  <2>2. n \in Nat
    BY <2>1
  <2> HIDE DEF n
  <2>3. Tier(n) \in {"none", "tourist", "work", "citizenship"}
    BY DEF Tier
  <2>4. NextState(r) = [count |-> n, tier |-> Tier(n)]
    BY DEF NextState, n
  <2> QED BY <2>2, <2>3, <2>4 DEF VisaStates
<1>8. /\ store' \in [Agents -> VisaStates] /\ store'[k[1]] = NextState(r)
      /\ \A g \in Agents \ {k[1]} : store'[g] = base[g]
  BY <1>5, <1>7
<1>9. VisaTyped'
  <2>1. recording' \in [Records -> VisaRecords]
    BY <1>1, <1>2, <1>3
  <2>2. \A q \in Records : recording'[q].at # "idle" => recording'[q].key \in Keys
    BY <1>1, <1>3, <1>4 DEF VisaTyped
  <2> QED BY <1>1, <1>6, <1>8, <2>1, <2>2 DEF VisaTyped
<1>10. /\ \A g \in Agents : Cardinality(DoneFor(g)) \in Nat
       /\ \A g \in Agents : g = k[1] => Cardinality(DoneFor(g)') = Cardinality(DoneFor(g)) + 1
       /\ \A g \in Agents \ {k[1]} : Cardinality(DoneFor(g)') = Cardinality(DoneFor(g))
  <2>1. recording[r].at # "done"
    BY DEF Works
  <2> QED BY <1>3, <1>4, <1>5, <2>1, DoneGrows
<1>11. \A g \in Agents, state \in VisaStates : Sound(g, state) => Sound(g, state)'
  <2>1. recording[r].at # "done"
    BY DEF Works
  <2> QED BY <1>4, <2>1, SoundStays DEF Sound
<1>12. SoundInv'
  <2>1. ASSUME NEW g \in Agents PROVE Sound(g, store[g])'
    <3>1. CASE g = k[1]
      <4>1. PICK m \in Nat : m = n
        BY <1>7
      <4>2. store'[g].count = m /\ store'[g].tier = Tier(m)
        BY <1>7, <1>8, <3>1, <4>1
      <4>3. recording[r].read.count <= Cardinality(DoneFor(k[1])) /\ recording[r].read.count \in Nat
        BY <1>1 DEF SoundInv, Sound, VisaRecords, VisaStates
      <4>4. m <= Cardinality(DoneFor(g)')
        <5>1. PICK c \in Nat : c = Cardinality(DoneFor(g)) /\ Cardinality(DoneFor(g)') = c + 1
          BY <1>10, <3>1
        <5>2. m <= c + 1
          BY <3>1, <4>1, <4>3, <5>1
        <5> QED BY <5>1, <5>2, Zenon
      <4>5. Tier(m)' = Tier(m)
        BY DEF Tier
      <4>6. store'[g].count <= Cardinality(DoneFor(g)') /\ store'[g].tier = Tier(store[g].count)'
        <5>1. Tier(store[g].count)' = Tier(m)'
          BY <4>2 DEF Tier
        <5> QED BY <4>2, <4>4, <4>5, <5>1, Zenon
      <4> QED BY <4>6 DEF Sound
    <3>2. CASE g # k[1]
      <4>1. Sound(g, base[g]) /\ base[g] \in VisaStates
        BY <1>1 DEF SoundInv
      <4>2. Sound(g, base[g])'
        BY <1>11, <4>1
      <4> QED BY <1>8, <3>2, <4>2 DEF Sound
    <3> QED BY <3>1, <3>2
  <2>2. ASSUME NEW q \in Records
        PROVE  /\ recording'[q].at \in Works => Sound(recording[q].key[1], recording[q].read)'
               /\ recording'[q].at \in {"gathered", "torn"} =>
                     \A g \in Agents : Sound(g, recording[q].all[g])'
    <3>1. CASE q = r
      BY <1>3, <1>4, <3>1 DEF Works
    <3>2. CASE q # r
      <4>1. recording'[q] = recording[q] /\ recording[q] \in VisaRecords
        BY <1>1, <1>4, <3>2
      <4>2. recording[q].at \in Works => recording[q].key[1] \in Agents
        BY <1>1 DEF VisaTyped, Works, Keys
      <4>3. recording[q].read \in VisaStates /\ \A g \in Agents : recording[q].all[g] \in VisaStates
        BY <4>1 DEF VisaRecords
      <4> QED BY <1>1, <1>11, <4>1, <4>2, <4>3 DEF SoundInv, Sound
    <3> QED BY <3>1, <3>2
  <2> QED BY <2>1, <2>2 DEF SoundInv
<1>13. ASSUME NEW g \in Agents PROVE ExactFor(g)'
  <2> SUFFICES ASSUME Alone(g)'
               PROVE  /\ store'[g].count = Cardinality(DoneFor(g)')
                      /\ \A q \in Records : recording'[q].at \in Works /\ recording'[q].key[1] = g =>
                            recording'[q].read.count = store'[g].count
    BY DEF ExactFor
  <2>1. recording'[r].key = recording[r].key /\ recording'[r].at # "idle"
    BY <1>3, <1>4
  <2>2. Alone(g) /\ ExactFor(g)
    BY <1>4, <2>1, AloneBefore DEF VisaInv
  <2>3. CASE g = k[1]
    <3>1. store'[g].count = Cardinality(DoneFor(g)')
      <4>1. recording[r].read.count = Cardinality(DoneFor(g))
        BY <2>2, <2>3 DEF ExactFor
      <4>2. store'[g].count = n
        BY <1>7, <1>8, <2>3
      <4>3. n = Cardinality(DoneFor(g)) + 1
        BY ONLY <4>1
      <4>4. Cardinality(DoneFor(g)') = Cardinality(DoneFor(g)) + 1
        BY <1>10, <2>3, Zenon
      <4> QED BY <4>2, <4>3, <4>4, Zenon
    <3>2. ASSUME NEW q \in Records, recording'[q].at \in Works, recording'[q].key[1] = g PROVE FALSE
      <4>1. q # r
        BY <1>3, <1>4, <3>2 DEF Works
      <4>2. recording[q].at \in Works /\ recording[q].key[1] = g
        BY <1>4, <3>2, <4>1
      <4> QED BY <2>2, <2>3, <4>1, <4>2, OneWorks DEF Alone
    <3> QED BY <3>1, <3>2
  <2>4. CASE g # k[1]
    <3>1. ~file /\ base = store
      <4>1. k[1] \in Recorded
        BY DEF Recorded, Works
      <4> QED BY <2>2, <2>4, <4>1 DEF Alone
    <3>2. store'[g] = store[g]
      BY <1>8, <2>4, <3>1
    <3>3. ASSUME NEW q \in Records, recording'[q].at \in Works, recording'[q].key[1] = g
          PROVE  recording'[q].read.count = store[g].count
      <4>1. q # r
        BY <1>3, <1>4, <3>3 DEF Works
      <4> QED BY <1>4, <2>2, <3>3, <4>1 DEF ExactFor
    <3> QED BY <1>10, <2>2, <2>4, <3>2, <3>3 DEF ExactFor
  <2> QED BY <2>3, <2>4
<1> QED BY <1>6, <1>9, <1>12, <1>13 DEF VisaInv

\* Every step of the tracker keeps what is known of it.
LEMMA VisaStep == VisaInv /\ [VisaNext]_visaVars => VisaInv'
<1> SUFFICES ASSUME VisaInv, [VisaNext]_visaVars PROVE VisaInv'
  OBVIOUS
<1>1. /\ recording \in [Records -> VisaRecords] /\ store \in [Agents -> VisaStates]
      /\ lines \in [Keys -> Seq(Records)]
      /\ \A q \in Records : LineHolds(q)
      /\ \A q \in Records : recording[q].at # "idle" => recording[q].key \in Keys
  BY DEF VisaInv, VisaTyped
<1>2. ASSUME NEW r \in Records, NEW key \in Keys, Queue(r, key) PROVE VisaInv'
  <2> DEFINE x == [NoRecord EXCEPT !.at = "queued", !.key = key]
  <2>1. /\ recording' = [recording EXCEPT ![r] = x] /\ lines' = [lines EXCEPT ![key] = Append(@, r)]
        /\ recording[r].at = "idle" /\ file' = file /\ selfId' = selfId /\ store' = store
    BY <1>2 DEF Queue
  <2>2. x \in VisaRecords /\ x.at = "queued" /\ x.key = key
    BY NoRecordTyped DEF VisaRecords
  <2> HIDE DEF x
  <2>3. lines' \in [Keys -> Seq(Records)] /\ \A q \in Records : LineHolds(q)'
    BY <2>1, <2>2, LinesQueue
  <2> QED BY <2>1, <2>2, <2>3, VisaMoves DEF Works
<1>3. ASSUME NEW r \in Records, recording[r].at \in {"queued"} \cup Works, Turn(r), Release(r, "threw"),
             file' = file, selfId' = selfId, store' = store
      PROVE  VisaInv'
  <2> DEFINE x == [recording[r] EXCEPT !.at = "threw"]
  <2>1. /\ recording' = [recording EXCEPT ![r] = x] /\ lines' = [lines EXCEPT ![recording[r].key] = Tail(@)]
        /\ Head(lines[recording[r].key]) = r
    BY <1>1, <1>3 DEF Release, Turn
  <2>2. x \in VisaRecords /\ x.at = "threw" /\ x.key = recording[r].key /\ x.key \in Keys
    BY <1>1, <1>3 DEF VisaRecords, Works
  <2> HIDE DEF x
  <2>3. lines' \in [Keys -> Seq(Records)] /\ \A q \in Records : LineHolds(q)'
    BY <1>3, <2>1, <2>2, LinesRelease
  <2>4. recording[r].at # "done"
    BY <1>3 DEF Works
  <2> QED BY <1>3, <2>1, <2>2, <2>3, <2>4, VisaMoves DEF Works
<1>4. ASSUME NEW r \in Records, NEW x \in VisaRecords, recording' = [recording EXCEPT ![r] = x],
             recording[r].at \in {"queued"} \cup Works, Turn(r), x.at \in Works, x.key = recording[r].key,
             x.at \in {"gathered", "torn"} => file,
             lines' = lines, file' = file, selfId' = selfId, store' = store,
             x.read = store[x.key[1]] \/ (recording[r].at \in Works /\ x.read = recording[r].read),
             x.at \in {"gathered", "torn"} =>
                 x.all = store \/ (recording[r].at \in {"gathered", "torn"} /\ x.all = recording[r].all)
      PROVE  VisaInv'
  <2>1. Head(lines[recording[r].key]) = r
    BY <1>4 DEF Turn
  <2>2. \A q \in Records : LineHolds(q)'
    BY <1>4, <2>1, LinesStay
  <2>3. recording[r].at # "done" /\ recording[r].at # "idle" /\ x.at \notin {"idle", "done"} /\ x.key \in Keys
    BY <1>1, <1>4 DEF Works
  <2> QED BY <1>1, <1>4, <2>2, <2>3, VisaMoves
<1>5. ASSUME NEW r \in Records, ReadPrior(r) PROVE VisaInv'
  <2>1. /\ recording[r].at = "queued" /\ Turn(r) /\ file' = file /\ selfId' = selfId /\ store' = store
        /\ recording[r] \in VisaRecords /\ recording[r].key[1] \in Agents
    BY <1>1, <1>5 DEF ReadPrior, Keys
  <2>2. CASE file /\ Torn
    BY <1>3, <1>5, <2>1, <2>2 DEF ReadPrior
  <2>3. CASE ~(file /\ Torn)
    <3> DEFINE x == [recording[r] EXCEPT !.at = "read", !.read = store[recording[r].key[1]]]
    <3>1. recording' = [recording EXCEPT ![r] = x] /\ lines' = lines
      BY <1>1, <1>5, <2>3 DEF ReadPrior
    <3>2. x \in VisaRecords /\ x.at = "read" /\ x.key = recording[r].key /\ x.read = store[x.key[1]]
      BY <1>1, <2>1 DEF VisaRecords
    <3> HIDE DEF x
    <3> QED BY <1>4, <2>1, <3>1, <3>2 DEF Works
  <2> QED BY <2>2, <2>3
<1>6. ASSUME NEW r \in Records, WriteMemory(r) PROVE VisaInv'
  <2>1. /\ recording[r].at \in Works /\ Release(r, "done") /\ ~file /\ file' = file /\ selfId' = selfId
        /\ store' = [store EXCEPT ![recording[r].key[1]] = NextState(r)]
    BY <1>6 DEF WriteMemory, Works
  <2> QED BY <1>1, <2>1, VisaWrites
<1>7. ASSUME NEW r \in Records, Gather(r) PROVE VisaInv'
  <2>1. /\ recording[r].at = "read" /\ file /\ file' = file /\ selfId' = selfId /\ store' = store
        /\ recording[r] \in VisaRecords /\ Turn(r)
    BY <1>1, <1>7 DEF Gather, LineHolds, Turn, Works
  <2>2. CASE Torn
    BY <1>3, <1>7, <2>1, <2>2 DEF Gather, Works
  <2>3. CASE ~Torn
    <3> DEFINE x == [recording[r] EXCEPT !.at = "gathered", !.all = store]
    <3>1. recording' = [recording EXCEPT ![r] = x] /\ lines' = lines
      BY <1>1, <1>7, <2>3 DEF Gather
    <3>2. /\ x \in VisaRecords /\ x.at = "gathered" /\ x.key = recording[r].key
          /\ x.read = recording[r].read /\ x.all = store
      BY <1>1, <2>1 DEF VisaRecords
    <3> HIDE DEF x
    <3> QED BY <1>4, <2>1, <3>1, <3>2 DEF Works
  <2> QED BY <2>2, <2>3
<1>8. ASSUME NEW r \in Records, StartWrite(r) PROVE VisaInv'
  <2>1. /\ recording[r].at = "gathered" /\ file' = file /\ selfId' = selfId /\ store' = store
        /\ recording[r] \in VisaRecords /\ Turn(r) /\ lines' = lines /\ file
    BY <1>1, <1>8 DEF StartWrite, LineHolds, Turn, Works
  <2> DEFINE x == [recording[r] EXCEPT !.at = "torn"]
  <2>2. recording' = [recording EXCEPT ![r] = x]
    BY <1>1, <1>8 DEF StartWrite
  <2>3. /\ x \in VisaRecords /\ x.at = "torn" /\ x.key = recording[r].key
        /\ x.read = recording[r].read /\ x.all = recording[r].all
    BY <1>1, <2>1 DEF VisaRecords
  <2> HIDE DEF x
  <2> QED BY <1>4, <2>1, <2>2, <2>3 DEF Works
<1>9. ASSUME NEW r \in Records, EndWrite(r) PROVE VisaInv'
  <2>1. /\ recording[r].at = "torn" /\ Release(r, "done") /\ file' = file /\ selfId' = selfId
        /\ store' = [recording[r].all EXCEPT ![recording[r].key[1]] = NextState(r)]
    BY <1>9 DEF EndWrite
  <2>2. /\ recording[r].at \in Works /\ file /\ recording[r].all \in [Agents -> VisaStates]
    BY <1>1, <2>1 DEF LineHolds, Works, VisaRecords
  <2> QED BY <2>1, <2>2, VisaWrites
<1>10. CASE UNCHANGED visaVars
  <2>1. /\ file' = file /\ selfId' = selfId /\ store' = store /\ recording' = recording /\ lines' = lines
    BY <1>10 DEF visaVars
  <2>2. \A g \in Agents : DoneFor(g)' = DoneFor(g) /\ Alone(g)' = Alone(g)
    BY <2>1 DEF DoneFor, Alone, WrittenOneWay, SpellingsOf, Recorded
  <2>3. \A m \in Nat : Tier(m)' = Tier(m)
    BY <2>1 DEF Tier
  <2>4. VisaTyped'
    BY <2>1 DEF VisaInv, VisaTyped
  <2>5. \A g \in Agents, state \in VisaStates : Sound(g, state) => Sound(g, state)'
    BY <2>1, <2>2, <2>3 DEF Sound, VisaStates
  <2>6. SoundInv'
    <3>1. \A g \in Agents : Sound(g, store[g])'
      BY <1>1, <2>1, <2>5 DEF VisaInv, SoundInv, Sound
    <3>2. ASSUME NEW q \in Records
          PROVE  /\ recording'[q].at \in Works => Sound(recording[q].key[1], recording[q].read)'
                 /\ recording'[q].at \in {"gathered", "torn"} =>
                       \A g \in Agents : Sound(g, recording[q].all[g])'
      <4>1. recording'[q] = recording[q] /\ recording[q] \in VisaRecords
        BY <1>1, <2>1
      <4>2. recording[q].at \in Works => recording[q].key[1] \in Agents
        BY <1>1 DEF Works, Keys
      <4>3. recording[q].read \in VisaStates /\ \A g \in Agents : recording[q].all[g] \in VisaStates
        BY <4>1 DEF VisaRecords
      <4> QED BY <2>5, <4>1, <4>2, <4>3 DEF VisaInv, SoundInv, Sound
    <3> QED BY <3>1, <3>2 DEF SoundInv
  <2>7. \A r \in Records : LineHolds(r)'
    BY <1>1, <2>1 DEF LineHolds
  <2>8. \A g \in Agents : ExactFor(g)'
    BY <2>1, <2>2 DEF VisaInv, ExactFor
  <2> QED BY <2>4, <2>6, <2>7, <2>8 DEF VisaInv
<1> QED BY <1>2, <1>5, <1>6, <1>7, <1>8, <1>9, <1>10 DEF VisaNext

\* What is known of the three parts is what the rail promises.
LEMMA CeloFollows == SettleAll /\ VisaInv /\ CorridorInv => CeloHolds
<1> SUFFICES ASSUME SettleAll, VisaInv, CorridorInv PROVE CeloHolds
  OBVIOUS
<1>1. ASSUME NEW s \in Settles, settling[s].at = "settled"
      PROVE  feeAdapter /\ settling[s].auth \in used \cup lapsed
  BY <1>1 DEF SettleAll, SettleInv
<1>2. ASSUME NEW g \in Agents
      PROVE  /\ store[g].count <= Cardinality(DoneFor(g))
             /\ store[g].tier = Tier(store[g].count)
             /\ WrittenOneWay(g) /\ (~file \/ Recorded \subseteq {g}) =>
                   store[g].count = Cardinality(DoneFor(g))
  BY DEF VisaInv, SoundInv, Sound, ExactFor, Alone
<1>3. corridor.kind # "no-route" =>
          corridor.quoted[2] > Par \/ (Shrink - 1) * Par < (MaxSlippage + 1) * Shrink
  BY DEF CorridorInv
<1> QED BY <1>1, <1>2, <1>3 DEF CeloHolds

-------------------------------------------------------------------------------
(* The gate of the Stellar rail.                                           *)

\* What a credential says, and what a visit of the gate may hold.
Credentials == [tier : Nat, issued : Int, until : Int, sound : BOOLEAN]
VisitRecords ==
    [at : {"new", "gate", "challenged", "signature", "verifying", "attaching", "repeated",
           "admitted", "refused", "threw"},
     cred : Credentials, sent : BOOLEAN, checked : Int]

\* The types of the gate and its visits.
KyaTyped ==
    /\ post \in Setups /\ visits \in [Visits -> VisitRecords]
    /\ kyaClock \in Nat /\ kyaClock <= MaxKyaTime /\ standing \in Tiers
    /\ tiersAt \in [0..MaxKyaTime -> SUBSET Tiers]

\* A credential speaks of a tier the oracle saw the agent at when it signed.
Truthful(c) ==
    c # NoCredential => 0 <= c.issued /\ c.issued <= kyaClock /\ c.tier \in tiersAt[c.issued]

\* What is known of a visit by where it is.
VisitStands(v) ==
    /\ Truthful(visits[v].cred) /\ visits[v].checked <= kyaClock
    /\ visits[v].at \in {"signature", "admitted"} =>
          /\ visits[v].cred # NoCredential /\ visits[v].cred.tier >= MinTier
          /\ visits[v].cred.issued <= visits[v].checked
          /\ visits[v].checked - visits[v].cred.issued <= MaxAge
          /\ visits[v].checked <= visits[v].cred.until
    /\ visits[v].at = "admitted" => visits[v].sent
    /\ visits[v].sent /\ post.required => visits[v].cred # NoCredential
    /\ visits[v].at = "refused" /\ visits[v].sent =>
          \/ ~post.required \/ post.issuer = "other"
          \/ /\ visits[v].cred # NoCredential
             /\ \/ visits[v].cred.tier < MinTier \/ ~visits[v].cred.sound
                \/ visits[v].checked - visits[v].cred.issued > MaxAge
                \/ visits[v].checked > visits[v].cred.until

\* What is known of the visits, and of the tier the oracle sees.
KyaInv ==
    /\ KyaTyped /\ standing \in tiersAt[kyaClock]
    /\ \A v \in Visits : VisitStands(v)

\* The bounds are numbers.
LEMMA KyaBounds ==
  Tiers \subseteq Nat /\ MinTier \in Nat /\ MaxAge \in Nat /\ Validity \in Nat /\ MaxKyaTime \in Nat
  BY StellarAssumption

\* Nobody has asked at first.
LEMMA KyaInitially == StellarInit => KyaInv
<1> SUFFICES ASSUME StellarInit PROVE KyaInv
  OBVIOUS
<1>1. NoCredential \in Credentials
  BY DEF NoCredential, Credentials
<1>2. /\ NewVisit \in VisitRecords /\ NewVisit.at = "new" /\ NewVisit.cred = NoCredential
      /\ NewVisit.sent = FALSE /\ NewVisit.checked = -1
  <2>1. NewVisit.at = "new" /\ NewVisit.cred = NoCredential /\ NewVisit.sent = FALSE /\ NewVisit.checked = -1
    BY DEF NewVisit
  <2>2. NewVisit = [at |-> "new", cred |-> NewVisit.cred, sent |-> FALSE, checked |-> -1]
    BY DEF NewVisit
  <2>3. -1 \in Int
    OBVIOUS
  <2> QED BY <1>1, <2>1, <2>2, <2>3 DEF VisitRecords
<1>3. KyaTyped
  <2>1. visits \in [Visits -> VisitRecords] /\ kyaClock \in Nat /\ kyaClock <= MaxKyaTime
    BY <1>2, KyaBounds DEF StellarInit
  <2>2. tiersAt \in [0..MaxKyaTime -> SUBSET Tiers]
    BY DEF StellarInit
  <2> QED BY <2>1, <2>2 DEF StellarInit, KyaTyped
<1>4. standing \in tiersAt[kyaClock]
  <2>1. 0 \in 0..MaxKyaTime
    BY KyaBounds
  <2> QED BY <2>1 DEF StellarInit
<1>5. ASSUME NEW v \in Visits PROVE VisitStands(v)
  <2>1. visits[v] = NewVisit /\ kyaClock = 0
    BY DEF StellarInit
  <2> QED BY <1>2, <2>1 DEF VisitStands, Truthful
<1> QED BY <1>3, <1>4, <1>5 DEF KyaInv

\* A credential the oracle signs now is truthful.
LEMMA IssuedTruthful ==
  ASSUME KyaInv, NEW c \in Issued
  PROVE  c \in Credentials /\ c # NoCredential /\ Truthful(c)
<1>1. /\ kyaClock \in Nat /\ standing \in Tiers /\ standing \in tiersAt[kyaClock]
  BY DEF KyaInv, KyaTyped
<1>2. /\ c = [tier |-> c.tier, issued |-> c.issued, until |-> c.until, sound |-> c.sound]
      /\ c.tier = standing /\ c.issued = kyaClock /\ c.until \in {kyaClock, kyaClock + Validity}
      /\ c.sound \in BOOLEAN
  BY DEF Issued
<1>3. kyaClock + Validity \in Int
  BY <1>1, KyaBounds
<1>4. c.until \in Int
  BY <1>1, <1>2, <1>3
<1>5. c \in Credentials
  BY <1>1, <1>2, <1>4, KyaBounds DEF Credentials
<1>6. NoCredential.issued = -1
  BY DEF NoCredential
<1>7. c # NoCredential
  BY <1>1, <1>2, <1>6
<1>8. 0 <= c.issued /\ c.issued <= kyaClock /\ c.tier \in tiersAt[c.issued]
  BY <1>1, <1>2
<1> QED BY <1>5, <1>7, <1>8 DEF Truthful

\* One visit moves, the clock stands.
LEMMA KyaMoves ==
  ASSUME KyaInv, NEW v \in Visits, NEW r \in VisitRecords, visits' = [visits EXCEPT ![v] = r],
         post' = post, kyaClock' = kyaClock, standing' = standing, tiersAt' = tiersAt,
         VisitStands(v)'
  PROVE  KyaInv'
<1>1. KyaTyped' /\ standing' \in tiersAt'[kyaClock']
  BY DEF KyaInv, KyaTyped
<1>2. ASSUME NEW w \in Visits PROVE VisitStands(w)'
  <2>1. CASE w = v
    BY <2>1
  <2>2. CASE w # v
    <3>1. visits'[w] = visits[w] /\ VisitStands(w)
      BY <2>2 DEF KyaInv, KyaTyped
    <3> QED BY <3>1 DEF VisitStands, Truthful
  <2> QED BY <2>1, <2>2
<1> QED BY <1>1, <1>2 DEF KyaInv

\* A visit goes on with the credential it has.
LEMMA KyaGoes ==
  ASSUME KyaInv, NEW v \in Visits,
         NEW there \in {"gate", "challenged", "signature", "verifying", "attaching", "repeated",
                        "admitted", "refused", "threw"},
         visits' = [visits EXCEPT ![v].at = there],
         post' = post, kyaClock' = kyaClock, standing' = standing, tiersAt' = tiersAt,
         there # "signature",
         there = "admitted" => visits[v].at = "signature" /\ visits[v].sent,
         there = "refused" => post.issuer = "other" \/ visits[v].cred = NoCredential
  PROVE  KyaInv'
<1>1. visits[v] \in VisitRecords /\ VisitStands(v) /\ visits \in [Visits -> VisitRecords]
  BY DEF KyaInv, KyaTyped
<1>0. PICK r \in VisitRecords : r = [visits[v] EXCEPT !.at = there]
  BY <1>1 DEF VisitRecords
<1>2. visits' = [visits EXCEPT ![v] = r]
  BY <1>0, <1>1
<1>3. /\ r.at = there /\ r.cred = visits[v].cred /\ r.sent = visits[v].sent
      /\ r.checked = visits[v].checked
  BY <1>0, <1>1 DEF VisitRecords
<1>4. visits'[v] = r
  BY <1>1, <1>2
<1>5. VisitStands(v)'
  <2>1. Truthful(r.cred)' /\ r.checked <= kyaClock'
    BY <1>1, <1>3 DEF VisitStands, Truthful
  <2>2. r.at \in {"signature", "admitted"} =>
          /\ r.cred # NoCredential /\ r.cred.tier >= MinTier
          /\ r.cred.issued <= r.checked /\ r.checked - r.cred.issued <= MaxAge
          /\ r.checked <= r.cred.until
    BY <1>1, <1>3 DEF VisitStands
  <2>3. (r.at = "admitted" => r.sent) /\ (r.sent /\ post.required => r.cred # NoCredential)
    BY <1>1, <1>3 DEF VisitStands
  <2>4. r.at = "refused" /\ r.sent => ~post.required \/ post.issuer = "other"
    BY <1>3, <2>3
  <2> QED BY <1>4, <2>1, <2>2, <2>3, <2>4 DEF VisitStands, Truthful
<1> QED BY <1>2, <1>3, <1>5, KyaMoves

\* Time passes over what was seen before.
LEMMA KyaTicks == KyaInv /\ KyaTick => KyaInv'
<1> SUFFICES ASSUME KyaInv, KyaTick PROVE KyaInv'
  OBVIOUS
<1>1. /\ kyaClock \in Nat /\ kyaClock < MaxKyaTime /\ kyaClock' = kyaClock + 1 /\ standing' \in Tiers
      /\ tiersAt' = [tiersAt EXCEPT ![kyaClock + 1] = {standing, standing'}]
      /\ post' = post /\ visits' = visits /\ tiersAt \in [0..MaxKyaTime -> SUBSET Tiers]
      /\ standing \in Tiers /\ MaxKyaTime \in Nat /\ visits \in [Visits -> VisitRecords]
  BY KyaBounds DEF KyaInv, KyaTyped, KyaTick
<1>2. PICK k \in Nat : k = kyaClock + 1 /\ k = kyaClock' /\ k <= MaxKyaTime /\ k \in 0..MaxKyaTime
  BY <1>1
<1>3. KyaTyped'
  <2>1. tiersAt' \in [0..MaxKyaTime -> SUBSET Tiers]
    BY <1>1
  <2>2. kyaClock' \in Nat /\ kyaClock' <= MaxKyaTime
    BY <1>2
  <2> QED BY <1>1, <2>1, <2>2 DEF KyaInv, KyaTyped
<1>4. standing' \in tiersAt'[kyaClock']
  <2>1. tiersAt'[k] = {standing, standing'}
    BY <1>1, <1>2
  <2> QED BY <1>2, <2>1
<1>5. ASSUME NEW v \in Visits PROVE VisitStands(v)'
  <2>1. VisitStands(v) /\ visits'[v] = visits[v] /\ visits[v] \in VisitRecords
    BY <1>1 DEF KyaInv
  <2>2. Truthful(visits[v].cred)'
    <3>1. SUFFICES ASSUME visits[v].cred # NoCredential
                   PROVE  /\ 0 <= visits[v].cred.issued /\ visits[v].cred.issued <= kyaClock'
                          /\ visits[v].cred.tier \in tiersAt'[visits[v].cred.issued]
      BY <2>1 DEF Truthful
    <3>2. PICK i \in Int : i = visits[v].cred.issued
      BY <2>1 DEF VisitRecords, Credentials
    <3>3. 0 <= i /\ i <= kyaClock /\ visits[v].cred.tier \in tiersAt[i]
      BY <2>1, <3>1, <3>2 DEF VisitStands, Truthful
    <3>4. i \in 0..MaxKyaTime /\ i # kyaClock + 1 /\ i <= k
      BY <1>1, <1>2, <3>3
    <3>5. tiersAt'[i] = tiersAt[i]
      BY <1>1, <3>4
    <3> QED BY <1>2, <3>2, <3>3, <3>4, <3>5, Zenon
  <2>3. visits[v].checked <= kyaClock'
    <3>1. visits[v].checked \in Int /\ visits[v].checked <= kyaClock
      BY <2>1 DEF VisitStands, VisitRecords
    <3>2. visits[v].checked <= k
      BY <1>1, <1>2, <3>1
    <3> QED BY <1>2, <3>2, Zenon
  <2> QED BY <1>1, <2>1, <2>2, <2>3 DEF VisitStands
<1> QED BY <1>3, <1>4, <1>5 DEF KyaInv

\* The look at a credential keeps what it saw.
LEMMA KyaVerifies ==
  ASSUME KyaInv, NEW v \in Visits, Verify(v) PROVE KyaInv'
<1> DEFINE verdict == IF ~Passes(visits[v].cred) THEN "refused"
                      ELSE IF post.issuer = "none" THEN "threw" ELSE "signature"
<1>1. /\ visits[v] \in VisitRecords /\ VisitStands(v) /\ visits \in [Visits -> VisitRecords]
      /\ kyaClock \in Nat /\ visits[v].cred # NoCredential /\ MinTier \in Nat /\ MaxAge \in Nat
      /\ post' = post /\ kyaClock' = kyaClock /\ standing' = standing /\ tiersAt' = tiersAt
  BY KyaBounds DEF KyaInv, KyaTyped, Verify, kyaRest
<1>4. verdict = "refused" =>
        \/ visits[v].cred.tier < MinTier \/ ~visits[v].cred.sound
        \/ kyaClock - visits[v].cred.issued > MaxAge \/ kyaClock > visits[v].cred.until
  BY <1>1 DEF Passes, VisitRecords, Credentials
<1>5. verdict = "signature" =>
        /\ visits[v].cred.tier >= MinTier /\ kyaClock - visits[v].cred.issued <= MaxAge
        /\ kyaClock <= visits[v].cred.until
  BY DEF Passes
<1>6. verdict \in {"refused", "threw", "signature"}
  OBVIOUS
<1>2. PICK there \in {"refused", "threw", "signature"} :
         there = verdict /\ visits' = [visits EXCEPT ![v].at = there, ![v].checked = kyaClock]
  BY <1>6 DEF Verify
<1> HIDE DEF verdict
<1>0. PICK r \in VisitRecords : r = [visits[v] EXCEPT !.at = there, !.checked = kyaClock]
  <2>1. ASSUME NEW q \in VisitRecords, NEW tick \in Int
        PROVE  [q EXCEPT !.at = there, !.checked = tick] \in VisitRecords
    BY DEF VisitRecords
  <2>2. kyaClock \in Int
    BY <1>1
  <2> QED BY <1>1, <2>1, <2>2
<1>3. /\ r.at = there /\ r.cred = visits[v].cred /\ r.sent = visits[v].sent
      /\ r.checked = kyaClock /\ visits' = [visits EXCEPT ![v] = r]
  BY <1>0, <1>1, <1>2 DEF VisitRecords
<1>7. visits'[v] = r
  BY <1>1, <1>3
<1>8. Truthful(visits[v].cred) /\ visits[v].cred.issued <= kyaClock
  BY <1>1 DEF VisitStands, Truthful
<1>9. VisitStands(v)'
  <2>1. Truthful(r.cred)' /\ r.checked <= kyaClock'
    BY <1>1, <1>3, <1>8 DEF Truthful
  <2>2. r.at \in {"signature", "admitted"} =>
          /\ r.cred # NoCredential /\ r.cred.tier >= MinTier
          /\ r.cred.issued <= r.checked /\ r.checked - r.cred.issued <= MaxAge
          /\ r.checked <= r.cred.until
    BY <1>1, <1>2, <1>3, <1>5, <1>8
  <2>3. (r.at = "admitted" => r.sent) /\ r.cred # NoCredential
    BY <1>1, <1>2, <1>3
  <2>4. r.at = "refused" =>
          \/ r.cred.tier < MinTier \/ ~r.cred.sound
          \/ r.checked - r.cred.issued > MaxAge \/ r.checked > r.cred.until
    BY <1>2, <1>3, <1>4
  <2> QED BY <1>1, <1>7, <2>1, <2>2, <2>3, <2>4 DEF VisitStands, Truthful
<1> QED BY <1>1, <1>3, <1>9, KyaMoves

\* A credential is brought, or attached with the payment.
LEMMA KyaAttaches ==
  ASSUME KyaInv, NEW v \in Visits, BringCredential(v) \/ AttachKya(v) PROVE KyaInv'
<1>1. /\ visits[v] \in VisitRecords /\ VisitStands(v) /\ visits \in [Visits -> VisitRecords]
      /\ post' = post /\ kyaClock' = kyaClock /\ standing' = standing /\ tiersAt' = tiersAt
      /\ kyaClock \in Nat /\ visits[v].at \in {"new", "attaching"}
  BY DEF KyaInv, KyaTyped, BringCredential, AttachKya, kyaRest
<1>2. ASSUME NEW r \in VisitRecords, visits' = [visits EXCEPT ![v] = r], r.at \in {"new", "repeated"},
             r.checked = visits[v].checked, Truthful(r.cred),
             r.sent /\ post.required => r.cred # NoCredential
      PROVE  KyaInv'
  <2>1. visits'[v] = r
    BY <1>1, <1>2
  <2>2. Truthful(r.cred)' /\ r.checked <= kyaClock'
    BY <1>1, <1>2 DEF VisitStands, Truthful
  <2>3. VisitStands(v)'
    BY <1>1, <1>2, <2>1, <2>2 DEF VisitStands, Truthful
  <2> QED BY <1>1, <1>2, <2>3, KyaMoves
<1>3. CASE BringCredential(v)
  <2>1. PICK c \in Issued : visits' = [visits EXCEPT ![v].cred = c]
    BY <1>3 DEF BringCredential
  <2> DEFINE r == [visits[v] EXCEPT !.cred = c]
  <2>2. c \in Credentials /\ c # NoCredential /\ Truthful(c)
    BY IssuedTruthful
  <2>3. /\ r \in VisitRecords /\ r.at = visits[v].at /\ r.cred = c /\ r.checked = visits[v].checked
    BY <1>1, <2>2 DEF VisitRecords
  <2>4. visits' = [visits EXCEPT ![v] = r] /\ visits[v].at = "new"
    BY <1>1, <1>3, <2>1 DEF BringCredential
  <2> HIDE DEF r
  <2> QED BY <1>2, <2>2, <2>3, <2>4
<1>4. CASE ~post.required /\ visits' = [visits EXCEPT ![v].at = "repeated", ![v].sent = TRUE]
  <2> DEFINE r == [visits[v] EXCEPT !.at = "repeated", !.sent = TRUE]
  <2>1. /\ r \in VisitRecords /\ r.at = "repeated" /\ r.cred = visits[v].cred /\ r.checked = visits[v].checked
    BY <1>1 DEF VisitRecords
  <2>2. visits' = [visits EXCEPT ![v] = r] /\ Truthful(visits[v].cred)
    BY <1>1, <1>4 DEF VisitStands
  <2> HIDE DEF r
  <2> QED BY <1>2, <1>4, <2>1, <2>2
<1>5. ASSUME NEW c \in Issued,
             visits' = [visits EXCEPT ![v].at = "repeated", ![v].sent = TRUE, ![v].cred = c]
      PROVE  KyaInv'
  <2> DEFINE r == [visits[v] EXCEPT !.at = "repeated", !.sent = TRUE, !.cred = c]
  <2>1. c \in Credentials /\ c # NoCredential /\ Truthful(c)
    BY IssuedTruthful
  <2>2. /\ r \in VisitRecords /\ r.at = "repeated" /\ r.cred = c /\ r.checked = visits[v].checked
    BY <1>1, <2>1 DEF VisitRecords
  <2>3. visits' = [visits EXCEPT ![v] = r]
    BY <1>1, <1>5
  <2> HIDE DEF r
  <2> QED BY <1>2, <2>1, <2>2, <2>3
<1>6. CASE visits' = [visits EXCEPT ![v].at = "threw"]
  BY <1>1, <1>6, KyaGoes
<1> QED BY <1>3, <1>4, <1>5, <1>6 DEF AttachKya

\* Every step of the gate and the adapter keeps what is known of the visits.
LEMMA KyaStep == KyaInv /\ [KyaNext]_kyaVars => KyaInv'
<1> SUFFICES ASSUME KyaInv, [KyaNext]_kyaVars PROVE KyaInv'
  OBVIOUS
<1>1. CASE KyaTick
  BY <1>1, KyaTicks
<1>2. CASE LoadGateSdk \/ UNCHANGED kyaVars
  <2>1. /\ post' = post /\ visits' = visits /\ kyaClock' = kyaClock /\ standing' = standing
        /\ tiersAt' = tiersAt
    BY <1>2 DEF LoadGateSdk, kyaVars, kyaRest
  <2> QED BY <2>1 DEF KyaInv, KyaTyped, VisitStands, Truthful
<1>3. ASSUME NEW v \in Visits, Verify(v) PROVE KyaInv'
  BY <1>3, KyaVerifies
<1>4. ASSUME NEW v \in Visits, BringCredential(v) \/ AttachKya(v) PROVE KyaInv'
  BY <1>4, KyaAttaches
<1>5. ASSUME NEW v \in Visits,
             Arrive(v) \/ CredentialMissing(v) \/ VerifySignature(v) \/ SignPayload(v) \/ VerifyReturns(v)
      PROVE  KyaInv'
  <2>1. post' = post /\ kyaClock' = kyaClock /\ standing' = standing /\ tiersAt' = tiersAt
    BY <1>5 DEF Arrive, CredentialMissing, VerifySignature, SignPayload, VerifyReturns, kyaRest
  <2>2. PICK there \in {"gate", "challenged", "verifying", "attaching", "admitted", "refused", "threw"} :
          /\ visits' = [visits EXCEPT ![v].at = there]
          /\ there = "admitted" => visits[v].at = "signature" /\ visits[v].sent
          /\ there = "refused" => post.issuer = "other" \/ visits[v].cred = NoCredential
    <3>1. CASE Arrive(v)
      BY <3>1 DEF Arrive, VisitGoes
    <3>2. CASE CredentialMissing(v)
      BY <3>2 DEF CredentialMissing, VisitGoes
    <3>3. CASE VerifySignature(v)
      BY <3>3 DEF VerifySignature, VisitGoes
    <3>4. CASE SignPayload(v) \/ VerifyReturns(v)
      BY <3>4 DEF SignPayload, VerifyReturns, VisitGoes
    <3> QED BY <1>5, <3>1, <3>2, <3>3, <3>4
  <2> QED BY <2>1, <2>2, KyaGoes
<1> QED BY <1>1, <1>2, <1>3, <1>4, <1>5 DEF KyaNext

\* What is known of the visits is what the gate promises.
LEMMA KyaFollows == KyaInv => KyaHolds
<1> SUFFICES ASSUME KyaInv, NEW v \in Visits
             PROVE  /\ visits[v].at = "admitted" =>
                          /\ visits[v].sent /\ visits[v].checked <= visits[v].cred.until
                          /\ \E t \in (visits[v].checked - MaxAge)..visits[v].checked :
                                t >= 0 /\ \E tier \in tiersAt[t] : tier >= MinTier
                    /\ visits[v].at = "refused" /\ visits[v].sent =>
                          \/ ~post.required \/ post.issuer = "other"
                          \/ /\ visits[v].cred # NoCredential
                             /\ \/ visits[v].cred.tier < MinTier \/ ~visits[v].cred.sound
                                \/ visits[v].checked - visits[v].cred.issued > MaxAge
                                \/ visits[v].checked > visits[v].cred.until
  BY DEF KyaHolds
<1>1. VisitStands(v) /\ visits[v] \in VisitRecords
  BY DEF KyaInv, KyaTyped
<1>2. ASSUME visits[v].at = "admitted"
      PROVE  \E t \in (visits[v].checked - MaxAge)..visits[v].checked :
                t >= 0 /\ \E tier \in tiersAt[t] : tier >= MinTier
  <2> DEFINE t == visits[v].cred.issued
  <2>1. /\ t \in Int /\ visits[v].checked \in Int /\ MaxAge \in Nat
    BY <1>1, KyaBounds DEF VisitRecords, Credentials
  <2>2. /\ t <= visits[v].checked /\ visits[v].checked - t <= MaxAge /\ 0 <= t
        /\ visits[v].cred.tier \in tiersAt[t] /\ visits[v].cred.tier >= MinTier
    BY <1>1, <1>2 DEF VisitStands, Truthful
  <2>3. t \in (visits[v].checked - MaxAge)..visits[v].checked
    BY <2>1, <2>2
  <2> QED BY <2>1, <2>2, <2>3
<1> QED BY <1>1, <1>2 DEF VisitStands

-------------------------------------------------------------------------------
(* Its facilitator.                                                        *)

\* A settlement is told of once it is on the ledger, where it stays.
FacilitatorInv ==
    /\ settles \in [SettleCalls -> {"idle", "asked", "network"} \cup SettleAnswers]
    /\ SettleTold

\* Every step of the settle() calls keeps it.
LEMMA FacilitatorStep == FacilitatorInv /\ [SettleCallNext]_settleCallVars => FacilitatorInv'
<1> SUFFICES ASSUME FacilitatorInv, [SettleCallNext]_settleCallVars PROVE FacilitatorInv'
  OBVIOUS
<1>1. CASE FacilitatorSettles \/ UNCHANGED settleCallVars
  BY <1>1 DEF FacilitatorSettles, settleCallVars, FacilitatorInv, SettleTold
<1>2. ASSUME NEW c \in SettleCalls, AskSettle(c) \/ SettleReturns(c) \/ FacilitatorTimesOut(c)
      PROVE  FacilitatorInv'
  <2>1. onLedger' = onLedger
    BY <1>2 DEF AskSettle, SettleReturns, FacilitatorTimesOut
  <2>2. PICK to \in {"asked", "network"} \cup SettleAnswers :
          settles' = [settles EXCEPT ![c] = to] /\ (to = "success" => onLedger)
    BY <1>2 DEF AskSettle, SettleReturns, FacilitatorTimesOut, SettleAnswers
  <2> QED BY <2>1, <2>2 DEF FacilitatorInv, SettleTold
<1> QED BY <1>1, <1>2 DEF SettleCallNext

-------------------------------------------------------------------------------
(* The choice of an asset.                                                 *)

\* What a choice of an asset may hold.
RouteRecords ==
    [at : {"new", "direct", "convert", "noRoute", "path", "noPath", "threw"}, ask : Routings,
     from : StellarAssets \cup {"none"}, suggested : SUBSET StellarAssets,
     amount : Nat, source : Nat, tolerance : Nat, bps : Nat, least : Int]

\* What is known of a choice.
RouteInv == route \in RouteRecords /\ RouteHolds

\* What is asked, and the preferences of the corridors.
LEMMA AskTyped ==
  ASSUME NEW ask \in Routings
  PROVE  /\ ask.wanted \in StellarAssets /\ ask.held \in SUBSET StellarAssets
         /\ ask.sellers \in Seq(StellarAssets) /\ ask.convert \in BOOLEAN
         /\ CorridorPreference(ask.corridor) \in Seq(StellarAssets)
         /\ PreferenceOf(ask) \in Seq(StellarAssets)
         /\ ToSet(CorridorPreference(ask.corridor)) \subseteq ToSet(PreferenceOf(ask))
<1>1. /\ ask.wanted \in StellarAssets /\ ask.held \in SUBSET StellarAssets
      /\ ask.sellers \in Seq(StellarAssets) /\ ask.convert \in BOOLEAN
  BY StellarAssumption
<1>2. CorridorPreference(ask.corridor) \in Seq(StellarAssets)
  <2>1. \A a, b, c \in StellarAssets : {<<a>>, <<a, b>>, <<a, b, c>>} \subseteq Seq(StellarAssets)
    OBVIOUS
  <2>2. {"USDC", "EURC", "MGUSD"} \subseteq StellarAssets
    BY DEF StellarAssets
  <2>3. CorridorPreference(ask.corridor) \in {<<"MGUSD", "USDC">>, <<"USDC", "MGUSD">>, <<"EURC", "USDC">>,
            <<"EURC", "MGUSD", "USDC">>, <<"USDC">>, <<"USDC", "MGUSD", "EURC">>}
    BY DEF CorridorPreference
  <2> QED BY <2>1, <2>2, <2>3
<1> DEFINE s == ask.sellers
           t == CorridorPreference(ask.corridor)
<1>3. PreferenceOf(ask) = s \o t
  BY DEF PreferenceOf
<1> HIDE DEF s, t
<1>4. s \in Seq(StellarAssets) /\ t \in Seq(StellarAssets)
  BY <1>1, <1>2 DEF s, t
<1>5. s \o t \in Seq(StellarAssets)
  BY <1>4
<1>6. ToSet(t) \subseteq ToSet(s \o t)
  <2>1. SUFFICES ASSUME NEW i \in DOMAIN t PROVE t[i] \in ToSet(s \o t)
    BY DEF ToSet
  <2>2. Len(s) + i \in DOMAIN (s \o t) /\ (s \o t)[Len(s) + i] = t[i]
    BY <1>4
  <2> QED BY <2>2 DEF ToSet
<1> QED BY <1>1, <1>2, <1>3, <1>5, <1>6 DEF s, t

\* Funding what is wanted makes a route, and so does anything of the corridor for
\* a buyer that may convert.
LEMMA FundingHelps ==
  ASSUME NEW ask \in Routings,
         NEW asset \in {ask.wanted} \cup ToSet(CorridorPreference(ask.corridor)),
         ask.convert \/ asset = ask.wanted
  PROVE  Routable([ask EXCEPT !.held = @ \cup {asset}])
<1> DEFINE funded == [ask EXCEPT !.held = @ \cup {asset}]
<1>1. /\ funded.wanted = ask.wanted /\ funded.held = ask.held \cup {asset}
      /\ funded.corridor = ask.corridor /\ funded.sellers = ask.sellers /\ funded.convert = ask.convert
  BY StellarAssumption
<1> HIDE DEF funded
<1>2. PreferenceOf(funded) = PreferenceOf(ask)
  BY <1>1 DEF PreferenceOf
<1>3. CASE asset = ask.wanted
  BY <1>1, <1>3 DEF Routable, funded
<1>4. CASE asset # ask.wanted
  <2>1. asset \in ToSet(PreferenceOf(ask)) /\ ask.convert
    BY <1>4, AskTyped
  <2>2. asset \in ToSet(PreferenceOf(funded)) \cap funded.held /\ funded.convert
    BY <1>1, <1>2, <2>1
  <2>3. Routable(funded)
    BY <2>2 DEF Routable
  <2> QED BY <2>3 DEF funded
<1> QED BY <1>3, <1>4

\* selectAsset() finds a route exactly when there is one.
LEMMA SelectStep == RouteInv /\ SelectAsset => RouteInv'
<1> SUFFICES ASSUME RouteInv, SelectAsset PROVE RouteInv'
  OBVIOUS
<1>1. PICK ask \in Routings : ask = route.ask
  BY DEF RouteInv, RouteRecords
<1>2. /\ ask.wanted \in StellarAssets /\ ask.held \in SUBSET StellarAssets /\ ask.convert \in BOOLEAN
      /\ PreferenceOf(ask) \in Seq(StellarAssets) /\ CorridorPreference(ask.corridor) \in Seq(StellarAssets)
  BY AskTyped
<1>3. PICK old \in RouteRecords : old = route
  BY DEF RouteInv
<1> DEFINE preferred == PreferenceOf(ask)
           held == {i \in DOMAIN preferred : preferred[i] \in ask.held}
<1>4. CASE ask.wanted \in ask.held /\ route' = [route EXCEPT !.at = "direct", !.from = ask.wanted]
  <2>1. PICK r \in RouteRecords : r = [old EXCEPT !.at = "direct", !.from = ask.wanted]
    BY <1>2 DEF RouteRecords
  <2>2. r.at = "direct" /\ r.from = ask.wanted /\ r.ask = ask /\ route' = r
    BY <1>1, <1>3, <1>4, <2>1 DEF RouteRecords
  <2> QED BY <1>4, <2>2 DEF RouteInv, RouteHolds
<1>5. ASSUME ask.wanted \notin ask.held, ask.convert, NEW i \in held,
             route' = [route EXCEPT !.at = "convert", !.from = preferred[i]]
      PROVE  RouteInv'
  <2>1. preferred[i] \in ask.held /\ preferred[i] \in StellarAssets
    BY <1>2
  <2> HIDE DEF preferred
  <2>2. PICK r \in RouteRecords : r = [old EXCEPT !.at = "convert", !.from = preferred[i]]
    BY <2>1 DEF RouteRecords
  <2>3. r.at = "convert" /\ r.from \in ask.held /\ r.ask = ask /\ route' = r
    BY <1>1, <1>3, <1>5, <2>1, <2>2 DEF RouteRecords
  <2> QED BY <1>5, <2>3 DEF RouteInv, RouteHolds
<1>6. CASE /\ ask.wanted \notin ask.held /\ (ask.convert => held = {})
           /\ route' = [route EXCEPT !.at = "noRoute",
                           !.suggested = {ask.wanted} \cup ToSet(CorridorPreference(ask.corridor))]
  <2> DEFINE told == {ask.wanted} \cup ToSet(CorridorPreference(ask.corridor))
  <2>1. told \in SUBSET StellarAssets
    BY <1>2 DEF ToSet
  <2>2. ~Routable(ask)
    <3>1. ask.convert => ToSet(preferred) \cap ask.held = {}
      BY <1>6 DEF ToSet
    <3> QED BY <1>6, <3>1 DEF Routable
  <2>3. ASSUME NEW asset \in told, ask.convert \/ asset = ask.wanted
        PROVE  Routable([ask EXCEPT !.held = @ \cup {asset}])
    BY <2>3, FundingHelps
  <2> HIDE DEF told, held, preferred
  <2>4. PICK r \in RouteRecords : r = [old EXCEPT !.at = "noRoute", !.suggested = told]
    BY <2>1 DEF RouteRecords
  <2>5. r.at = "noRoute" /\ r.suggested = told /\ r.ask = ask
    BY <1>1, <1>3, <2>4 DEF RouteRecords
  <2>6. route' = r
    BY <1>3, <1>6, <2>4 DEF told
  <2> HIDE DEF Routable
  <2>7. /\ ~Routable(r.ask)
        /\ \A a \in r.suggested :
              r.ask.convert \/ a = r.ask.wanted => Routable([r.ask EXCEPT !.held = @ \cup {a}])
    BY <2>2, <2>3, <2>5
  <2> QED BY <2>5, <2>6, <2>7 DEF RouteInv, RouteHolds
<1> QED BY <1>1, <1>4, <1>5, <1>6 DEF SelectAsset

\* A path costs no more than was tolerated, and what is told of its drift is so.
LEMMA PathCosts ==
  ASSUME NEW amount \in Nat, amount > 0, NEW source \in Nat, NEW max \in Nat, max <= Whole
  PROVE  LET drift == CeilDiv(Distance(source, amount) * Whole, amount)
             least == amount - (amount * max) \div Whole
         IN  /\ drift \in Nat /\ least \in Int /\ Lesser(drift, max) \in Nat
             /\ least * Whole >= amount * (Whole - max)
             /\ Lesser(drift, max) < max =>
                   Distance(source, amount) * Whole <= Lesser(drift, max) * amount
<1> DEFINE d == Distance(source, amount) * Whole
           drift == CeilDiv(d, amount)
           q == (amount * max) \div Whole
           least == amount - q
<1>1. Whole \in Nat /\ Whole > 0
  BY StellarAssumption
<1>2. d \in Nat
  <2>1. Distance(source, amount) \in Nat
    BY DEF Distance
  <2> QED BY <1>1, <2>1
<1>3. amount * max \in Nat
  OBVIOUS
<1>4. q \in Nat /\ Whole * q <= amount * max
  BY <1>1, <1>3, QuotientBounds
<1> HIDE DEF q
<1>5. least \in Int /\ least * Whole >= amount * (Whole - max)
  <2>1. least * Whole = amount * Whole - Whole * q
    BY <1>1, <1>4
  <2>2. amount * (Whole - max) = amount * Whole - amount * max
    BY <1>1
  <2>3. amount * Whole \in Nat /\ Whole * q \in Nat
    BY <1>1, <1>4
  <2> QED BY <1>3, <1>4, <2>1, <2>2, <2>3
<1> HIDE DEF d
<1>6. drift \in Nat /\ d <= drift * amount
  <2>1. d + amount - 1 \in Nat
    BY <1>2
  <2>2. drift = (d + amount - 1) \div amount
    BY DEF CeilDiv
  <2>3. drift \in Nat /\ d + amount - 1 < amount * (drift + 1)
    BY <2>1, <2>2, QuotientBounds
  <2> HIDE DEF drift
  <2>4. amount * (drift + 1) = drift * amount + amount /\ drift * amount \in Nat
    BY <2>3
  <2> QED BY <1>2, <2>3, <2>4
<1> HIDE DEF drift
<1>7. Lesser(drift, max) \in Nat /\ (Lesser(drift, max) < max => Lesser(drift, max) = drift)
  BY <1>6 DEF Lesser
<1> QED BY <1>5, <1>6, <1>7 DEF d, drift, q

\* Every step of a choice keeps what is known of it.
LEMMA RouteStep == RouteInv /\ [AssetNext]_assetVars => RouteInv'
<1> SUFFICES ASSUME RouteInv, [AssetNext]_assetVars PROVE RouteInv'
  OBVIOUS
<1>1. CASE SelectAsset
  BY <1>1, SelectStep
<1>2. CASE FindPath
  <2>1. route.at = "convert" /\ RouteHolds
    BY <1>2 DEF FindPath, RouteInv
  <2>2. PICK old \in RouteRecords : old = route
    BY DEF RouteInv
  <2>3. /\ old.ask \in Routings /\ old.from \in old.ask.held
        /\ old.ask.convert /\ old.ask.wanted \notin old.ask.held
    BY <2>1, <2>2 DEF RouteHolds, RouteRecords
  <2>4. ASSUME NEW amount \in StellarAmounts \ {0}, NEW source \in Sources, NEW max \in Tolerances,
               route' = [route EXCEPT !.at = "path", !.amount = amount, !.source = source,
                            !.tolerance = max,
                            !.bps = Lesser(CeilDiv(Distance(source, amount) * Whole, amount), max),
                            !.least = amount - (amount * max) \div Whole]
        PROVE  RouteInv'
    <3>1. amount \in Nat /\ amount > 0 /\ source \in Nat /\ max \in Nat /\ max <= Whole
      BY StellarAssumption
    <3> DEFINE bps == Lesser(CeilDiv(Distance(source, amount) * Whole, amount), max)
               least == amount - (amount * max) \div Whole
    <3>2. /\ bps \in Nat /\ least \in Int /\ least * Whole >= amount * (Whole - max)
          /\ bps < max => Distance(source, amount) * Whole <= bps * amount
      BY <3>1, PathCosts
    <3> HIDE DEF bps, least
    <3>3. PICK r \in RouteRecords :
             r = [old EXCEPT !.at = "path", !.amount = amount, !.source = source,
                             !.tolerance = max, !.bps = bps, !.least = least]
      BY <3>1, <3>2 DEF RouteRecords
    <3>4. /\ r.at = "path" /\ r.ask = old.ask /\ r.from = old.from /\ r.amount = amount
          /\ r.source = source /\ r.tolerance = max /\ r.bps = bps /\ r.least = least
      BY <3>3 DEF RouteRecords
    <3>5. route' = r
      BY <2>2, <2>4, <3>3 DEF bps, least
    <3> QED BY <2>3, <3>2, <3>4, <3>5 DEF RouteInv, RouteHolds
  <2>5. ASSUME NEW to \in {"noPath", "threw"}, route' = [route EXCEPT !.at = to] PROVE RouteInv'
    <3>1. PICK r \in RouteRecords : r = [old EXCEPT !.at = to]
      BY DEF RouteRecords
    <3>2. r.at = to /\ route' = r
      BY <2>2, <2>5, <3>1 DEF RouteRecords
    <3> QED BY <3>2 DEF RouteInv, RouteHolds
  <2> QED BY <1>2, <2>4, <2>5 DEF FindPath
<1>3. CASE route' = route
  BY <1>3 DEF RouteInv, RouteHolds
<1> QED BY <1>1, <1>2, <1>3 DEF AssetNext, Rebind, LookAtIssuer, assetVars

-------------------------------------------------------------------------------
(* Figures.                                                                *)

\* Powers of ten split as their exponents do.
LEMMA TensSplit ==
  ASSUME NEW places \in 0..StellarDecimals + 1
  PROVE  LET shown == Lesser(places, StellarDecimals)
         IN  /\ Tens[shown] \in Nat /\ Tens[StellarDecimals - shown] \in Nat
             /\ Tens[shown] > 0 /\ Tens[StellarDecimals - shown] > 0
             /\ Unit = Tens[StellarDecimals - shown] * Tens[shown]
<1> DEFINE shown == Lesser(places, StellarDecimals)
<1>1. StellarDecimals \in Nat
  BY StellarAssumption
<1>2. shown \in 0..StellarDecimals /\ StellarDecimals - shown \in 0..StellarDecimals
  BY <1>1 DEF Lesser
<1> HIDE DEF shown
<1>3. (StellarDecimals - shown) + shown = StellarDecimals
  BY <1>1, <1>2
<1>4. Tens[(StellarDecimals - shown) + shown] = Tens[StellarDecimals - shown] * Tens[shown]
  BY <1>1, <1>2, <1>3, StellarAssumption
<1>5. \A n \in 0..StellarDecimals : Tens[n] \in Nat /\ Tens[n] > 0
  <2>1. \A n \in 0..StellarDecimals : Tens[n] \in Nat \ {0}
    BY StellarAssumption
  <2> QED BY ONLY <2>1
<1> QED BY <1>2, <1>3, <1>4, <1>5 DEF Unit, shown

\* Formatting loses less than a unit of the last decimal shown.
LEMMA FiguresAlwaysHold == FiguresHold
<1> SUFFICES ASSUME NEW amount \in StellarAmounts, NEW places \in 0..StellarDecimals + 1
             PROVE  LET back == Parse(Format(amount, places))
                    IN /\ back <= amount
                       /\ (amount - back) * Tens[Lesser(places, StellarDecimals)] < Unit
  BY DEF FiguresHold
<1> DEFINE shown == Lesser(places, StellarDecimals)
           t == Tens[StellarDecimals - shown]
           s == Tens[shown]
           rest == amount % Unit
           back == Parse(Format(amount, places))
<1>1. amount \in Nat
  BY StellarAssumption
<1>2. s \in Nat /\ t \in Nat /\ s > 0 /\ t > 0 /\ Unit = t * s
  BY TensSplit
<1>3. back = (amount \div Unit) * Unit + (rest \div t) * t
  BY DEF Parse, Format
<1> HIDE DEF s, t, rest, back
<1>4. Unit \in Nat /\ Unit > 0
  BY <1>2
<1>5. /\ amount \div Unit \in Nat /\ rest \in Nat /\ amount = (amount \div Unit) * Unit + rest
  BY <1>1, <1>4, DivisionSplits DEF rest
<1>6. /\ rest \div t \in Nat /\ rest % t \in Nat /\ rest % t < t /\ rest = (rest \div t) * t + (rest % t)
  BY <1>2, <1>5, DivisionSplits
<1>7. (amount \div Unit) * Unit \in Nat /\ (rest \div t) * t \in Nat
  BY <1>2, <1>4, <1>5, <1>6
<1> DEFINE x == (amount \div Unit) * Unit
           y == (rest \div t) * t
           z == rest % t
<1> HIDE DEF x, y, z
<1>8. x \in Nat /\ y \in Nat /\ z \in Nat /\ z < t /\ back = x + y /\ amount = x + (y + z)
  <2>1. x \in Nat /\ y \in Nat /\ z \in Nat /\ z < t
    BY <1>6, <1>7 DEF x, y, z
  <2>2. back = x + y
    BY <1>3 DEF x, y
  <2>3. amount = x + rest /\ rest = y + z
    BY <1>5, <1>6, Zenon DEF x, y, z
  <2> QED BY <2>1, <2>2, <2>3
<1>9. back <= amount /\ amount - back = z
  BY <1>8
<1>10. z * s < t * s
  <2>1. z + 1 <= t
    BY <1>2, <1>8
  <2>2. (z + 1) * s <= t * s
    BY <1>2, <1>8, <2>1, ProductOrder
  <2>3. (z + 1) * s = z * s + s /\ z * s \in Nat /\ t * s \in Nat
    BY <1>2, <1>8
  <2> QED BY <1>2, <2>2, <2>3
<1> QED BY <1>2, <1>9, <1>10 DEF s, back

-------------------------------------------------------------------------------
(* Issuers.                                                                *)

\* The one warning there may be is counted once.
WarnedInv == /\ WarnedOnce /\ lookups \in [count : Nat, warnings : Nat]

\* Every look at an issuer keeps it.
LEMMA WarnedStep == WarnedInv /\ [AssetNext]_assetVars => WarnedInv'
<1> SUFFICES ASSUME WarnedInv, [AssetNext]_assetVars PROVE WarnedInv'
  OBVIOUS
<1>1. ASSUME NEW asset \in StellarAssets, LookAtIssuer(asset) PROVE WarnedInv'
  <2>1. CASE IssuerVerified(asset) \/ asset \in warned
    <3>1. warned' = warned /\ lookups' = [lookups EXCEPT !.count = @ + 1]
      BY <1>1, <2>1 DEF LookAtIssuer
    <3>2. lookups'.warnings = lookups.warnings /\ lookups' \in [count : Nat, warnings : Nat]
      BY <3>1 DEF WarnedInv
    <3> QED BY <3>1, <3>2 DEF WarnedInv, WarnedOnce
  <2>2. CASE ~(IssuerVerified(asset) \/ asset \in warned)
    <3>1. asset = "MGUSD" /\ asset \notin warned /\ warned \subseteq {"MGUSD"}
      BY <2>2 DEF IssuerVerified, WarnedInv, WarnedOnce
    <3>2. warned = {} /\ warned \cup {asset} = {"MGUSD"}
      BY <3>1
    <3>3. Cardinality({}) = 0 /\ Cardinality({"MGUSD"}) = 1
      BY FS_EmptySet, FS_Singleton
    <3>4. lookups.warnings = 0 /\ lookups.count \in Nat
      BY <3>2, <3>3 DEF WarnedInv, WarnedOnce
    <3>5. warned' = {"MGUSD"} /\ lookups' = [count |-> lookups.count + 1, warnings |-> 1]
      <4>1. /\ warned' = warned \cup {asset}
            /\ lookups' = [count |-> lookups.count + 1, warnings |-> lookups.warnings + 1]
        BY <1>1, <2>2 DEF LookAtIssuer
      <4> QED BY <3>2, <3>4, <4>1
    <3>6. lookups' \in [count : Nat, warnings : Nat] /\ lookups'.warnings = 1
      BY <3>4, <3>5
    <3> QED BY <3>3, <3>5, <3>6 DEF WarnedInv, WarnedOnce
  <2> QED BY <2>1, <2>2
<1>2. CASE warned' = warned /\ lookups' = lookups
  BY <1>2 DEF WarnedInv, WarnedOnce
<1> QED BY <1>1, <1>2 DEF AssetNext, SelectAsset, FindPath, Rebind, assetVars

-------------------------------------------------------------------------------
(* All of them.                                                            *)

\* What is known of the buyer's side of a payment, in all its parts.
BuyerInv ==
    /\ WalletInv /\ LifeInv /\ SettleAll /\ VisaInv /\ CorridorInv
    /\ KyaInv /\ FacilitatorInv /\ RouteInv /\ WarnedInv

\* It holds at first.
LEMMA BuyerInitially == MCInit => BuyerInv
<1> SUFFICES ASSUME MCInit PROVE BuyerInv
  OBVIOUS
<1>1. WalletInit /\ LifeInit /\ CeloInit /\ StellarInit
  BY DEF MCInit
<1>2. WalletInv /\ LifeInv /\ SettleAll /\ VisaInv /\ KyaInv
  BY <1>1, WalletInitially, LifeInitially, SettleInitially, VisaInitially, KyaInitially
<1>3. CorridorInv
  BY <1>1 DEF CeloInit, CorridorInv, NoRoute
<1>4. FacilitatorInv
  BY <1>1 DEF StellarInit, FacilitatorInv, SettleTold
<1>5. RouteInv
  <2>1. PICK ask \in Routings : route = NewRoute(ask)
    BY <1>1 DEF StellarInit
  <2>2. /\ route.at = "new" /\ route \in RouteRecords
    BY <2>1 DEF NewRoute, RouteRecords
  <2> QED BY <2>2 DEF RouteInv, RouteHolds
<1>6. WarnedInv
  <2>1. Cardinality({}) = 0
    BY FS_EmptySet
  <2> QED BY <1>1, <2>1 DEF StellarInit, WarnedInv, WarnedOnce
<1> QED BY <1>2, <1>3, <1>4, <1>5, <1>6 DEF BuyerInv

\* Whichever part runs, the others rest.
LEMMA BuyerRuns ==
  MCNext =>
      /\ [WalletNext]_walletVars /\ [LifeNext]_lifeVars
      /\ [SettleNext]_settleVars /\ [VisaNext]_visaVars /\ [CorridorNext]_corridor
      /\ [KyaNext]_kyaVars /\ [SettleCallNext]_settleCallVars /\ [AssetNext]_assetVars
<1> SUFFICES ASSUME MCNext
             PROVE  /\ [WalletNext]_walletVars /\ [LifeNext]_lifeVars
                    /\ [SettleNext]_settleVars /\ [VisaNext]_visaVars /\ [CorridorNext]_corridor
                    /\ [KyaNext]_kyaVars /\ [SettleCallNext]_settleCallVars /\ [AssetNext]_assetVars
  OBVIOUS
<1>1. \/ UNCHANGED <<walletVars, lifeVars, celoVars, stellarVars>>
      \/ WalletNext /\ UNCHANGED <<lifeVars, celoVars, stellarVars>>
      \/ (SettleNext \/ VisaNext \/ CorridorNext) /\ UNCHANGED <<walletVars, lifeVars, stellarVars>>
      \/ (KyaNext \/ SettleCallNext \/ AssetNext) /\ UNCHANGED <<walletVars, lifeVars, celoVars>>
      \/ LifeNext /\ UNCHANGED <<walletVars, celoVars, stellarVars>>
  BY DEF MCNext, buyerVars
<1>2. UNCHANGED celoVars => UNCHANGED <<settleVars, visaVars, corridor>>
  BY DEF celoVars, settleVars, visaVars
<1>3. UNCHANGED stellarVars => UNCHANGED <<kyaVars, settleCallVars, assetVars>>
  BY DEF stellarVars
<1>4. SettleNext => UNCHANGED <<visaVars, corridor>>
  BY DEF SettleNext, Send, Settled, SettleTimesOut, Lapse
<1>5. VisaNext => UNCHANGED <<settleVars, corridor>>
  BY DEF VisaNext, Queue, ReadPrior, WriteMemory, Gather, StartWrite, EndWrite
<1>6. CorridorNext => UNCHANGED <<settleVars, visaVars>>
  BY DEF CorridorNext, Select
<1>7. /\ KyaNext => UNCHANGED <<settleCallVars, assetVars>>
      /\ SettleCallNext => UNCHANGED <<kyaVars, assetVars>>
      /\ AssetNext => UNCHANGED <<kyaVars, settleCallVars>>
  BY DEF KyaNext, SettleCallNext, AssetNext
<1> QED BY <1>1, <1>2, <1>3, <1>4, <1>5, <1>6, <1>7

\* So every step keeps what is known of all.
LEMMA BuyerStep == BuyerInv /\ [MCNext]_<<running, paywallVars, buyerVars>> => BuyerInv'
<1> SUFFICES ASSUME BuyerInv, [MCNext]_<<running, paywallVars, buyerVars>> PROVE BuyerInv'
  OBVIOUS
<1>1. /\ [WalletNext]_walletVars /\ [LifeNext]_lifeVars
      /\ [SettleNext]_settleVars /\ [VisaNext]_visaVars /\ [CorridorNext]_corridor
      /\ [KyaNext]_kyaVars /\ [SettleCallNext]_settleCallVars /\ [AssetNext]_assetVars
  <2>1. CASE MCNext
    BY <2>1, BuyerRuns
  <2>2. CASE UNCHANGED <<running, paywallVars, buyerVars>>
    BY <2>2 DEF buyerVars, celoVars, settleVars, visaVars, stellarVars
  <2> QED BY <2>1, <2>2
<1>2. WalletInv' /\ LifeInv' /\ SettleAll' /\ VisaInv' /\ CorridorInv'
  BY <1>1, WalletStep, LifeStep, SettleStep, VisaStep, CorridorStep DEF BuyerInv
<1>3. KyaInv' /\ FacilitatorInv' /\ RouteInv' /\ WarnedInv'
  BY <1>1, KyaStep, FacilitatorStep, RouteStep, WarnedStep DEF BuyerInv
<1> QED BY <1>2, <1>3 DEF BuyerInv

\* The wallet answers only with transactions it has sent, each from the account it
\* settled on, and is refused a nonce only when another call took it; its lifecycle
\* agrees on whether there is an SDK and reveals nothing unconfirmed (ows/wallet.ts,
\* ows/lifecycle.ts).  The Celo rail answers settlements that were carried out or ran
\* out, counts every payment of an agent once and offers no corridor that loses the
\* units of its coins (celo/).  The Stellar rail admits agents of a tier, tells of
\* settlements that are, misses no route and shows figures that parse back
\* (stellar/).
THEOREM WalletsAlwaysHold == MCSpec => []WalletsHold
<1>1. BuyerInv => WalletsHold
  <2> SUFFICES ASSUME BuyerInv PROVE WalletsHold
    OBVIOUS
  <2>1. WalletHolds
    BY DEF BuyerInv, WalletInv, CallHolds, WalletHolds
  <2>2. LifecycleHolds /\ CeloHolds /\ KyaHolds
    BY LifeFollows, CeloFollows, KyaFollows DEF BuyerInv
  <2>3. SettleTold /\ RouteHolds /\ FiguresHold /\ WarnedOnce
    BY FiguresAlwaysHold DEF BuyerInv, FacilitatorInv, RouteInv, WarnedInv
  <2> QED BY <2>1, <2>2, <2>3 DEF WalletsHold, StellarHolds
<1> QED BY BuyerInitially, BuyerStep, <1>1, PTL DEF MCSpec
===============================================================================
