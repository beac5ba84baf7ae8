--------------------------- MODULE ReceiptScheduler ---------------------------
(***************************************************************************)
(* SpaceRouterReceiptScheduler of src/spacerouter/gateway.ts.  Receipts    *)
(* are numbered in the order they are enqueued.  flush() takes the whole   *)
(* buffer, awaits the gateway, and puts the batch back when that fails;    *)
(* while it waits, receipts are enqueued and the timer, callers and        *)
(* close() ask for further flushes.  The gateway client gives up after a   *)
(* timeout, so a flush always ends.                                        *)
(***************************************************************************)
EXTENDS Integers, Sequences

CONSTANTS
    MaxReceipts,        \* bound on the receipts enqueued
    ClaimThreshold,     \* config.claimThreshold, 0 when absent
    HasTimer            \* config.syncIntervalMs is set

ASSUME SchedulerAssumption ==
    /\ MaxReceipts \in Nat
    /\ ClaimThreshold \in Nat
    /\ HasTimer \in BOOLEAN

VARIABLES
    buffer,     \* this.buffer
    batch,      \* the receipts of the flush under way, << >> if none
    flushing,   \* this.flushing
    closing,    \* "open", "awaiting" (close() awaits its flush) or "returned"
    enqueued,   \* history: number of receipts enqueued
    posted,     \* history: receipts the gateway has received
    settled,    \* history: receipts of the batches whose flush succeeded
    offered     \* history: receipts that were part of some flush

vars == <<buffer, batch, flushing, closing, enqueued, posted, settled, offered>>

Receipts == 1..MaxReceipts

TypeOK ==
    /\ buffer \in Seq(Receipts)
    /\ batch \in Seq(Receipts)
    /\ flushing = (batch # << >>)
    /\ closing \in {"open", "awaiting", "returned"}
    /\ enqueued \in 0..MaxReceipts
    /\ posted \subseteq Receipts
    /\ settled \subseteq Receipts
    /\ offered \subseteq Receipts

Init ==
    /\ buffer = << >> /\ batch = << >>
    /\ flushing = FALSE
    /\ closing = "open"
    /\ enqueued = 0
    /\ posted = {} /\ settled = {} /\ offered = {}

Members(q) == {q[i] : i \in DOMAIN q}

\* flush() up to its await, called when the buffer is q.
Flush(q) ==
    IF flushing \/ q = << >>
    THEN buffer' = q /\ UNCHANGED <<batch, flushing, offered>>
    ELSE /\ batch' = q
         /\ buffer' = << >>
         /\ flushing' = TRUE
         /\ offered' = offered \cup Members(q)

\* enqueue(): rejected once closed; flushes at the threshold.
Enqueue ==
    LET q == Append(buffer, enqueued + 1) IN
    /\ closing = "open"
    /\ enqueued < MaxReceipts
    /\ enqueued' = enqueued + 1
    /\ IF ClaimThreshold # 0 /\ Len(q) >= ClaimThreshold
       THEN Flush(q)
       ELSE buffer' = q /\ UNCHANGED <<batch, flushing, offered>>
    /\ UNCHANGED <<closing, posted, settled>>

\* The interval timer, cleared by close().
TimerFires ==
    /\ HasTimer /\ closing = "open"
    /\ Flush(buffer)
    /\ UNCHANGED <<closing, enqueued, posted, settled>>

\* A direct call of flush(), which does not look at this.closed.
CallFlush ==
    /\ Flush(buffer)
    /\ UNCHANGED <<closing, enqueued, posted, settled>>

\* close() returns at once when its flush() has nothing to do or finds
\* another flush under way.
Close ==
    /\ closing = "open"
    /\ Flush(buffer)
    /\ closing' = IF flushing \/ buffer = << >> THEN "returned" ELSE "awaiting"
    /\ UNCHANGED <<enqueued, posted, settled>>

FlushEnds ==
    /\ batch' = << >>
    /\ flushing' = FALSE
    /\ closing' = IF closing = "awaiting" THEN "returned" ELSE closing

\* syncReceipts() resolved and onSync did not throw.  Receipts the gateway
\* lists as rejected are dropped like the accepted ones.
SyncSucceeds ==
    /\ flushing
    /\ FlushEnds
    /\ posted' = posted \cup Members(batch)
    /\ settled' = settled \cup Members(batch)
    /\ UNCHANGED <<buffer, enqueued, offered>>

\* A slip the code avoids: putting the batch back behind newer receipts.
Bug_SyncFailsPushes(received) ==
    /\ flushing
    /\ FlushEnds
    /\ buffer' = buffer \o batch
    /\ posted' = IF received THEN posted \cup Members(batch) ELSE posted
    /\ UNCHANGED <<enqueued, settled, offered>>

\* A slip the code avoids: leaving the flushing flag set on an error.
Bug_SyncFailsStuck(received) ==
    /\ flushing /\ batch # << >>
    /\ batch' = << >>
    /\ buffer' = batch \o buffer
    /\ closing' = IF closing = "awaiting" THEN "returned" ELSE closing
    /\ posted' = IF received THEN posted \cup Members(batch) ELSE posted
    /\ UNCHANGED <<flushing, enqueued, settled, offered>>

\* syncReceipts() rejected or timed out, or onSync threw: the gateway may
\* have received the batch all the same (received).
SyncFails(received) ==
    /\ flushing
    /\ FlushEnds
    /\ buffer' = batch \o buffer
    /\ posted' = IF received THEN posted \cup Members(batch) ELSE posted
    /\ UNCHANGED <<enqueued, settled, offered>>

Next ==
    \/ Enqueue
    \/ TimerFires
    \/ CallFlush
    \/ Close
    \/ SyncSucceeds
    \/ \E received \in BOOLEAN : SyncFails(received)

Spec == Init /\ [][Next]_vars

\* Fairness: the interval keeps firing, a flush ends (the timeout), and a
\* gateway that is asked again and again succeeds at last.
Fairness ==
    /\ WF_vars(TimerFires)
    /\ WF_vars(\E received \in BOOLEAN : SyncFails(received) \/ SyncSucceeds)
    /\ SF_vars(SyncSucceeds)

FairSpec == Spec /\ Fairness

-------------------------------------------------------------------------------
(* Properties that hold.                                                   *)

Pending == batch \o buffer

Done == enqueued - Len(Pending)

\* Across failed, overlapping and late flushes no receipt is lost, none is
\* held twice, and they stay in order: what is pending is exactly the newest
\* receipts, oldest first, and all the older ones have been settled.
PendingInOrder ==
    /\ Done \in 0..enqueued
    /\ \A i \in 1..Len(Pending) : Pending[i] = Done + i
    /\ settled = 1..Done

\* The gateway never receives a receipt before an older one.
NoGapAtGateway == \E n \in 0..enqueued : posted = 1..n

\* With the timer on, every receipt of an open scheduler is settled at last.
EveryReceiptSettles ==
    \A r \in Receipts :
        enqueued >= r ~> (r \in settled \/ closing # "open")

-------------------------------------------------------------------------------
(* What the doc comment says; see the findings.                            *)

\* close(): "Stop the timer and flush any remaining receipts."  Every receipt
\* has been part of a flush when close() returns.
CloseFlushesAll == closing = "returned" => 1..enqueued \subseteq offered
===============================================================================
