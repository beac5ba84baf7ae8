-------------------------- MODULE SpaceRouterProofs --------------------------
(***************************************************************************)
(* Proofs about the SpaceRouter modules, for any number of fetches,        *)
(* receipts, schedulers and withdrawals and any thresholds.                *)
(*                                                                         *)
(* The scheduler: PendingInOrder and TypeOK are inductive together;        *)
(* NoGapAtGateway needs in addition that what is settled has been posted.  *)
(* The client: ReceiptsAccountedFor needs CarriesOne, where a receipt may  *)
(* be; DepositsLand needs OneDeposit, what the pool holds while deposits   *)
(* do not overlap; WithdrawalsLand needs that only the first withdrawal    *)
(* in the pool can still stand on what its caller checked.                 *)
(***************************************************************************)
EXTENDS ReceiptScheduler, SpaceRouterClient, FiniteSetTheorems, SequenceTheorems, TLAPS

-------------------------------------------------------------------------------
(* The receipt scheduler.                                                  *)

\* What is pending, and its types.
Ordered == TypeOK /\ PendingInOrder

PostedPrefix == NoGapAtGateway /\ settled \subseteq posted

-------------------------------------------------------------------------------
(* Sequences.                                                              *)

\* Concatenation, element by element.
LEMMA ConcatType ==
    ASSUME NEW S, NEW s \in Seq(S), NEW t \in Seq(S)
    PROVE  /\ s \o t \in Seq(S)
           /\ Len(s \o t) = Len(s) + Len(t)
           /\ \A i \in 1..Len(s) : (s \o t)[i] = s[i]
           /\ \A i \in 1..Len(t) : (s \o t)[Len(s) + i] = t[i]
  OBVIOUS

\* The empty sequence adds nothing.
LEMMA EmptyConcat ==
    ASSUME NEW S, NEW s \in Seq(S)
    PROVE  << >> \o s = s /\ s \o << >> = s
  OBVIOUS

\* Appending to the second of two sequences.
LEMMA ConcatAppend ==
    ASSUME NEW S, NEW s \in Seq(S), NEW t \in Seq(S), NEW e \in S
    PROVE  /\ Append(t, e) \in Seq(S)
           /\ s \o Append(t, e) = Append(s \o t, e)
  OBVIOUS

\* The members of a sequence are of its type.
LEMMA MembersType ==
    ASSUME NEW S, NEW s \in Seq(S)
    PROVE  Members(s) \subseteq S
  BY DEF Members

-------------------------------------------------------------------------------

\* A flush moves the boundary between batch and buffer, nothing else.
LEMMA FlushKeepsPending ==
    ASSUME TypeOK, NEW q \in Seq(Receipts), Flush(q)
    PROVE  /\ buffer' \in Seq(Receipts) /\ batch' \in Seq(Receipts)
           /\ flushing' = (batch' # << >>)
           /\ offered' \subseteq Receipts
           /\ Pending' = batch \o q
  <1>1. CASE flushing \/ q = << >>
    BY <1>1 DEF Flush, TypeOK, Pending
  <1>2. CASE ~(flushing \/ q = << >>)
    <2>1. batch = << >>
      BY <1>2 DEF TypeOK
    <2>2. Pending' = q /\ batch \o q = q
      BY <1>2, <2>1, EmptyConcat DEF Flush, Pending
    <2>3. << >> \in Seq(Receipts)
      OBVIOUS
    <2> QED BY <1>2, <2>2, <2>3, MembersType DEF Flush, TypeOK
  <1> QED BY <1>1, <1>2

\* At the start nothing is pending or posted.
LEMMA InitOrdered == Init => Ordered /\ PostedPrefix
  <1> SUFFICES ASSUME Init PROVE Ordered /\ PostedPrefix
    OBVIOUS
  <1>1. TypeOK
    <2>1. << >> \in Seq(Receipts) /\ 0 \in 0..MaxReceipts
      BY SchedulerAssumption
    <2> QED BY <2>1 DEF Init, TypeOK
  <1>2. Pending = << >>
    BY <1>1, EmptyConcat DEF Init, Pending, TypeOK
  <1>3. Len(Pending) = 0
    BY <1>2
  <1>4. Done = 0 /\ enqueued = 0
    BY <1>3 DEF Init, Done
  <1>5. PendingInOrder
    BY <1>3, <1>4 DEF Init, PendingInOrder
  <1>6. PostedPrefix
    BY <1>4 DEF Init, PostedPrefix, NoGapAtGateway
  <1> QED BY <1>1, <1>5, <1>6 DEF Ordered

\* Steps that flush the buffer as it is.
LEMMA FlushOrdered ==
    ASSUME Ordered, PostedPrefix, Flush(buffer),
           UNCHANGED <<enqueued, posted, settled>>,
           closing' \in {"open", "awaiting", "returned"}
    PROVE  Ordered' /\ PostedPrefix'
  <1>1. /\ buffer' \in Seq(Receipts) /\ batch' \in Seq(Receipts)
        /\ flushing' = (batch' # << >>)
        /\ offered' \subseteq Receipts
        /\ Pending' = Pending
    BY FlushKeepsPending DEF Ordered, TypeOK, Pending
  <1>2. TypeOK'
    BY <1>1 DEF Ordered, TypeOK
  <1>3. Done' = Done
    BY <1>1 DEF Done
  <1>4. PendingInOrder'
    BY <1>1, <1>3 DEF Ordered, PendingInOrder
  <1> QED BY <1>2, <1>4 DEF Ordered, PostedPrefix, NoGapAtGateway

\* A receipt joins at the end, and may start a flush.
LEMMA EnqueueOrdered ==
    ASSUME Ordered, PostedPrefix, Enqueue
    PROVE  Ordered' /\ PostedPrefix'
  <1> DEFINE e == enqueued + 1
             q == Append(buffer, e)
  <1>1. e \in Receipts /\ enqueued \in Nat
    BY SchedulerAssumption DEF Ordered, TypeOK, Enqueue, Receipts
  <1>2. /\ buffer \in Seq(Receipts) /\ batch \in Seq(Receipts)
        /\ q \in Seq(Receipts)
        /\ Pending \in Seq(Receipts)
        /\ batch \o q = Append(Pending, e)
    BY <1>1, ConcatAppend, ConcatType DEF Ordered, TypeOK, Pending
  <1>3. /\ buffer' \in Seq(Receipts) /\ batch' \in Seq(Receipts)
        /\ flushing' = (batch' # << >>)
        /\ offered' \subseteq Receipts
        /\ Pending' = Append(Pending, e)
    <2>1. CASE Flush(q)
      BY <1>2, <2>1, FlushKeepsPending DEF Ordered
    <2>2. CASE buffer' = q /\ UNCHANGED <<batch, flushing, offered>>
      BY <1>2, <2>2 DEF Ordered, TypeOK, Pending
    <2> QED BY <2>1, <2>2 DEF Enqueue
  <1> HIDE DEF q
  <1>4. TypeOK'
    <2>1. enqueued' \in 0..MaxReceipts /\ UNCHANGED <<closing, posted, settled>>
      BY <1>1, SchedulerAssumption DEF Enqueue, Receipts
    <2> QED BY <1>3, <2>1 DEF Ordered, TypeOK
  <1>5. /\ Len(Pending') = Len(Pending) + 1
        /\ \A i \in 1..Len(Pending) : Pending'[i] = Pending[i]
        /\ Pending'[Len(Pending) + 1] = e
    BY <1>1, <1>2, <1>3
  <1>6. Len(Pending) \in Nat /\ enqueued' = e
    BY <1>2 DEF Enqueue
  <1>7. Done' = Done
    BY <1>1, <1>5, <1>6 DEF Done
  <1>8. PendingInOrder'
    <2>1. Done' \in 0..enqueued' /\ settled' = 1..Done'
      BY <1>1, <1>6, <1>7 DEF Ordered, PendingInOrder, Enqueue
    <2>2. ASSUME NEW i \in 1..Len(Pending') PROVE Pending'[i] = Done' + i
      <3>1. CASE i \in 1..Len(Pending)
        BY <1>5, <1>7, <3>1 DEF Ordered, PendingInOrder
      <3>2. CASE i = Len(Pending) + 1
        BY <1>1, <1>5, <1>6, <1>7, <3>2 DEF Done
      <3> QED BY <1>5, <1>6, <3>1, <3>2
    <2> QED BY <2>1, <2>2 DEF PendingInOrder
  <1>9. PostedPrefix'
    <2>1. 0..enqueued \subseteq 0..enqueued'
      BY <1>1, <1>6
    <2> QED BY <2>1 DEF PostedPrefix, NoGapAtGateway, Enqueue
  <1> QED BY <1>4, <1>8, <1>9 DEF Ordered

\* The batch is the part of the pending receipts right after what is settled.
LEMMA BatchIsNext ==
    ASSUME Ordered
    PROVE  /\ Len(batch) \in Nat /\ Len(buffer) \in Nat
           /\ Done \in Nat /\ enqueued \in Nat
           /\ Done + Len(batch) + Len(buffer) = enqueued
           /\ Members(batch) = Done + 1 .. Done + Len(batch)
           /\ \A i \in 1..Len(buffer) : buffer[i] = Done + Len(batch) + i
  <1>1. batch \in Seq(Receipts) /\ buffer \in Seq(Receipts)
    BY DEF Ordered, TypeOK
  <1>2. Len(batch) \in Nat /\ Len(buffer) \in Nat /\ enqueued \in Nat /\ Done \in Nat
    BY <1>1, SchedulerAssumption DEF Ordered, TypeOK, PendingInOrder
  <1>3. /\ Len(Pending) = Len(batch) + Len(buffer)
        /\ \A i \in 1..Len(batch) : Pending[i] = batch[i]
        /\ \A i \in 1..Len(buffer) : Pending[Len(batch) + i] = buffer[i]
    BY <1>1, ConcatType DEF Pending
  <1>4. Done + Len(batch) + Len(buffer) = enqueued
    BY <1>2, <1>3 DEF Done
  <1>5. \A i \in 1..Len(batch) : batch[i] = Done + i
    BY <1>2, <1>3 DEF Ordered, PendingInOrder
  <1>6. \A i \in 1..Len(buffer) : buffer[i] = Done + Len(batch) + i
    BY <1>2, <1>3 DEF Ordered, PendingInOrder
  <1>7. DOMAIN batch = 1..Len(batch)
    BY <1>1
  <1>8. Members(batch) = Done + 1 .. Done + Len(batch)
    <2>1. ASSUME NEW m \in Members(batch) PROVE m \in Done + 1 .. Done + Len(batch)
      BY <1>2, <1>5, <1>7 DEF Members
    <2>2. ASSUME NEW m \in Done + 1 .. Done + Len(batch) PROVE m \in Members(batch)
      <3>1. m - Done \in 1..Len(batch) /\ batch[m - Done] = m
        BY <1>2, <1>5
      <3> QED BY <1>7, <3>1 DEF Members
    <2> QED BY <2>1, <2>2
  <1> QED BY <1>2, <1>4, <1>6, <1>8

\* Posting the batch leaves no gap: it starts at most one past what the
\* gateway has received.
LEMMA PostKeepsPrefix ==
    ASSUME Ordered, PostedPrefix, posted' = posted \cup Members(batch),
           enqueued' = enqueued
    PROVE  NoGapAtGateway' /\ posted' \subseteq Receipts
  <1>1. PICK n \in 0..enqueued : posted = 1..n
    BY DEF PostedPrefix, NoGapAtGateway
  <1>2. settled = 1..Done /\ 1..Done \subseteq 1..n
    BY <1>1 DEF Ordered, PostedPrefix, PendingInOrder
  <1>3. Done <= n /\ n \in Nat
    <2>1. n \in Nat /\ Done \in Nat
      BY <1>1, BatchIsNext
    <2>2. Done \in 1..Done => Done \in 1..n
      BY <1>2
    <2> QED BY <2>1, <2>2
  <1> DEFINE k == Done + Len(batch)
             m == IF n < k THEN k ELSE n
  <1>4. posted' = 1..m
    BY <1>1, <1>3, BatchIsNext
  <1>5. m \in 0..enqueued
    BY <1>1, <1>3, BatchIsNext
  <1>6. 1..m \subseteq Receipts
    BY <1>5, SchedulerAssumption DEF Ordered, TypeOK, Receipts
  <1> HIDE DEF m
  <1> QED BY <1>4, <1>5, <1>6 DEF NoGapAtGateway

\* A batch that is settled leaves the others in order.
LEMMA SyncSucceedsOrdered ==
    ASSUME Ordered, PostedPrefix, SyncSucceeds
    PROVE  Ordered' /\ PostedPrefix'
  <1>1. NoGapAtGateway' /\ posted' \subseteq Receipts
    BY PostKeepsPrefix DEF SyncSucceeds
  <1>2. << >> \in Seq(Receipts) /\ buffer' \in Seq(Receipts)
    BY DEF Ordered, TypeOK, SyncSucceeds
  <1>3. settled' \subseteq Receipts
    BY MembersType DEF Ordered, TypeOK, SyncSucceeds
  <1>4. TypeOK'
    BY <1>1, <1>2, <1>3 DEF Ordered, TypeOK, SyncSucceeds, FlushEnds
  <1>5. Pending' = buffer
    BY <1>2, EmptyConcat DEF Pending, SyncSucceeds, FlushEnds
  <1>6. Done' = Done + Len(batch)
    BY <1>5, BatchIsNext DEF Done, SyncSucceeds
  <1>7. settled' = 1..Done'
    BY <1>6, BatchIsNext DEF Ordered, PendingInOrder, SyncSucceeds
  <1>8. PendingInOrder'
    BY <1>5, <1>6, <1>7, BatchIsNext DEF PendingInOrder, SyncSucceeds
  <1>9. settled' \subseteq posted'
    BY DEF PostedPrefix, SyncSucceeds
  <1> QED BY <1>1, <1>4, <1>8, <1>9 DEF Ordered, PostedPrefix

\* A batch that failed goes back to where it was.
LEMMA SyncFailsOrdered ==
    ASSUME Ordered, PostedPrefix, NEW posts \in BOOLEAN, SyncFails(posts)
    PROVE  Ordered' /\ PostedPrefix'
  <1>1. NoGapAtGateway' /\ posted' \subseteq Receipts
    <2>1. CASE posts
      BY <2>1, PostKeepsPrefix DEF SyncFails
    <2>2. CASE ~posts
      BY <2>2 DEF SyncFails, PostedPrefix, NoGapAtGateway, Ordered, TypeOK
    <2> QED BY <2>1, <2>2
  <1>2. << >> \in Seq(Receipts) /\ Pending \in Seq(Receipts)
    BY ConcatType DEF Ordered, TypeOK, Pending
  <1>3. Pending' = Pending
    BY <1>2, EmptyConcat DEF Pending, SyncFails, FlushEnds
  <1>4. TypeOK'
    BY <1>1, <1>2 DEF Ordered, TypeOK, SyncFails, FlushEnds, Pending
  <1>5. PendingInOrder'
    BY <1>3 DEF Ordered, PendingInOrder, Done, SyncFails
  <1>6. settled' \subseteq posted'
    BY DEF PostedPrefix, SyncFails
  <1> QED BY <1>1, <1>4, <1>5, <1>6 DEF Ordered, PostedPrefix

\* Every step of the scheduler keeps both.
LEMMA StepOrdered == Ordered /\ PostedPrefix /\ [Next]_vars => Ordered' /\ PostedPrefix'
  <1> SUFFICES ASSUME Ordered, PostedPrefix, [Next]_vars
               PROVE  Ordered' /\ PostedPrefix'
    OBVIOUS
  <1>1. CASE Enqueue
    BY <1>1, EnqueueOrdered
  <1>2. CASE TimerFires
    BY <1>2, FlushOrdered DEF TimerFires, Ordered, TypeOK
  <1>3. CASE CallFlush
    BY <1>3, FlushOrdered DEF CallFlush, Ordered, TypeOK
  <1>4. CASE Close
    BY <1>4, FlushOrdered DEF Close, Ordered, TypeOK
  <1>5. CASE SyncSucceeds
    BY <1>5, SyncSucceedsOrdered
  <1>6. ASSUME NEW posts \in BOOLEAN, SyncFails(posts)
        PROVE  Ordered' /\ PostedPrefix'
    BY <1>6, SyncFailsOrdered
  <1>7. CASE UNCHANGED vars
    BY <1>7 DEF vars, Ordered, TypeOK, PendingInOrder, Pending, Done,
                PostedPrefix, NoGapAtGateway
  <1> QED BY <1>1, <1>2, <1>3, <1>4, <1>5, <1>6, <1>7 DEF Next

-------------------------------------------------------------------------------

\* Hence both hold of every behaviour: what flush() puts back keeps its place
\* (spacerouter/gateway.ts).
THEOREM OrderedInvariant == Spec => [](Ordered /\ PostedPrefix)
  BY InitOrdered, StepOrdered, PTL DEF Spec

\* The state of the scheduler is always well typed.
THEOREM SchedulerTyped == Spec => []TypeOK
  <1>1. Ordered => TypeOK
    BY DEF Ordered
  <1> QED BY <1>1, OrderedInvariant, PTL

\* No receipt handed to the scheduler is lost, duplicated or reordered.
THEOREM PendingAlwaysInOrder == Spec => []PendingInOrder
  <1>1. Ordered => PendingInOrder
    BY DEF Ordered
  <1> QED BY <1>1, OrderedInvariant, PTL

\* The gateway receives the receipts without a gap.
THEOREM NeverGapAtGateway == Spec => []NoGapAtGateway
  <1>1. PostedPrefix => NoGapAtGateway
    BY DEF PostedPrefix
  <1> QED BY <1>1, OrderedInvariant, PTL

-------------------------------------------------------------------------------
(* The client: its receipts.                                               *)

\* Where the receipts may be: a fetch() that waits for the signer's address
\* carries one of its own, the current scheduler is the last one created, and
\* nothing is in the buffer of one that was closed or is yet to come.
CarriesOne ==
    /\ received \in Nat /\ created \in 0..MaxSchedulers /\ scheduler = created /\ closed \subseteq 1..created
    /\ carried \in [Slots -> Nat] /\ buffers \in [Schedulers -> SUBSET Nat]
    /\ \A s \in Slots : carried[s] # 0 => stage[s] = "address"
    /\ \A s, t \in Slots : carried[s] # 0 /\ carried[s] = carried[t] => s = t
    /\ \A k \in Schedulers : k \in closed \/ k > created => buffers[k] = {}

ReceiptsInv == CarriesOne /\ stage \in [Slots -> Stages] /\ ReceiptsAccountedFor

\* At the start there are no receipts.
LEMMA ReceiptsInitially == ClientInit => ReceiptsInv
<1> SUFFICES ASSUME ClientInit PROVE ReceiptsInv
  OBVIOUS
<1>1. /\ \A k \in Schedulers : buffers[k] = {}
      /\ \A s \in Slots : carried[s] = 0
      /\ received = 0 /\ flushed = {} /\ dropped = {} /\ closed = {} /\ created = 0 /\ scheduler = 0
      /\ stage \in [Slots -> Stages] /\ carried \in [Slots -> Nat] /\ buffers \in [Schedulers -> SUBSET Nat]
  BY DEF ClientInit, Stages
<1>3. MaxSchedulers \in Nat
  BY SpaceRouterAssumption
<1>2. Buffered = {} /\ Carried = {}
  BY <1>1 DEF Buffered, Carried
<1> QED BY <1>1, <1>2, <1>3 DEF ReceiptsInv, CarriesOne, ReceiptsAccountedFor

\* A fetch() moves on with nothing in its hands.
LEMMA FetchGoesOn ==
  ASSUME ReceiptsInv, NEW s \in Slots, NEW here \in Stages \ {"address"}, NEW there \in Stages, At(s, here, there),
         UNCHANGED <<carried, receipts, received>>
  PROVE  ReceiptsInv'
<1>1. stage' \in [Slots -> Stages] /\ stage[s] # "address" /\ \A t \in Slots : t # s => stage'[t] = stage[t]
  BY DEF At, ReceiptsInv
<1>2. carried[s] = 0
  BY <1>1 DEF ReceiptsInv, CarriesOne
<1>3. \A t \in Slots : carried[t] # 0 => stage'[t] = "address"
  BY <1>1, <1>2 DEF ReceiptsInv, CarriesOne
<1>4. CarriesOne'
  BY <1>3 DEF ReceiptsInv, CarriesOne, receipts
<1>5. ReceiptsAccountedFor'
  BY DEF ReceiptsInv, ReceiptsAccountedFor, Buffered, Carried, receipts
<1> QED BY <1>1, <1>4, <1>5 DEF ReceiptsInv

\* A buffer is handed over, as a whole.
LEMMA BufferGoes ==
  ASSUME ReceiptsInv, NEW k \in Schedulers, buffers' = [buffers EXCEPT ![k] = {}],
         flushed' = flushed \cup buffers[k], closed \subseteq closed', closed' \subseteq closed \cup {k}, k \in 1..created,
         UNCHANGED <<stage, carried, scheduler, created, dropped, received>>
  PROVE  ReceiptsInv'
<1>1. /\ buffers'[k] = {} /\ \A l \in Schedulers : l # k => buffers'[l] = buffers[l]
      /\ buffers' \in [Schedulers -> SUBSET Nat]
  BY DEF ReceiptsInv, CarriesOne
<1>2. CarriesOne'
  BY <1>1 DEF ReceiptsInv, CarriesOne
<1>3. Carried' = Carried
  BY DEF Carried
<1>4. Buffered = Buffered' \cup buffers[k] /\ Buffered' \cap buffers[k] = {}
  <2>1. \A l \in Schedulers : l # k => buffers[l] \cap buffers[k] = {}
    BY DEF ReceiptsInv, ReceiptsAccountedFor
  <2> QED BY <1>1, <2>1 DEF Buffered
<1>5. \A l, m \in Schedulers : l # m => buffers'[l] \cap buffers'[m] = {}
  BY <1>1 DEF ReceiptsInv, ReceiptsAccountedFor
<1>6. /\ 1..received' = Carried' \cup Buffered' \cup flushed' \cup dropped'
      /\ Carried' \cap (Buffered' \cup flushed' \cup dropped') = {}
      /\ Buffered' \cap (flushed' \cup dropped') = {} /\ flushed' \cap dropped' = {}
  BY <1>3, <1>4 DEF ReceiptsInv, ReceiptsAccountedFor
<1> QED BY <1>2, <1>5, <1>6 DEF ReceiptsInv, ReceiptsAccountedFor

\* A receipt r that is nowhere else, or none, is enqueued at scheduler k.
LEMMA Enqueued ==
  ASSUME ReceiptsInv, NEW k \in Schedulers, NEW r \in Nat, EnqueueAt(k, r), closed' = closed,
         r = 0 => received' = received /\ Carried' = Carried,
         r # 0 => /\ 1..received' = Carried' \cup {r} \cup Buffered \cup flushed \cup dropped
                  /\ r \notin Carried' \cup Buffered \cup flushed \cup dropped
                  /\ Carried' \subseteq Carried
  PROVE  /\ ReceiptsAccountedFor'
         /\ buffers' \in [Schedulers -> SUBSET Nat]
         /\ \A l \in Schedulers : l # k \/ k \in closed => buffers'[l] = buffers[l]
<1> DEFINE full == buffers[k] \cup {r}
<1>1. ReceiptsAccountedFor /\ buffers \in [Schedulers -> SUBSET Nat]
  BY DEF ReceiptsInv, CarriesOne
<1>2. CASE UNCHANGED <<buffers, flushed>>
  <2>1. Buffered' = Buffered
    BY <1>2 DEF Buffered
  <2>2. \/ r = 0 /\ dropped' = dropped
        \/ r # 0 /\ k \in closed /\ dropped' = dropped \cup {r}
        \/ r # 0 /\ k \notin closed /\ dropped' = dropped
           /\ ((full \subseteq flushed /\ buffers[k] = {}) \/ full = buffers[k])
    <3>1. CASE r # 0 /\ k \notin closed
      <4>1. \/ flushed' = flushed \cup full /\ buffers' = [buffers EXCEPT ![k] = {}]
            \/ buffers' = [buffers EXCEPT ![k] = full]
        BY <3>1 DEF EnqueueAt
      <4> QED BY <1>1, <1>2, <3>1, <4>1 DEF EnqueueAt
    <3> QED BY <3>1 DEF EnqueueAt
  <2>3. r # 0 /\ k \notin closed => FALSE
    BY <2>2 DEF Buffered
  <2>4. ASSUME r = 0, dropped' = dropped PROVE ReceiptsAccountedFor'
    BY <1>1, <1>2, <2>1, <2>4 DEF ReceiptsAccountedFor
  <2>5. ASSUME r # 0, k \in closed, dropped' = dropped \cup {r} PROVE ReceiptsAccountedFor'
    <3>1. /\ 1..received' = Carried' \cup Buffered' \cup flushed' \cup dropped'
          /\ Carried' \cap (Buffered' \cup flushed' \cup dropped') = {}
          /\ Buffered' \cap (flushed' \cup dropped') = {} /\ flushed' \cap dropped' = {}
      BY <1>1, <1>2, <2>1, <2>5 DEF ReceiptsAccountedFor
    <3> QED BY <1>1, <1>2, <2>5, <3>1 DEF ReceiptsAccountedFor
  <2>6. \A l \in Schedulers : buffers'[l] = buffers[l]
    BY <1>2
  <2>7. buffers' \in [Schedulers -> SUBSET Nat]
    BY <1>1, <1>2
  <2>8. ReceiptsAccountedFor'
    BY <2>2, <2>3, <2>4, <2>5
  <2> QED BY <2>6, <2>7, <2>8
<1>3. CASE r # 0 /\ k \notin closed /\ dropped' = dropped /\ flushed' = flushed \cup full
           /\ buffers' = [buffers EXCEPT ![k] = {}]
  <2>1. buffers'[k] = {} /\ \A l \in Schedulers : l # k => buffers'[l] = buffers[l]
    BY <1>1, <1>3
  <2>2. Buffered = Buffered' \cup buffers[k] /\ Buffered' \cap buffers[k] = {}
    BY <1>1, <2>1 DEF Buffered, ReceiptsAccountedFor
  <2>3. /\ 1..received' = Carried' \cup Buffered' \cup flushed' \cup dropped'
        /\ Carried' \cap (Buffered' \cup flushed' \cup dropped') = {}
        /\ Buffered' \cap (flushed' \cup dropped') = {} /\ flushed' \cap dropped' = {}
    BY <1>1, <1>3, <2>2 DEF ReceiptsAccountedFor
  <2>4. \A l, m \in Schedulers : l # m => buffers'[l] \cap buffers'[m] = {}
    BY <1>1, <2>1 DEF ReceiptsAccountedFor
  <2> QED BY <1>1, <1>3, <2>1, <2>3, <2>4 DEF ReceiptsAccountedFor
<1>4. CASE r # 0 /\ k \notin closed /\ UNCHANGED <<dropped, flushed>>
           /\ buffers' = [buffers EXCEPT ![k] = full]
  <2>1. buffers'[k] = full /\ \A l \in Schedulers : l # k => buffers'[l] = buffers[l]
    BY <1>1, <1>4
  <2>2. Buffered' = Buffered \cup {r}
    BY <1>1, <2>1 DEF Buffered
  <2>3. /\ 1..received' = Carried' \cup Buffered' \cup flushed' \cup dropped'
        /\ Carried' \cap (Buffered' \cup flushed' \cup dropped') = {}
        /\ Buffered' \cap (flushed' \cup dropped') = {} /\ flushed' \cap dropped' = {}
    BY <1>1, <1>4, <2>2 DEF ReceiptsAccountedFor
  <2>4. \A l \in Schedulers : r \notin buffers[l]
    BY <1>4 DEF Buffered
  <2>5. \A l, m \in Schedulers : l # m => buffers'[l] \cap buffers'[m] = {}
    BY <1>1, <2>1, <2>4 DEF ReceiptsAccountedFor
  <2> QED BY <1>1, <1>4, <2>1, <2>3, <2>5 DEF ReceiptsAccountedFor
<1> QED BY <1>2, <1>3, <1>4 DEF EnqueueAt

\* Every step of the client keeps the invariant.
LEMMA ReceiptsStep == ReceiptsInv /\ [ClientNext]_clientVars => ReceiptsInv'
<1> SUFFICES ASSUME ReceiptsInv, [ClientNext]_clientVars PROVE ReceiptsInv'
  OBVIOUS
<1>1. /\ received \in Nat /\ created \in 0..MaxSchedulers /\ scheduler = created /\ closed \subseteq 1..created
      /\ carried \in [Slots -> Nat] /\ buffers \in [Schedulers -> SUBSET Nat] /\ stage \in [Slots -> Stages]
      /\ ReceiptsAccountedFor
  BY DEF ReceiptsInv, CarriesOne
<1>2. MaxSchedulers \in Nat
  BY SpaceRouterAssumption
<1>3. CASE UNCHANGED <<stage, carried, receipts, received>>
  BY <1>3 DEF ReceiptsInv, CarriesOne, ReceiptsAccountedFor, Buffered, Carried, receipts
<1>4. CASE Mine
  <2>1. UNCHANGED <<carried, receipts, received>>
    BY <1>4 DEF Mine
  <2>2. stage' \in [Slots -> Stages] /\ \A s \in Slots : stage[s] = "address" => stage'[s] = "address"
    BY <1>1, <1>4 DEF Mine, Stages
  <2>3. CarriesOne'
    BY <2>1, <2>2 DEF ReceiptsInv, CarriesOne, receipts
  <2> QED BY <1>1, <2>1, <2>2, <2>3 DEF ReceiptsInv, ReceiptsAccountedFor, Buffered, Carried, receipts
<1>5. CASE CloseClient
  <2>1. scheduler \in Schedulers /\ scheduler \in 1..created
    BY <1>1, <1>2, <1>5 DEF CloseClient, Schedulers, ReceiptsInv, CarriesOne
  <2> QED BY <1>5, <2>1, BufferGoes DEF CloseClient
<1>6. ASSUME NEW k \in Schedulers, FlushBuffer(k) PROVE ReceiptsInv'
  <2>1. k \in 1..created
    BY <1>1, <1>2, <1>6 DEF FlushBuffer, Schedulers
  <2> QED BY <1>6, <2>1, BufferGoes DEF FlushBuffer
<1>7. ASSUME NEW s \in Slots,
             \/ StartFetch(s) \/ EnsureBalance(s) \/ ReadAllowance(s) \/ SubmitDeposit(s) \/ LoadSdk(s)
             \/ ProxyFails(s)
      PROVE ReceiptsInv'
  BY <1>7, FetchGoesOn DEF StartFetch, EnsureBalance, ReadAllowance, SubmitDeposit, LoadSdk, ProxyFails, Stages
<1>8. ASSUME NEW s \in Slots, NEW r \in 0..MaxFetches, Respond(s, r) PROVE ReceiptsInv'
  <2>1. /\ r \in Nat /\ r \in {0, received + 1} /\ received' = (IF r = 0 THEN received ELSE r)
        /\ stage[s] = "response" /\ stage' \in [Slots -> Stages]
        /\ \A t \in Slots : t # s => stage'[t] = stage[t]
    BY <1>1, <1>8, SpaceRouterAssumption DEF Respond, At, Stages
  <2>2. carried[s] = 0
    BY <2>1 DEF ReceiptsInv, CarriesOne
  <2>3. \A n \in 1..received : n # received + 1
    BY <1>1
  <2>4. r # 0 => 1..received' = (1..received) \cup {r} /\ r \notin 1..received /\ received' \in Nat
    BY <1>1, <2>1
  <2>5. received' \in Nat
    BY <1>1, <2>1
  <2>6. CASE scheduler = 0 /\ stage'[s] = "address" /\ carried' = [carried EXCEPT ![s] = r] /\ UNCHANGED receipts
    <3>1. carried'[s] = r /\ \A t \in Slots : t # s => carried'[t] = carried[t]
      BY <1>1, <2>6
    <3>2. \A t \in Slots : carried[t] # 0 => carried[t] \in 1..received
      BY <1>1 DEF Carried, ReceiptsAccountedFor
    <3>3. CarriesOne'
      BY <1>1, <2>1, <2>4, <2>5, <2>6, <3>1, <3>2, ZenonT(30) DEF ReceiptsInv, CarriesOne, receipts
    <3>4. Carried' = Carried \cup ({r} \ {0})
      BY <2>2, <3>1 DEF Carried
    <3>5. Buffered' = Buffered
      BY <2>6 DEF Buffered, receipts
    <3>6. r = 0 => received' = received
      BY <2>1
    <3>7. /\ 1..received' = Carried' \cup Buffered' \cup flushed' \cup dropped'
          /\ Carried' \cap (Buffered' \cup flushed' \cup dropped') = {}
      BY <1>1, <2>4, <2>6, <3>4, <3>5, <3>6 DEF ReceiptsAccountedFor, receipts
    <3> QED BY <1>1, <2>1, <2>6, <3>3, <3>5, <3>7 DEF ReceiptsInv, ReceiptsAccountedFor, receipts
  <2>7. CASE scheduler # 0 /\ EnqueueAt(scheduler, r) /\ UNCHANGED <<carried, scheduler, created, closed>>
             /\ stage'[s] = "idle"
    <3>1. scheduler \in Schedulers
      BY <1>1, <1>2, <2>7 DEF Schedulers
    <3>2. Carried' = Carried
      BY <2>7 DEF Carried
    <3>3. /\ ReceiptsAccountedFor' /\ buffers' \in [Schedulers -> SUBSET Nat]
          /\ \A l \in Schedulers : l # scheduler \/ scheduler \in closed => buffers'[l] = buffers[l]
      BY <1>1, <2>1, <2>4, <2>7, <3>1, <3>2, Enqueued DEF ReceiptsAccountedFor
    <3>4. \A t \in Slots : carried'[t] # 0 => stage'[t] = "address"
      BY <2>1, <2>2, <2>7 DEF ReceiptsInv, CarriesOne
    <3>5. CarriesOne'
      BY <1>1, <2>5, <2>7, <3>3, <3>4 DEF ReceiptsInv, CarriesOne
    <3> QED BY <2>1, <3>3, <3>5 DEF ReceiptsInv
  <2> QED BY <1>1, <1>8, <2>6, <2>7 DEF Respond, At
<1>9. ASSUME NEW s \in Slots, EnsureScheduler(s) PROVE ReceiptsInv'
  <2> DEFINE r == carried[s]
             k == created + 1
  <2>1. /\ k \in Schedulers /\ created' = k /\ scheduler' = k /\ r \in Nat /\ EnqueueAt(k, r)
        /\ carried' = [carried EXCEPT ![s] = 0] /\ UNCHANGED <<closed, received>>
        /\ stage' \in [Slots -> Stages] /\ \A t \in Slots : t # s => stage'[t] = stage[t]
    BY <1>1, <1>2, <1>9 DEF EnsureScheduler, Schedulers, At, Stages
  <2>2. carried'[s] = 0 /\ \A t \in Slots : t # s => carried'[t] = carried[t]
    BY <1>1, <2>1
  <2>3. Carried' = Carried \ {r} /\ (r # 0 => r \in Carried)
    <3>1. \A t \in Slots : t # s /\ r # 0 => carried[t] # r
      BY DEF ReceiptsInv, CarriesOne
    <3> QED BY <2>2, <3>1 DEF Carried
  <2>4. r = 0 => Carried' = Carried
    BY <2>3 DEF Carried
  <2>5. r # 0 => /\ 1..received' = Carried' \cup {r} \cup Buffered \cup flushed \cup dropped
                 /\ r \notin Carried' \cup Buffered \cup flushed \cup dropped
                 /\ Carried' \subseteq Carried
    BY <1>1, <2>1, <2>3 DEF ReceiptsAccountedFor
  <2>6. k \in 0..MaxSchedulers /\ k > created /\ \A l \in Schedulers : l > k => l > created /\ l # k
    BY <1>1, <1>2, <2>1 DEF Schedulers
  <2> HIDE DEF r, k
  <2>7. /\ ReceiptsAccountedFor' /\ buffers' \in [Schedulers -> SUBSET Nat]
        /\ \A l \in Schedulers : l # k \/ k \in closed => buffers'[l] = buffers[l]
    BY <2>1, <2>4, <2>5, Enqueued
  <2>8. \A l \in Schedulers : l \in closed' \/ l > created' => buffers'[l] = {}
    BY <1>1, <2>1, <2>6, <2>7 DEF ReceiptsInv, CarriesOne
  <2>9. closed' \subseteq 1..created'
    BY <1>1, <2>1, <2>6
  <2>10. CarriesOne'
    BY <1>1, <2>1, <2>2, <2>6, <2>7, <2>8, <2>9 DEF ReceiptsInv, CarriesOne
  <2> QED BY <2>1, <2>7, <2>10 DEF ReceiptsInv
<1> QED BY <1>3, <1>4, <1>5, <1>6, <1>7, <1>8, <1>9 DEF ClientNext, Claim, clientVars

\* No receipt is lost, for any number of overlapping fetches, schedulers and
\* flushes: each is in exactly one place, and unless two first fetches overlapped
\* those that wait are in the buffer that close() flushes
\* (spacerouter/client.ts:206-240).
THEOREM NeverReceiptLost == ClientSpec => []NoReceiptLost
<1>1. ReceiptsInv => NoReceiptLost
  <2> SUFFICES ASSUME ReceiptsInv PROVE CloseReachesReceipts
    BY DEF ReceiptsInv, NoReceiptLost
  <2>1. /\ created \in Nat /\ scheduler = created
        /\ \A k \in Schedulers : buffers[k] # {} => k \notin closed /\ ~(k > created)
    BY DEF ReceiptsInv, CarriesOne
  <2>2. \A k \in Schedulers : k \in Nat /\ k >= 1
    BY SpaceRouterAssumption DEF Schedulers
  <2> QED BY <2>1, <2>2 DEF CloseReachesReceipts
<1> QED BY <1>1, ReceiptsInitially, ReceiptsStep, PTL DEF ClientSpec

-------------------------------------------------------------------------------
(* The client: its deposits.                                               *)

\* The first of a sequence, and what is left without it.
LEMMA FirstAndRest ==
  ASSUME NEW S, NEW q \in Seq(S), q # << >>
  PROVE  /\ q[1] \in S /\ Len(q) \in Nat /\ Len(q) > 0 /\ Head(q) = q[1]
         /\ Tail(q) \in Seq(S) /\ Len(Tail(q)) = Len(q) - 1
         /\ \A i \in 1..Len(Tail(q)) : i + 1 \in 1..Len(q) /\ Tail(q)[i] = q[i + 1]
         /\ Len(q) <= 1 => Tail(q) = << >>
  OBVIOUS

\* Has the deposit() of slot s sent its approve and not yet its deposit?
Halfway(s) == stage[s] \in {"approve", "approved"}

\* Deposits one at a time: the approve under way is that of the one deposit() that
\* waits for it, and the deposit under way, or about to be sent, has its allowance.
OneDeposit ==
    /\ Len(pool) <= 1
    /\ \A s, t \in Slots : Halfway(s) /\ Halfway(t) => s = t
    /\ \A s \in Slots : stage[s] = "approve" => pool # << >> /\ pool[1].kind = "approve" /\ pool[1].from = s
    /\ \A s \in Slots : stage[s] = "approved" => pool = << >> /\ allowance >= TopUp
    /\ pool # << >> => \/ pool[1].kind = "approve" /\ stage[pool[1].from] = "approve"
                       \/ pool[1].kind = "deposit" /\ allowance >= TopUp

DepositsInv ==
    /\ wallet \in Nat /\ allowance \in Nat /\ crowded \in BOOLEAN /\ reverted \in BOOLEAN
    /\ stage \in [Slots -> Stages] /\ pool \in Seq(Tx)
    /\ crowded \/ OneDeposit
    /\ DepositsLand

\* A fetch() moves between stages that are no part of a deposit that is halfway.
LEMMA FetchElsewhere ==
  ASSUME DepositsInv, NEW s \in Slots, NEW here \in Stages, NEW there \in Stages, At(s, here, there),
         {here, there} \cap {"approve", "approved"} = {}, UNCHANGED chain
  PROVE  DepositsInv'
<1>1. stage' \in [Slots -> Stages] /\ stage[s] = here /\ stage'[s] = there /\ \A t \in Slots : t # s => stage'[t] = stage[t]
  BY DEF At, DepositsInv
<1>2. \A t \in Slots : /\ Halfway(t)' <=> Halfway(t)
                       /\ stage'[t] = "approve" <=> stage[t] = "approve"
                       /\ stage'[t] = "approved" <=> stage[t] = "approved"
  BY <1>1 DEF Halfway
<1>3. pool # << >> => pool[1].from \in Slots
  <2>1. pool # << >> => pool[1] \in Tx
    BY FirstAndRest DEF DepositsInv
  <2> QED BY <2>1 DEF Tx
<1>4. OneDeposit => OneDeposit'
  BY <1>2, <1>3 DEF OneDeposit, chain
<1> QED BY <1>1, <1>4 DEF DepositsInv, DepositsLand, chain

\* A transaction is submitted to an empty pool, or the deposits overlap.
LEMMA Submitted ==
  ASSUME DepositsInv, NEW kind \in {"approve", "deposit"}, NEW s \in Slots, Submit(kind, s)
  PROVE  /\ pool' \in Seq(Tx) /\ Len(pool') = Len(pool) + 1
         /\ Len(pool) = 0 => pool'[1] = [kind |-> kind, from |-> s] /\ pool' # << >>
<1>1. [kind |-> kind, from |-> s] \in Tx /\ pool \in Seq(Tx)
  BY DEF Tx, DepositsInv
<1> QED BY <1>1 DEF Submit

\* Every step of the client keeps the deposits in order.
LEMMA DepositsStep == DepositsInv /\ [ClientNext]_clientVars => DepositsInv'
<1> SUFFICES ASSUME DepositsInv, [ClientNext]_clientVars PROVE DepositsInv'
  OBVIOUS
<1>1. /\ wallet \in Nat /\ allowance \in Nat /\ crowded \in BOOLEAN /\ reverted \in BOOLEAN
      /\ stage \in [Slots -> Stages] /\ pool \in Seq(Tx) /\ (crowded \/ OneDeposit) /\ DepositsLand
      /\ TopUp \in Nat \ {0}
  BY SpaceRouterAssumption DEF DepositsInv
<1>2. CASE UNCHANGED <<stage, wallet, allowance, pool, reverted, crowded>>
  BY <1>2 DEF DepositsInv, DepositsLand, OneDeposit, Halfway
<1>3. CASE Mine
  <2> DEFINE tx == pool[1]
  <2>1. /\ pool # << >> /\ Len(pool) > 0 /\ tx \in Tx /\ Head(pool) = tx
        /\ pool' = Tail(pool) /\ pool' \in Seq(Tx) /\ Len(pool') = Len(pool) - 1
        /\ crowded' = crowded /\ tx.from \in Slots /\ tx.kind \in {"approve", "deposit"}
    <3>1. pool # << >> /\ pool' = Tail(pool) /\ crowded' = crowded
      BY <1>3 DEF Mine
    <3>2. tx \in Tx /\ Len(pool) > 0 /\ Head(pool) = tx /\ pool' \in Seq(Tx) /\ Len(pool') = Len(pool) - 1
      BY <1>1, <3>1, FirstAndRest
    <3> HIDE DEF tx
    <3> QED BY <3>1, <3>2 DEF Tx
  <2>2. Len(pool) <= 1 => pool' = << >> /\ Len(pool') <= 1
    BY <1>1, <2>1, FirstAndRest
  <2>3. CASE /\ tx.kind = "approve" /\ allowance' = TopUp
             /\ stage' = IF stage[tx.from] = "approve" THEN [stage EXCEPT ![tx.from] = "approved"] ELSE stage
             /\ UNCHANGED <<wallet, escrow, reverted>>
    <3>1. stage' \in [Slots -> Stages]
      BY <1>1, <2>1, <2>3 DEF Stages
    <3>2. /\ stage[tx.from] = "approve" => stage'[tx.from] = "approved"
          /\ \A t \in Slots : t # tx.from => stage'[t] = stage[t]
      BY <1>1, <2>1, <2>3
    <3>3. ASSUME OneDeposit PROVE OneDeposit'
      <4>1. stage[tx.from] = "approve" /\ \A t \in Slots : t # tx.from => ~Halfway(t)
        BY <2>1, <2>3, <3>3 DEF OneDeposit, Halfway
      <4>2. stage'[tx.from] = "approved" /\ \A t \in Slots : t # tx.from => ~Halfway(t)'
        BY <3>2, <4>1 DEF Halfway
      <4>3. Len(pool') <= 1 /\ pool' = << >> /\ allowance' >= TopUp
        BY <1>1, <2>2, <2>3, <3>3 DEF OneDeposit
      <4> HIDE DEF tx
      <4> QED BY <4>2, <4>3 DEF OneDeposit, Halfway
    <3> QED BY <1>1, <2>1, <2>3, <3>1, <3>3 DEF DepositsInv, DepositsLand
  <2>4. CASE /\ tx.kind = "deposit" /\ allowance >= TopUp /\ wallet >= TopUp
             /\ allowance' = allowance - TopUp /\ wallet' = wallet - TopUp /\ UNCHANGED <<reverted, stage>>
    <3>1. OneDeposit => \A t \in Slots : ~Halfway(t)
      BY <2>1, <2>4 DEF OneDeposit, Halfway
    <3>2. OneDeposit => OneDeposit'
      BY <2>2, <2>4, <3>1 DEF OneDeposit, Halfway
    <3>3. wallet' \in Nat /\ allowance' \in Nat /\ wallet' < wallet
      BY <1>1, <2>4
    <3> QED BY <1>1, <2>1, <2>4, <3>2, <3>3 DEF DepositsInv, DepositsLand
  <2>5. CASE /\ tx.kind = "deposit" /\ (allowance < TopUp \/ wallet < TopUp)
             /\ reverted' = TRUE /\ UNCHANGED <<wallet, allowance, escrow, stage>>
    <3>1. OneDeposit => wallet < TopUp /\ \A t \in Slots : ~Halfway(t)
      BY <1>1, <2>1, <2>5 DEF OneDeposit, Halfway
    <3>2. OneDeposit => OneDeposit'
      BY <2>2, <2>5, <3>1 DEF OneDeposit, Halfway
    <3> QED BY <1>1, <2>1, <2>5, <3>1, <3>2 DEF DepositsInv, DepositsLand
  <2> QED BY <1>3, <2>1, <2>3, <2>4, <2>5 DEF Mine
<1>4. ASSUME NEW s \in Slots, StartFetch(s) \/ EnsureBalance(s) \/ LoadSdk(s) \/ ProxyFails(s) PROVE DepositsInv'
  BY <1>4, FetchElsewhere DEF StartFetch, EnsureBalance, LoadSdk, ProxyFails, Stages
<1>5. ASSUME NEW s \in Slots, (\E r \in 0..MaxFetches : Respond(s, r)) \/ EnsureScheduler(s) PROVE DepositsInv'
  BY <1>5, FetchElsewhere DEF Respond, EnsureScheduler, Stages
<1>6. ASSUME NEW s \in Slots, ReadAllowance(s) PROVE DepositsInv'
  <2>1. /\ stage[s] = "allowance" /\ UNCHANGED <<wallet, allowance, reverted>>
        /\ crowded' = (crowded \/ pool # << >> \/ \E t \in Slots \ {s} : Depositing(t))
        /\ \/ allowance < TopUp /\ stage' = [stage EXCEPT ![s] = "approve"] /\ Submit("approve", s)
           \/ allowance >= TopUp /\ stage' = [stage EXCEPT ![s] = "loading"] /\ Submit("deposit", s)
    BY <1>6 DEF ReadAllowance, At
  <2>2. stage' \in [Slots -> Stages] /\ pool' \in Seq(Tx) /\ \A t \in Slots : t # s => stage'[t] = stage[t]
    BY <1>1, <2>1, Submitted DEF Stages
  <2>3. crowded' \in BOOLEAN /\ DepositsLand'
    BY <1>1, <2>1 DEF DepositsLand
  <2>4. ASSUME ~crowded' PROVE OneDeposit'
    <3>1. pool = << >> /\ Len(pool) = 0 /\ \A t \in Slots : t # s => ~Halfway(t)
      BY <2>1, <2>4 DEF Depositing, Halfway
    <3>2. \A t \in Slots : t # s => ~Halfway(t)'
      BY <2>2, <3>1 DEF Halfway
    <3>3. CASE allowance < TopUp /\ stage' = [stage EXCEPT ![s] = "approve"] /\ Submit("approve", s)
      <4>1. stage'[s] = "approve" /\ pool' # << >> /\ Len(pool') = 1 /\ pool'[1] = [kind |-> "approve", from |-> s]
        BY <1>1, <3>1, <3>3, Submitted
      <4> QED BY <3>2, <4>1 DEF OneDeposit, Halfway
    <3>4. CASE allowance >= TopUp /\ stage' = [stage EXCEPT ![s] = "loading"] /\ Submit("deposit", s)
      <4>1. stage'[s] = "loading" /\ pool' # << >> /\ Len(pool') = 1 /\ pool'[1] = [kind |-> "deposit", from |-> s]
        BY <1>1, <3>1, <3>4, Submitted
      <4> QED BY <2>1, <3>2, <3>4, <4>1 DEF OneDeposit, Halfway
    <3> QED BY <2>1, <3>3, <3>4
  <2> QED BY <1>1, <2>1, <2>2, <2>3, <2>4 DEF DepositsInv
<1>7. ASSUME NEW s \in Slots, SubmitDeposit(s) PROVE DepositsInv'
  <2>1. /\ stage[s] = "approved" /\ UNCHANGED <<wallet, allowance, reverted, crowded>>
        /\ stage' = [stage EXCEPT ![s] = "loading"] /\ Submit("deposit", s)
    BY <1>7 DEF SubmitDeposit, At
  <2>2. /\ stage' \in [Slots -> Stages] /\ pool' \in Seq(Tx)
        /\ stage'[s] = "loading" /\ \A t \in Slots : t # s => stage'[t] = stage[t]
    BY <1>1, <2>1, Submitted DEF Stages
  <2>3. ASSUME OneDeposit PROVE OneDeposit'
    <3>1. pool = << >> /\ Len(pool) = 0 /\ allowance >= TopUp /\ \A t \in Slots : t # s => ~Halfway(t)
      BY <2>1, <2>3 DEF OneDeposit, Halfway
    <3>2. \A t \in Slots : ~Halfway(t)'
      BY <2>2, <3>1 DEF Halfway
    <3>3. pool' # << >> /\ Len(pool') = 1 /\ pool'[1] = [kind |-> "deposit", from |-> s]
      BY <2>1, <3>1, Submitted
    <3> QED BY <2>1, <3>1, <3>2, <3>3 DEF OneDeposit, Halfway
  <2> QED BY <1>1, <2>1, <2>2, <2>3 DEF DepositsInv, DepositsLand
<1>8. CASE Claim \/ CloseClient \/ \E k \in Schedulers : FlushBuffer(k)
  BY <1>2, <1>8 DEF Claim, CloseClient, FlushBuffer, chain
<1> QED BY <1>2, <1>3, <1>4, <1>5, <1>6, <1>7, <1>8 DEF ClientNext, clientVars, chain

-------------------------------------------------------------------------------
(* Withdrawals.                                                            *)

\* What the contract and a transaction hold.
Requests == [amount : Nat, unlockAt : Nat]
Withdrawals == [kind : {"initiate", "execute", "cancel"}, sum : Nat, shaky : BOOLEAN]

\* What a transaction was checked for still stands.
Stands(tx, pending, now) ==
    \/ tx.kind = "initiate" /\ pending = NoRequest
    \/ tx.kind = "execute" /\ pending # NoRequest /\ now >= pending.unlockAt

\* A pending request is for something, and a transaction that is not shaky is
\* alone, or the first, in the pool and stands on what was checked.
WithdrawalsInv ==
    /\ owed \in Nat /\ day \in Nat /\ request \in Requests
    /\ request # NoRequest => request.amount > 0
    /\ calls \in [Withdrawers -> [at : {"idle", "initiate", "execute"}, sum : Nat, seen : Requests]]
    /\ \A w \in Withdrawers : calls[w].at # "idle" => calls[w].sum > 0
    /\ mempool \in Seq(Withdrawals)
    /\ \A i \in 1..Len(mempool) : mempool[i].kind = "initiate" => mempool[i].sum > 0
    /\ \A i \in 1..Len(mempool) : mempool[i].shaky \/ (i = 1 /\ Stands(mempool[1], request, day))
    /\ WithdrawalsLand

\* A transaction goes out on what was seen.
LEMMA Sent ==
  ASSUME WithdrawalsInv, NEW tx \in Withdrawals, mempool' = Append(mempool, tx), tx.kind = "initiate" => tx.sum > 0,
         tx.shaky \/ (mempool = << >> /\ Stands(tx, request, day)), UNCHANGED <<owed, day, request, denied>>,
         calls' \in [Withdrawers -> [at : {"idle", "initiate", "execute"}, sum : Nat, seen : Requests]],
         \A w \in Withdrawers : calls'[w].at # "idle" => calls'[w].sum > 0
  PROVE  WithdrawalsInv'
<1> DEFINE n == Len(mempool) + 1
<1>1. mempool \in Seq(Withdrawals)
  BY DEF WithdrawalsInv
<1>2. /\ mempool' \in Seq(Withdrawals) /\ Len(mempool') = n /\ mempool'[n] = tx
      /\ \A i \in 1..Len(mempool) : mempool'[i] = mempool[i]
      /\ 1..n = 1..Len(mempool) \cup {n}
  BY <1>1
<1>3. mempool = << >> => n = 1
  BY <1>1
<1>4. Len(mempool) = 0 \/ 1 \in 1..Len(mempool)
  BY <1>1
<1>5. \A i \in 1..Len(mempool) : mempool'[i].shaky \/ (i = 1 /\ Stands(mempool'[1], request', day'))
  BY <1>2, <1>4 DEF WithdrawalsInv, Stands
<1>6. mempool'[n].shaky \/ (n = 1 /\ Stands(mempool'[1], request', day'))
  BY <1>2, <1>3 DEF Stands
<1>7. \A i \in 1..Len(mempool') : mempool'[i].kind = "initiate" => mempool'[i].sum > 0
  BY <1>2 DEF WithdrawalsInv
<1> QED BY <1>2, <1>5, <1>6, <1>7 DEF WithdrawalsInv, WithdrawalsLand

\* Nothing is sent.
LEMMA NotSent ==
  ASSUME WithdrawalsInv, owed' \in Nat, day' \in Nat, day' >= day, UNCHANGED <<request, mempool, denied>>,
         calls' \in [Withdrawers -> [at : {"idle", "initiate", "execute"}, sum : Nat, seen : Requests]],
         \A w \in Withdrawers : calls'[w].at # "idle" => calls'[w].sum > 0
  PROVE  WithdrawalsInv'
<1>1. request \in Requests /\ day \in Nat
  BY DEF WithdrawalsInv
<1>2. \A tx \in Withdrawals : Stands(tx, request, day) => Stands(tx, request', day')
  BY <1>1 DEF Stands, Requests
<1>3. mempool # << >> => mempool[1] \in Withdrawals
  BY FirstAndRest DEF WithdrawalsInv
<1>4. \A i \in 1..Len(mempool') : mempool'[i].shaky \/ (i = 1 /\ Stands(mempool'[1], request', day'))
  BY <1>2, <1>3 DEF WithdrawalsInv
<1> QED BY <1>4 DEF WithdrawalsInv, WithdrawalsLand

\* Every step of the callers and the chain keeps the withdrawals sound.
LEMMA WithdrawalsStep == WithdrawalsInv /\ [WithdrawNext]_withdrawVars => WithdrawalsInv'
<1> SUFFICES ASSUME WithdrawalsInv, [WithdrawNext]_withdrawVars PROVE WithdrawalsInv'
  OBVIOUS
<1> DEFINE Call == [at : {"idle", "initiate", "execute"}, sum : Nat, seen : Requests]
<1>1. /\ owed \in Nat /\ day \in Nat /\ request \in Requests /\ mempool \in Seq(Withdrawals)
      /\ request # NoRequest => request.amount > 0
      /\ calls \in [Withdrawers -> Call]
      /\ \A w \in Withdrawers : calls[w].at # "idle" => calls[w].sum > 0
      /\ \A i \in 1..Len(mempool) : mempool[i].kind = "initiate" => mempool[i].sum > 0
      /\ \A i \in 1..Len(mempool) : mempool[i].shaky \/ (i = 1 /\ Stands(mempool[1], request, day))
      /\ WithdrawalsLand
  BY DEF WithdrawalsInv
<1>2. Sums \subseteq Nat \ {0} /\ Lock \in Nat
  BY SpaceRouterAssumption
<1>3. NoRequest \in Requests /\ NoCall \in Call /\ NoCall.at = "idle" /\ NoRequest.amount = 0
  BY DEF NoRequest, NoCall, Requests
<1>4. CASE UNCHANGED withdrawVars
  BY <1>1, <1>4, NotSent DEF withdrawVars
<1>5. ASSUME NEW w \in Withdrawers, BeginWithdrawal(w) PROVE WithdrawalsInv'
  <2>1. PICK kind \in {"initiate", "execute"}, sum \in Sums :
          calls' = [calls EXCEPT ![w] = [at |-> kind, sum |-> sum, seen |-> request]]
    BY <1>5 DEF BeginWithdrawal
  <2> DEFINE c == [at |-> kind, sum |-> sum, seen |-> request]
  <2>2. c \in Call /\ c.sum > 0
    BY <1>1, <1>2
  <2> HIDE DEF c
  <2>3. calls' \in [Withdrawers -> Call] /\ \A v \in Withdrawers : calls'[v].at # "idle" => calls'[v].sum > 0
    BY <1>1, <2>1, <2>2 DEF c
  <2> QED BY <1>1, <1>5, <2>3, NotSent DEF BeginWithdrawal
<1>6. ASSUME NEW w \in Withdrawers, Initiate(w) \/ Execute(w) PROVE WithdrawalsInv'
  <2>1. calls' \in [Withdrawers -> Call] /\ \A v \in Withdrawers : calls'[v].at # "idle" => calls'[v].sum > 0
    <3>1. calls' = [calls EXCEPT ![w] = NoCall]
      BY <1>6 DEF Initiate, Execute
    <3> QED BY <1>1, <1>3, <3>1
  <2>2. UNCHANGED <<owed, day, request, denied>>
    BY <1>6 DEF Initiate, Execute
  <2> DEFINE seen == calls[w].seen
  <2>3. seen \in Requests /\ calls[w] \in Call
    BY <1>1
  <2>4. CASE UNCHANGED mempool
    BY <1>1, <2>1, <2>2, <2>4, NotSent
  <2>5. CASE Initiate(w) /\ Send("initiate", calls[w].sum, seen) /\ calls[w].at = "initiate" /\ ~ (seen.amount > 0)
    <3>1. PICK b \in BOOLEAN : b = (seen # request \/ mempool # << >> \/ ("initiate" = "execute" /\ day < seen.unlockAt))
      OBVIOUS
    <3> DEFINE tx == [kind |-> "initiate", sum |-> calls[w].sum, shaky |-> b]
    <3>2. mempool' = Append(mempool, tx)
      BY <2>5, <3>1 DEF Send
    <3>3. tx \in Withdrawals /\ tx.sum > 0 /\ tx.kind = "initiate"
      BY <1>1, <2>3, <2>5 DEF Withdrawals
    <3>4. seen = request => request = NoRequest
      BY <1>1, <2>3, <2>5 DEF Requests
    <3>5. tx.shaky \/ (mempool = << >> /\ Stands(tx, request, day))
      BY <3>1, <3>4 DEF Stands
    <3> HIDE DEF tx
    <3> QED BY <2>1, <2>2, <3>2, <3>3, <3>5, Sent
  <2>6. CASE Execute(w) /\ Send("execute", 0, seen) /\ seen.amount > 0
    <3>1. PICK b \in BOOLEAN : b = (seen # request \/ mempool # << >> \/ ("execute" = "execute" /\ day < seen.unlockAt))
      OBVIOUS
    <3> DEFINE tx == [kind |-> "execute", sum |-> 0, shaky |-> b]
    <3>2. mempool' = Append(mempool, tx)
      BY <2>6, <3>1 DEF Send
    <3>3. tx \in Withdrawals /\ tx.kind = "execute"
      BY DEF Withdrawals
    <3>4. seen = request => request # NoRequest
      BY <1>3, <2>6
    <3>5. seen = request /\ ~ (day < seen.unlockAt) => day >= request.unlockAt
      BY <1>1 DEF Requests
    <3>6. tx.shaky \/ (mempool = << >> /\ Stands(tx, request, day))
      BY <3>1, <3>4, <3>5 DEF Stands
    <3> HIDE DEF tx
    <3> QED BY <2>1, <2>2, <3>2, <3>3, <3>6, Sent
  <2> QED BY <1>6, <2>4, <2>5, <2>6 DEF Initiate, Execute
<1>7. CASE Cancel
  <2> DEFINE tx == [kind |-> "cancel", sum |-> 0, shaky |-> TRUE]
  <2>1. tx \in Withdrawals /\ tx.shaky /\ tx.kind # "initiate"
    BY DEF Withdrawals
  <2>2. mempool' = Append(mempool, tx) /\ UNCHANGED <<owed, day, request, denied, calls>>
    BY <1>7 DEF Cancel
  <2> HIDE DEF tx
  <2> QED BY <1>1, <2>1, <2>2, Sent
<1>8. CASE EscrowAges
  <2>1. owed' \in Nat /\ day' \in Nat /\ day' >= day /\ UNCHANGED <<request, mempool, denied, calls>>
    BY <1>1, <1>8 DEF EscrowAges
  <2> QED BY <1>1, <2>1, NotSent
<1>9. CASE MineWithdrawal
  <2> DEFINE tx == mempool[1]
  <2>1. /\ mempool # << >> /\ mempool' = Tail(mempool) /\ Head(mempool) = tx /\ tx \in Withdrawals
        /\ mempool' \in Seq(Withdrawals) /\ 1 \in 1..Len(mempool)
        /\ \A i \in 1..Len(mempool') : i + 1 \in 1..Len(mempool) /\ mempool'[i] = mempool[i + 1] /\ i + 1 # 1
    <3>1. mempool # << >> /\ mempool' = Tail(mempool)
      BY <1>9 DEF MineWithdrawal
    <3> QED BY <1>1, <3>1, FirstAndRest
  <2>2. /\ tx.shaky \/ Stands(tx, request, day)
        /\ tx.kind = "initiate" => tx.sum > 0
        /\ \A i \in 1..Len(mempool') : mempool'[i].shaky /\ (mempool'[i].kind = "initiate" => mempool'[i].sum > 0)
    BY <1>1, <2>1
  <2>3. UNCHANGED <<day, calls>>
    BY <1>9 DEF MineWithdrawal
  <2>4. ASSUME owed' \in Nat, request' \in Requests, request' # NoRequest => request'.amount > 0, WithdrawalsLand'
        PROVE WithdrawalsInv'
    BY <1>1, <2>1, <2>2, <2>3, <2>4 DEF WithdrawalsInv
  <2>5. CASE /\ tx.kind = "initiate" /\ request' = [amount |-> tx.sum, unlockAt |-> day + Lock]
             /\ UNCHANGED <<owed, paidOut, denied>>
    <3>1. request' \in Requests /\ request'.amount > 0
      BY <1>1, <1>2, <2>1, <2>2, <2>5 DEF Requests, Withdrawals
    <3> QED BY <1>1, <2>4, <2>5, <3>1 DEF WithdrawalsLand
  <2>6. CASE /\ owed' = owed - request.amount /\ request.amount <= owed /\ request' = NoRequest /\ UNCHANGED denied
    <3>1. owed' \in Nat
      BY <1>1, <2>6 DEF Requests
    <3> QED BY <1>1, <1>3, <2>4, <2>6, <3>1 DEF WithdrawalsLand
  <2>7. CASE request' = NoRequest /\ UNCHANGED <<owed, denied>>
    BY <1>1, <1>3, <2>4, <2>7 DEF WithdrawalsLand
  <2>8. ASSUME NEW sum, sum = IF tx.kind = "initiate" THEN tx.sum ELSE request.amount,
               CASE tx.kind = "initiate" -> request # NoRequest \/ sum > owed
                 [] tx.kind = "execute" -> request = NoRequest \/ day < request.unlockAt \/ sum > owed
                 [] tx.kind = "cancel" -> request = NoRequest,
               denied' = [kind |-> tx.kind, excused |-> tx.shaky \/ sum > owed],
               UNCHANGED <<owed, request, paidOut>>
        PROVE WithdrawalsInv'
    <3>1. request \in Requests /\ day \in Nat
      BY <1>1
    <3>2. Stands(tx, request, day) => sum > owed
      <4> HIDE DEF tx
      <4>1. tx.kind = "initiate" /\ request = NoRequest => sum > owed
        BY <2>8
      <4>2. request # NoRequest /\ day >= request.unlockAt => ~ (day < request.unlockAt)
        BY <3>1 DEF Requests
      <4>3. tx.kind = "execute" /\ request # NoRequest /\ day >= request.unlockAt => sum > owed
        BY <2>8, <4>2
      <4> QED BY <4>1, <4>3 DEF Stands
    <3>3. denied'.excused = (tx.shaky \/ sum > owed)
      BY <2>8
    <3>4. denied'.excused
      BY <2>2, <3>2, <3>3
    <3> QED BY <1>1, <2>4, <2>8, <3>4 DEF WithdrawalsLand
  <2>9. \/ /\ tx.kind = "initiate" /\ request' = [amount |-> tx.sum, unlockAt |-> day + Lock]
           /\ UNCHANGED <<owed, paidOut, denied>>
        \/ owed' = owed - request.amount /\ request.amount <= owed /\ request' = NoRequest /\ UNCHANGED denied
        \/ request' = NoRequest /\ UNCHANGED <<owed, denied>>
        \/ LET sum == IF tx.kind = "initiate" THEN tx.sum ELSE request.amount IN
           /\ CASE tx.kind = "initiate" -> request # NoRequest \/ sum > owed
                [] tx.kind = "execute" -> request = NoRequest \/ day < request.unlockAt \/ sum > owed
                [] tx.kind = "cancel" -> request = NoRequest
           /\ denied' = [kind |-> tx.kind, excused |-> tx.shaky \/ sum > owed]
           /\ UNCHANGED <<owed, request, paidOut>>
    <3> HIDE DEF tx
    <3> QED BY <1>9, <2>1 DEF MineWithdrawal
  <2> HIDE DEF tx
  <2> QED BY <2>5, <2>6, <2>7, <2>8, <2>9
<1> QED BY <1>4, <1>5, <1>6, <1>7, <1>8, <1>9 DEF WithdrawNext

\* What the escrow is asked for it can do, for any wallet, top-up and lock: a
\* deposit the wallet covers does not revert unless it was begun before an earlier
\* one was mined, and a withdrawal the checks let through is only refused when
\* another came between or the providers claimed (spacerouter/escrow.ts:190-265).
THEOREM EscrowAlwaysHolds == ClientSpec /\ WithdrawSpec => []EscrowHolds
<1>1. ClientInit => DepositsInv
  <2> SUFFICES ASSUME ClientInit PROVE DepositsInv
    OBVIOUS
  <2>1. wallet \in Nat /\ pool \in Seq(Tx) /\ pool = << >> /\ Len(pool) = 0
    BY SpaceRouterAssumption DEF ClientInit
  <2>2. OneDeposit
    BY <2>1 DEF ClientInit, OneDeposit, Halfway
  <2> QED BY <2>1, <2>2 DEF ClientInit, DepositsInv, DepositsLand, Stages
<1>2. WithdrawInit => WithdrawalsInv
  <2> SUFFICES ASSUME WithdrawInit PROVE WithdrawalsInv
    OBVIOUS
  <2>1. mempool \in Seq(Withdrawals) /\ Len(mempool) = 0
    BY DEF WithdrawInit
  <2>2. TopUp \in Nat
    BY SpaceRouterAssumption
  <2>3. WithdrawalsLand
    BY DEF WithdrawInit, WithdrawalsLand, NoDenial
  <2>4. /\ request \in Requests /\ request = NoRequest
        /\ calls \in [Withdrawers -> [at : {"idle", "initiate", "execute"}, sum : Nat, seen : Requests]]
        /\ \A w \in Withdrawers : calls[w].at = "idle"
    BY DEF WithdrawInit, Requests, NoRequest, NoCall
  <2> QED BY <2>1, <2>2, <2>3, <2>4 DEF WithdrawInit, WithdrawalsInv
<1>3. ClientSpec => []DepositsInv
  BY <1>1, DepositsStep, PTL DEF ClientSpec
<1>4. WithdrawSpec => []WithdrawalsInv
  BY <1>2, WithdrawalsStep, PTL DEF WithdrawSpec
<1>5. DepositsInv /\ WithdrawalsInv => EscrowHolds
  BY DEF DepositsInv, WithdrawalsInv, EscrowHolds
<1> QED BY <1>3, <1>4, <1>5, PTL
===============================================================================
