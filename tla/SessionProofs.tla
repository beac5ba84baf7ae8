---------------------------- MODULE SessionProofs ----------------------------
(***************************************************************************)
(* Proofs about sessions.  StellarSession: what the channel pays is covered*)
(* by one signature for any number of overlapping calls; nothing is served *)
(* twice until two verifications have overlapped, and vouchers form a chain*)
(* until two signatures have.  TrustlessEscrow: for any number of          *)
(* overlapping operations and milestones the job never runs ahead of the   *)
(* contract.  Of the agents: every verdict a job shows is the contract's,  *)
(* and the budgets of tool calls, vouchers, streams, mandates, delegations *)
(* and the allocation vault add up, for any number of calls, jobs, holders *)
(* and contexts.  AnchorOfframp: a handle stands for a transaction of an   *)
(* anchor that serves the corridor, however many calls share descriptors.  *)
(* LendingResearch: Kahn's algorithm lets exactly the graphs without a      *)
(* cycle or a repeated id pass, and a report says what was read.  Whatever  *)
(* of them runs, all their variables keep their types.                      *)
(***************************************************************************)
EXTENDS MCSessions, DataLemmas

\* The types the arguments below need.
SessionTyped ==
    /\ cumulative \in Nat
    /\ signing \in [ClientSlots -> Amounts \cup {0}]
    /\ vouchers \subseteq [total : Nat, amount : Amounts]
    /\ highest \in Nat /\ signature \in Nat /\ served \in Nat
    /\ verifying \in [ServerSlots -> vouchers \cup {NoVoucher}]
    /\ mixed \in BOOLEAN /\ crossed \in BOOLEAN

\* highestCumulative and highestSignature always come from one voucher.
Covered ==
    /\ signature = highest
    /\ BackedByVoucher
    /\ ClosePaysSigned

CoveredInv == SessionTyped /\ Covered

-------------------------------------------------------------------------------
(* Any number of overlapping calls.                                        *)

\* CoveredInv holds initially.
LEMMA CoveredInit == Init => CoveredInv
<1> SUFFICES ASSUME Init PROVE CoveredInv
  OBVIOUS
<1>1. SessionTyped
  BY DEF Init, SessionTyped
<1>2. Covered
  BY DEF Init, Covered, BackedByVoucher, ClosePaysSigned
<1> QED
  BY <1>1, <1>2 DEF CoveredInv

\* Every step keeps SessionTyped.
LEMMA TypedStep == SessionTyped /\ [Next]_vars => SessionTyped'
<1> SUFFICES ASSUME SessionTyped, [Next]_vars PROVE SessionTyped'
  OBVIOUS
<1> USE SessionAssumption DEF SessionTyped, NoVoucher
<1>1. ASSUME NEW s \in ClientSlots, NEW amount \in Amounts, StartSign(s, amount)
      PROVE  SessionTyped'
  BY <1>1 DEF StartSign, server
<1>2. ASSUME NEW s \in ClientSlots, FinishSign(s) PROVE SessionTyped'
  <2>1. signing[s] \in Amounts
    BY <1>2 DEF FinishSign
  <2>2. [total |-> cumulative, amount |-> signing[s]] \in [total : Nat, amount : Amounts]
    BY <2>1
  <2> QED
    BY <1>2, <2>2 DEF FinishSign, server
<1>3. CASE Reset
  BY <1>3 DEF Reset, server
<1>4. ASSUME NEW s \in ServerSlots, NEW v \in vouchers, StartVerify(s, v) PROVE SessionTyped'
  BY <1>4 DEF StartVerify, client
<1>5. ASSUME NEW s \in ServerSlots, FinishVerify(s) PROVE SessionTyped'
  <2>1. verifying[s] \in [total : Nat, amount : Amounts]
    BY <1>5 DEF FinishVerify
  <2>2. verifying[s].total \in Nat /\ verifying[s].amount \in Nat
    BY <2>1
  <2>3. highest' \in Nat /\ signature' \in Nat /\ served' \in Nat
    BY <1>5, <2>2 DEF FinishVerify
  <2>4. verifying' \in [ServerSlots -> vouchers \cup {NoVoucher}]
    BY <1>5 DEF FinishVerify
  <2>5. UNCHANGED client
    BY <1>5 DEF FinishVerify
  <2>6. UNCHANGED crossed
    BY <1>5 DEF FinishVerify
  <2> QED
    BY <2>3, <2>4, <2>5, <2>6 DEF client
<1>6. CASE StartClose \/ BuildClose \/ SendClose \/ CloseFails
  BY <1>6 DEF StartClose, BuildClose, SendClose, CloseFails, client
<1>7. CASE UNCHANGED vars
  BY <1>7 DEF vars, client, server
<1> QED
  BY <1>1, <1>2, <1>3, <1>4, <1>5, <1>6, <1>7 DEF Next

\* Every step keeps Covered: total and signature are only ever stored
\* together, from one voucher, and read together by closeChannel().
LEMMA CoveredStep == CoveredInv /\ [Next]_vars => CoveredInv'
<1> SUFFICES ASSUME CoveredInv, [Next]_vars PROVE Covered'
  BY TypedStep DEF CoveredInv
<1> USE SessionAssumption DEF CoveredInv, SessionTyped, Covered, BackedByVoucher, ClosePaysSigned
<1>1. ASSUME NEW s \in ClientSlots, NEW amount \in Amounts, StartSign(s, amount)
      PROVE  Covered'
  BY <1>1 DEF StartSign, server
<1>2. ASSUME NEW s \in ClientSlots, FinishSign(s) PROVE Covered'
  BY <1>2 DEF FinishSign, server
<1>3. CASE Reset
  BY <1>3 DEF Reset, server
<1>4. ASSUME NEW s \in ServerSlots, NEW v \in vouchers, StartVerify(s, v) PROVE Covered'
  BY <1>4 DEF StartVerify, client
<1>5. ASSUME NEW s \in ServerSlots, FinishVerify(s) PROVE Covered'
  BY <1>5 DEF FinishVerify, client
<1>6. CASE StartClose
  BY <1>6 DEF StartClose, client
<1>7. CASE BuildClose
  BY <1>7 DEF BuildClose, client
<1>8. CASE SendClose
  BY <1>8 DEF SendClose, client
<1>9. CASE CloseFails
  BY <1>9 DEF CloseFails, client
<1>10. CASE UNCHANGED vars
  BY <1>10 DEF vars, client, server
<1> QED
  BY <1>1, <1>2, <1>3, <1>4, <1>5, <1>6, <1>7, <1>8, <1>9, <1>10 DEF Next

\* However signatures, verifications and a close overlap, the close
\* transaction pays exactly the total its signature covers.
THEOREM CloseAlwaysPaysSigned == Spec => []ClosePaysSigned
<1>1. CoveredInv => ClosePaysSigned
  BY DEF CoveredInv, Covered
<1> QED
  BY CoveredInit, CoveredStep, <1>1, PTL DEF Spec

\* However calls overlap, the server counts only on totals that some voucher
\* of the client signs.
THEOREM AlwaysBackedByVoucher == Spec => []BackedByVoucher
<1>1. CoveredInv => BackedByVoucher
  BY DEF CoveredInv, Covered
<1> QED
  BY CoveredInit, CoveredStep, <1>1, PTL DEF Spec

-------------------------------------------------------------------------------
(* Nothing is served twice.                                                *)

\* Until two verifications have overlapped at most one is under way, and
\* its voucher still stands its amount above the highest total, as it did
\* when its checks were made.
StillNext ==
    crossed \/
        /\ \A s, r \in ServerSlots :
               verifying[s] # NoVoucher /\ verifying[r] # NoVoucher => s = r
        /\ \A s \in ServerSlots : verifying[s] # NoVoucher =>
               verifying[s].total = highest + verifying[s].amount

ServingInv == SessionTyped /\ StillNext /\ ServedOnce

\* Every step keeps StillNext and ServedOnce: unless verifications cross,
\* nobody else raises the highest total in between.
LEMMA ServingStep ==
    ASSUME ServingInv, [Next]_vars
    PROVE  StillNext' /\ ServedOnce'
<1> USE SessionAssumption DEF ServingInv, SessionTyped, StillNext, ServedOnce
<1>1. ASSUME NEW s \in ClientSlots, NEW amount \in Amounts, StartSign(s, amount)
      PROVE  StillNext' /\ ServedOnce'
  BY <1>1 DEF StartSign, server
<1>2. ASSUME NEW s \in ClientSlots, FinishSign(s) PROVE StillNext' /\ ServedOnce'
  BY <1>2 DEF FinishSign, server
<1>3. CASE Reset
  BY <1>3 DEF Reset, server
<1>4. ASSUME NEW s \in ServerSlots, NEW v \in vouchers, StartVerify(s, v)
      PROVE  StillNext' /\ ServedOnce'
  <2>1. v \in [total : Nat, amount : Amounts] /\ v.total = highest + v.amount
    BY <1>4 DEF StartVerify
  <2> QED
    BY <1>4, <2>1 DEF StartVerify, client
<1>5. ASSUME NEW s \in ServerSlots, FinishVerify(s) PROVE StillNext' /\ ServedOnce'
  <2>1. verifying[s] \in [total : Nat, amount : Amounts]
    BY <1>5 DEF FinishVerify
  <2>2. crossed' \/ \A r \in ServerSlots : verifying'[r] = NoVoucher
    BY <1>5 DEF FinishVerify
  <2>3. ServedOnce'
    BY <1>5, <2>1 DEF FinishVerify
  <2> QED
    BY <2>2, <2>3
<1>6. CASE StartClose \/ BuildClose \/ SendClose \/ CloseFails
  BY <1>6 DEF StartClose, BuildClose, SendClose, CloseFails, client
<1>7. CASE UNCHANGED vars
  BY <1>7 DEF vars, client, server
<1> QED
  BY <1>1, <1>2, <1>3, <1>4, <1>5, <1>6, <1>7 DEF Next

\* Until two verifications overlap, what has been served is exactly what the
\* channel will pay, whatever the network repeats, reorders or loses.
THEOREM AlwaysServedOnce == Spec => []ServedOnce
<1>1. Init => ServingInv
  BY CoveredInit DEF Init, CoveredInv, ServingInv, StillNext, ServedOnce
<1>2. ServingInv /\ [Next]_vars => ServingInv'
  BY TypedStep, ServingStep DEF ServingInv
<1>3. ServingInv => ServedOnce
  BY DEF ServingInv
<1> QED
  BY <1>1, <1>2, <1>3, PTL DEF Spec

-------------------------------------------------------------------------------
(* Vouchers form a chain.                                                  *)

\* A total that a voucher, or the start of the session, stands for.
Reached(total) == total = 0 \/ \E v \in vouchers : v.total = total

\* Until two signatures have overlapped at most one is under way, and the
\* total of the last voucher is where it, or the next one, starts from.
FromReached ==
    mixed \/
        /\ \A s, r \in ClientSlots : signing[s] # 0 /\ signing[r] # 0 => s = r
        /\ \A s \in ClientSlots : signing[s] # 0 =>
               signing[s] <= cumulative /\ Reached(cumulative - signing[s])
        /\ (\A s \in ClientSlots : signing[s] = 0) => Reached(cumulative)

SigningInv == SessionTyped /\ FromReached /\ VouchersAddUp

\* Every step keeps FromReached and VouchersAddUp: unless signatures mix,
\* nobody else raises the total between its addition and its signature.
LEMMA SigningStep ==
    ASSUME SigningInv, [Next]_vars
    PROVE  FromReached' /\ VouchersAddUp'
<1> USE SessionAssumption DEF SigningInv, SessionTyped, FromReached, Reached
<1>1. ASSUME NEW s \in ClientSlots, NEW amount \in Amounts, StartSign(s, amount)
      PROVE  FromReached' /\ VouchersAddUp'
  <2>1. CASE mixed'
    BY <1>1, <2>1 DEF StartSign, VouchersAddUp
  <2>2. CASE ~mixed'
    <3>1. ~mixed /\ \A r \in ClientSlots : signing[r] = 0
      BY <1>1, <2>2 DEF StartSign
    <3>2. Reached(cumulative)
      BY <3>1
    <3>3. amount \in Nat /\ amount # 0
      OBVIOUS
    <3>4. signing' = [signing EXCEPT ![s] = amount] /\ cumulative' = cumulative + amount /\ vouchers' = vouchers
      BY <1>1 DEF StartSign
    <3>5. \A r \in ClientSlots : signing'[r] # 0 => r = s
      BY <3>1, <3>4
    <3>6. cumulative' - signing'[s] = cumulative /\ signing'[s] <= cumulative'
      BY <3>3, <3>4
    <3>7. signing'[s] # 0
      BY <3>3, <3>4
    <3>8. FromReached'
      BY <3>2, <3>4, <3>5, <3>6, <3>7
    <3> QED
      BY <3>1, <3>4, <3>8 DEF VouchersAddUp
  <2> QED
    BY <2>1, <2>2
<1>2. ASSUME NEW s \in ClientSlots, FinishSign(s) PROVE FromReached' /\ VouchersAddUp'
  <2> DEFINE u == [total |-> cumulative, amount |-> signing[s]]
  <2>1. /\ vouchers' = vouchers \cup {u} /\ cumulative' = cumulative /\ mixed' = mixed
        /\ signing' = [signing EXCEPT ![s] = 0]
    BY <1>2 DEF FinishSign
  <2>2. CASE mixed
    BY <2>1, <2>2 DEF VouchersAddUp
  <2>3. CASE ~mixed
    <3>1. signing[s] \in Nat /\ signing[s] # 0 /\ signing[s] <= cumulative
      BY <1>2, <2>3 DEF FinishSign
    <3>2. cumulative - signing[s] = 0 \/ \E w \in vouchers : w.total = cumulative - signing[s]
      BY <1>2, <2>3 DEF FinishSign
    <3>3. u.total = u.amount \/ \E w \in vouchers : w.total = u.total - u.amount
      BY <3>1, <3>2
    <3>4. VouchersAddUp'
      BY <2>1, <2>3, <3>3 DEF VouchersAddUp
    <3>5. \A r \in ClientSlots : signing'[r] = 0
      BY <1>2, <2>1, <2>3 DEF FinishSign
    <3>6. u \in vouchers' /\ u.total = cumulative'
      BY <2>1
    <3> HIDE DEF u
    <3>7. \E v \in vouchers' : v.total = cumulative'
      BY <3>6
    <3>8. FromReached'
      BY <3>5, <3>7
    <3> QED
      BY <3>4, <3>8
  <2> QED
    BY <2>2, <2>3
<1>3. CASE Reset
  BY <1>3 DEF Reset, VouchersAddUp
<1>4. ASSUME NEW s \in ServerSlots, NEW v \in vouchers, StartVerify(s, v)
      PROVE  FromReached' /\ VouchersAddUp'
  BY <1>4 DEF StartVerify, client, VouchersAddUp
<1>5. ASSUME NEW s \in ServerSlots, FinishVerify(s) PROVE FromReached' /\ VouchersAddUp'
  BY <1>5 DEF FinishVerify, client, VouchersAddUp
<1>6. CASE StartClose \/ BuildClose \/ SendClose \/ CloseFails
  BY <1>6 DEF StartClose, BuildClose, SendClose, CloseFails, client, VouchersAddUp
<1>7. CASE UNCHANGED vars
  BY <1>7 DEF vars, client, server, VouchersAddUp
<1> QED
  BY <1>1, <1>2, <1>3, <1>4, <1>5, <1>6, <1>7 DEF Next

\* Until two signatures overlap, every voucher stands its amount above an
\* earlier one, so the server can accept them all in order.
THEOREM VouchersAlwaysAddUp == Spec => []VouchersAddUp
<1>1. Init => SigningInv
  BY CoveredInit DEF Init, CoveredInv, SigningInv, FromReached, Reached, VouchersAddUp
<1>2. SigningInv /\ [Next]_vars => SigningInv'
  BY TypedStep, SigningStep DEF SigningInv
<1>3. SigningInv => VouchersAddUp
  BY DEF SigningInv
<1> QED
  BY <1>1, <1>2, <1>3, PTL DEF Spec

\* What an operation that has landed has done on the contract.
LandedShows ==
    \A s \in Slots : calls[s].landed =>
        /\ calls[s].op = "fund" => funded > 0
        /\ calls[s].op = "approve" => calls[s].milestone \in approved
        /\ calls[s].op = "dispute" => disputed
        /\ calls[s].op = "resolve" => resolved

\* Only fundJob() works on a job that has not been funded.
UnderWayIsFunded ==
    \A s \in Slots : calls[s] # Idle /\ calls[s].op # "fund" => funded > 0

IInv == JobTypeOK /\ LandedShows /\ UnderWayIsFunded /\ NeverAheadOfContract

\* An approval, and a milestone's submission, name a milestone.
Naming == \A s \in Slots : calls[s].op \in {"submit", "approve", "release"} =>
             calls[s].milestone \in Milestones

EscrowInv == IInv /\ Naming

\* EscrowInv holds for a job that has just been created.
LEMMA EscrowInit == JobInit => EscrowInv
<1> SUFFICES ASSUME JobInit PROVE EscrowInv
  OBVIOUS
<1>1. JobTypeOK
  BY DEF JobInit, JobTypeOK, Call, Status
<1>2. \A s \in Slots : calls[s] = Idle /\ calls[s].landed = FALSE /\ calls[s].op = "idle"
  BY DEF JobInit, Idle
<1>3. LandedShows /\ UnderWayIsFunded /\ Naming
  BY <1>2 DEF LandedShows, UnderWayIsFunded, Naming
<1>4. NeverAheadOfContract
  BY DEF JobInit, NeverAheadOfContract
<1> QED
  BY <1>1, <1>3, <1>4 DEF EscrowInv, IInv

\* Beginning an operation keeps EscrowInv: the valid states of every
\* operation but fundJob() are states of a funded job.
LEMMA BeginKeeps ==
    ASSUME EscrowInv, NEW s \in Slots, NEW op \in Ops, NEW m \in Milestones \cup {None},
           NEW valid \in SUBSET Status, Begin(s, op, m, valid),
           op # "fund" => "created" \notin valid,
           op \in {"submit", "approve", "release"} => m \in Milestones
    PROVE  EscrowInv'
<1> USE EscrowAssumption DEF EscrowInv, IInv, JobTypeOK, Call, Begin, job, contract
<1>1. [op |-> op, milestone |-> m, landed |-> FALSE] \in
          [op : Ops, milestone : Milestones \cup {None}, landed : BOOLEAN]
  OBVIOUS
<1>2. JobTypeOK'
  BY <1>1
<1>3. LandedShows'
  BY DEF LandedShows
<1>4. op # "fund" => funded > 0
  BY DEF NeverAheadOfContract
<1>5. UnderWayIsFunded'
  BY <1>4 DEF UnderWayIsFunded
<1>6. NeverAheadOfContract' /\ Naming'
  BY DEF NeverAheadOfContract, Naming
<1> QED
  BY <1>2, <1>3, <1>5, <1>6

\* A landing keeps EscrowInv: it only adds to what the contract shows.
LEMMA LandKeeps ==
    ASSUME EscrowInv, NEW s \in Slots, Land(s)
    PROVE  EscrowInv'
<1> USE EscrowAssumption DEF EscrowInv, IInv, JobTypeOK, Land, job, history
<1>1. calls[s] \in [op : Ops, milestone : Milestones \cup {None}, landed : BOOLEAN]
  BY DEF Call
<1>2. calls' = [calls EXCEPT ![s] = [calls[s] EXCEPT !.landed = TRUE]]
  OBVIOUS
<1>3. [calls[s] EXCEPT !.landed = TRUE] \in
          [op : Ops, milestone : Milestones \cup {None}, landed : BOOLEAN]
  BY <1>1
<1>4. calls' \in [Slots -> Call]
  BY <1>2, <1>3 DEF Call
<1>5. /\ calls'[s].op = calls[s].op /\ calls'[s].milestone = calls[s].milestone
      /\ \A r \in Slots \ {s} : calls'[r] = calls[r]
  BY <1>1, <1>2
<1>6. funded' \in Nat /\ funded' >= funded /\ (calls[s].op = "fund" => funded' > 0)
  OBVIOUS
<1>7. /\ approved' \subseteq Milestones /\ approved \subseteq approved'
      /\ (calls[s].op = "approve" => calls[s].milestone \in approved')
  BY DEF Naming
<1>8. released' \subseteq Milestones
  BY DEF Naming
<1>9. disputed' \in BOOLEAN /\ resolved' \in BOOLEAN
  OBVIOUS
<1>10. /\ (disputed \/ calls[s].op = "dispute") => disputed'
       /\ (resolved \/ calls[s].op = "resolve") => resolved'
  OBVIOUS
<1>11. JobTypeOK'
  BY <1>4, <1>6, <1>7, <1>8, <1>9
<1>12. LandedShows'
  <2> SUFFICES ASSUME NEW r \in Slots, calls'[r].landed
               PROVE  /\ calls'[r].op = "fund" => funded' > 0
                      /\ calls'[r].op = "approve" => calls'[r].milestone \in approved'
                      /\ calls'[r].op = "dispute" => disputed'
                      /\ calls'[r].op = "resolve" => resolved'
    BY DEF LandedShows
  <2>1. CASE r = s
    BY <2>1, <1>5, <1>6, <1>7, <1>10
  <2>2. CASE r # s
    <3>1. calls'[r] = calls[r]
      BY <1>5, <2>2
    <3> QED
      BY <3>1, <1>6, <1>7, <1>10 DEF LandedShows
  <2> QED
    BY <2>1, <2>2
<1>13. UnderWayIsFunded'
  BY <1>5, <1>6 DEF UnderWayIsFunded
<1>14. NeverAheadOfContract'
  BY <1>6, <1>7, <1>10 DEF NeverAheadOfContract
<1>15. Naming'
  BY <1>5 DEF Naming
<1> QED
  BY <1>11, <1>12, <1>13, <1>14, <1>15

\* Ending an operation that has landed keeps EscrowInv: what the job now
\* shows is what LandedShows says of the contract.
LEMMA FinishKeeps ==
    ASSUME EscrowInv, NEW s \in Slots,
           \/ FinishFund(s) \/ FinishSubmit(s) \/ FinishApprove(s)
           \/ FinishRelease(s) \/ FinishDispute(s) \/ FinishResolve(s)
    PROVE  EscrowInv'
<1> USE EscrowAssumption DEF EscrowInv, IInv, JobTypeOK, Call, Status, Ops, Idle,
        Answered, End, contract, history, Naming, LandedShows, UnderWayIsFunded, NeverAheadOfContract
<1>1. CASE FinishFund(s)
  BY <1>1 DEF FinishFund
<1>2. CASE FinishSubmit(s)
  BY <1>2 DEF FinishSubmit
<1>3. CASE FinishApprove(s)
  <2> DEFINE m == calls[s].milestone
             ms == [milestones EXCEPT ![m] = "approved"]
             c == [op |-> "release", milestone |-> m, landed |-> FALSE]
  <2>1. m \in Milestones /\ m \in approved /\ funded > 0 /\ milestones' = ms
    BY <1>3 DEF FinishApprove
  <2>2. \A k \in Milestones : ms[k] = "approved" => k \in approved
    BY <2>1
  <2>3. ms \in [Milestones -> {"pending", "completed", "approved"}]
    BY <2>1
  <2>4. CASE multi \/ AllApproved(milestones')
    <3>1. calls' = [calls EXCEPT ![s] = c] /\ UNCHANGED <<status, multi, contract, history>>
      BY <1>3, <2>4 DEF FinishApprove
    <3>2. c \in Call
      BY <2>1
    <3> QED
      BY <2>1, <2>2, <2>3, <3>1, <3>2
  <2>5. CASE ~(multi \/ AllApproved(milestones'))
    <3>1. status' = "in-progress" /\ calls' = [calls EXCEPT ![s] = Idle] /\ UNCHANGED <<multi, contract, history>>
      BY <1>3, <2>5 DEF FinishApprove
    <3> QED
      BY <2>1, <2>2, <2>3, <3>1
  <2> QED
    BY <2>4, <2>5
<1>4. CASE FinishRelease(s)
  BY <1>4 DEF FinishRelease, AllApproved
<1>5. CASE FinishDispute(s)
  BY <1>5 DEF FinishDispute
<1>6. CASE FinishResolve(s)
  BY <1>6 DEF FinishResolve
<1> QED
  BY <1>1, <1>2, <1>3, <1>4, <1>5, <1>6

\* Every step keeps EscrowInv.
LEMMA EscrowStep == EscrowInv /\ [JobNext]_jobVars => EscrowInv'
<1> SUFFICES ASSUME EscrowInv, [JobNext]_jobVars PROVE EscrowInv'
  OBVIOUS
<1>1. ASSUME NEW s \in Slots, FundJob(s) \/ Dispute(s) \/ Resolve(s) PROVE EscrowInv'
  BY <1>1, BeginKeeps DEF FundJob, Dispute, Resolve, Ops, Status
<1>2. ASSUME NEW s \in Slots, NEW m \in Milestones,
             SubmitMilestone(s, m) \/ ApproveAndRelease(s, m)
      PROVE  EscrowInv'
  BY <1>2, BeginKeeps DEF SubmitMilestone, ApproveAndRelease, Ops, Status
<1>3. ASSUME NEW s \in Slots, Land(s) PROVE EscrowInv'
  BY <1>3, LandKeeps
<1>4. ASSUME NEW s \in Slots, Fail(s) PROVE EscrowInv'
  BY <1>4 DEF Fail, EscrowInv, IInv, JobTypeOK, Call, Idle, job, contract, Naming, LandedShows,
              UnderWayIsFunded, NeverAheadOfContract
<1>5. ASSUME NEW s \in Slots,
             \/ FinishFund(s) \/ FinishSubmit(s) \/ FinishApprove(s)
             \/ FinishRelease(s) \/ FinishDispute(s) \/ FinishResolve(s)
      PROVE  EscrowInv'
  BY <1>5, FinishKeeps
<1>6. CASE UNCHANGED jobVars
  BY <1>6 DEF jobVars, EscrowInv, IInv, JobTypeOK, job, contract, history, Naming, LandedShows,
              UnderWayIsFunded, NeverAheadOfContract
<1> QED
  BY <1>1, <1>2, <1>3, <1>4, <1>5, <1>6 DEF JobNext

\* The variables keep their types, for any milestones and slots.
THEOREM EscrowTyped == JobSpec => []JobTypeOK
<1>1. EscrowInv => JobTypeOK
  BY DEF EscrowInv, IInv
<1> QED
  BY EscrowInit, EscrowStep, <1>1, PTL DEF JobSpec

\* However operations overlap, fail or lose their answers, the job never
\* shows what has not landed on the contract.
THEOREM NeverAhead == JobSpec => []NeverAheadOfContract
<1>1. EscrowInv => NeverAheadOfContract
  BY DEF EscrowInv, IInv
<1> QED
  BY EscrowInit, EscrowStep, <1>1, PTL DEF JobSpec

-------------------------------------------------------------------------------
(* Released means paid.                                                    *)

Releasing(m) == \E s \in Slots : calls[s].op = "release" /\ calls[s].milestone = m

\* Where the money of an approved milestone is: paid, in the operation that
\* pays it, or lost to a release that failed.  A single-release job pays
\* nothing until its one release lands, and then everything.
MoneyTraced ==
    /\ \A s \in Slots : calls[s].op = "release" /\ calls[s].landed =>
           calls[s].milestone \in released /\ (~multi => released = Milestones)
    /\ multi => \A m \in Milestones : milestones[m] = "approved" =>
           m \in released \/ m \in unreleased \/ Releasing(m)
    /\ status = "released" => AllApproved(milestones)
    /\ status = "released" /\ ~multi => released = Milestones

PaidInv == EscrowInv /\ MoneyTraced

\* MoneyTraced holds for a job that has just been created.
LEMMA TracedInit == JobInit => MoneyTraced
  BY DEF JobInit, MoneyTraced, Idle

\* A landing keeps MoneyTraced: a release that lands pays its milestone, and
\* everything in a single-release job.
LEMMA TracedLand ==
    ASSUME PaidInv, NEW s \in Slots, Land(s)
    PROVE  MoneyTraced'
<1> USE DEF PaidInv, EscrowInv, IInv, JobTypeOK, Land, job, history, Naming
<1>1. calls[s] \in [op : Ops, milestone : Milestones \cup {None}, landed : BOOLEAN]
  BY DEF Call
<1>2. calls' = [calls EXCEPT ![s] = [calls[s] EXCEPT !.landed = TRUE]]
  OBVIOUS
<1>3. /\ calls'[s].op = calls[s].op /\ calls'[s].milestone = calls[s].milestone
      /\ \A r \in Slots \ {s} : calls'[r] = calls[r]
  BY <1>1, <1>2
<1>4. released \subseteq released' /\ (released = Milestones => released' = Milestones)
  OBVIOUS
<1>5. calls[s].op = "release" =>
          calls[s].milestone \in released' /\ (~multi => released' = Milestones)
  OBVIOUS
<1>6. \A m \in Milestones : Releasing(m) => Releasing(m)'
  BY <1>3 DEF Releasing
<1>7. \A r \in Slots : calls'[r].op = "release" /\ calls'[r].landed =>
          calls'[r].milestone \in released' /\ (~multi => released' = Milestones)
  BY <1>3, <1>4, <1>5 DEF MoneyTraced
<1>8. UNCHANGED <<multi, status, milestones, unreleased>>
  OBVIOUS
<1> QED
  BY <1>4, <1>6, <1>7, <1>8 DEF MoneyTraced, AllApproved

\* FinishApprove keeps MoneyTraced: a multi-release job goes on to release
\* the milestone it has just marked.
LEMMA TracedApprove ==
    ASSUME PaidInv, NEW s \in Slots, FinishApprove(s)
    PROVE  MoneyTraced'
<1> USE DEF PaidInv, EscrowInv, IInv, JobTypeOK, contract, history, Naming
<1> DEFINE m == calls[s].milestone
           c == [op |-> "release", milestone |-> m, landed |-> FALSE]
<1>1. /\ m \in Milestones /\ calls[s].op = "approve"
      /\ milestones' = [milestones EXCEPT ![m] = "approved"]
      /\ UNCHANGED <<multi, released, unreleased>>
  BY DEF FinishApprove, Answered
<1>2. CASE multi \/ AllApproved(milestones')
  <2>1. calls' = [calls EXCEPT ![s] = c] /\ status' = status
    BY <1>2 DEF FinishApprove
  <2>2. Releasing(m)'
    BY <2>1 DEF Releasing
  <2>3. \A k \in Milestones : Releasing(k) => Releasing(k)'
    BY <1>1, <2>1 DEF Releasing
  <2>4. \A r \in Slots : calls'[r].op = "release" /\ calls'[r].landed => r # s /\ calls'[r] = calls[r]
    BY <2>1
  <2> QED
    BY <1>1, <2>1, <2>2, <2>3, <2>4 DEF MoneyTraced, AllApproved
<1>3. CASE ~(multi \/ AllApproved(milestones'))
  <2>1. calls' = [calls EXCEPT ![s] = Idle] /\ status' = "in-progress"
    BY <1>3 DEF FinishApprove, End
  <2> QED
    BY <1>1, <1>3, <2>1 DEF MoneyTraced, Idle
<1> QED
  BY <1>2, <1>3

\* Every step keeps MoneyTraced.
LEMMA TracedStep ==
    ASSUME PaidInv, [JobNext]_jobVars
    PROVE  MoneyTraced'
<1> USE DEF PaidInv, EscrowInv, IInv, JobTypeOK, job, contract, history, Idle
<1>1. ASSUME NEW s \in Slots, NEW op \in Ops \ {"release"}, NEW m, NEW valid, Begin(s, op, m, valid)
      PROVE  MoneyTraced'
  BY <1>1 DEF Begin, MoneyTraced, AllApproved, Releasing
<1>2. ASSUME NEW s \in Slots, Land(s) PROVE MoneyTraced'
  BY <1>2, TracedLand
<1>3. ASSUME NEW s \in Slots, Fail(s) PROVE MoneyTraced'
  BY <1>3 DEF Fail, MoneyTraced, AllApproved, Releasing
<1>4. ASSUME NEW s \in Slots, FinishFund(s) \/ FinishDispute(s) \/ FinishResolve(s)
      PROVE  MoneyTraced'
  BY <1>4 DEF FinishFund, FinishDispute, FinishResolve, Answered, End, MoneyTraced, AllApproved, Releasing
<1>5. ASSUME NEW s \in Slots, FinishSubmit(s) PROVE MoneyTraced'
  BY <1>5 DEF FinishSubmit, Answered, End, MoneyTraced, Releasing
<1>6. ASSUME NEW s \in Slots, FinishApprove(s) PROVE MoneyTraced'
  BY <1>6, TracedApprove
<1>7. ASSUME NEW s \in Slots, FinishRelease(s) PROVE MoneyTraced'
  BY <1>7 DEF FinishRelease, Answered, End, MoneyTraced, AllApproved, Releasing
<1>8. CASE UNCHANGED jobVars
  BY <1>8 DEF jobVars, MoneyTraced, AllApproved, Releasing
<1>9. ASSUME NEW s \in Slots, FundJob(s) \/ Dispute(s) \/ Resolve(s) PROVE MoneyTraced'
  BY <1>9, <1>1 DEF FundJob, Dispute, Resolve, Ops
<1>10. ASSUME NEW s \in Slots, NEW m \in Milestones, SubmitMilestone(s, m) \/ ApproveAndRelease(s, m)
       PROVE  MoneyTraced'
  BY <1>10, <1>1 DEF SubmitMilestone, ApproveAndRelease, Ops
<1> QED
  BY <1>2, <1>3, <1>4, <1>5, <1>6, <1>7, <1>8, <1>9, <1>10 DEF JobNext

\* A job that says released has paid every milestone, but for those of a
\* multi-release job whose release failed or is still under way.
THEOREM ReleasedAlwaysPaid == JobSpec => []ReleasedMeansPaid
<1>1. JobInit => PaidInv
  BY EscrowInit, TracedInit DEF PaidInv
<1>2. PaidInv /\ [JobNext]_jobVars => PaidInv'
  BY EscrowStep, TracedStep DEF PaidInv
<1>3. PaidInv => ReleasedMeansPaid
  BY DEF PaidInv, MoneyTraced, ReleasedMeansPaid, Releasing, AllApproved
<1> QED
  BY <1>1, <1>2, <1>3, PTL DEF JobSpec

-------------------------------------------------------------------------------
(* Outcomes stick.                                                         *)

\* Until two operations have overlapped at most one is under way, and the
\* job is still in a state in which it could begin.
StillValid ==
    contended \/
        /\ \A s, r \in Slots : calls[s] # Idle /\ calls[r] # Idle => s = r
        /\ \A s \in Slots : calls[s] # Idle =>
               /\ status \notin {"released", "resolved"}
               /\ status = "disputed" => calls[s].op = "resolve"

ValidInv == EscrowInv /\ StillValid

\* StillValid holds for a job that has just been created.
LEMMA ValidInit == JobInit => StillValid
  BY DEF JobInit, StillValid

\* Every step keeps StillValid, and makes no outcome fall: only the one
\* operation under way changes the status, and it is none that a released,
\* resolved or disputed job lets begin.
LEMMA ValidStep ==
    ASSUME ValidInv, [JobNext]_jobVars
    PROVE  /\ StillValid'
           /\ ~contended => /\ status \in {"released", "resolved"} => status' = status
                            /\ status = "disputed" => status' \in {"disputed", "resolved"}
<1> DEFINE StaysValid ==
      /\ StillValid'
      /\ ~contended => /\ status \in {"released", "resolved"} => status' = status
                       /\ status = "disputed" => status' \in {"disputed", "resolved"}
<1> USE DEF ValidInv, EscrowInv, IInv, JobTypeOK, job, contract, history, StillValid
<1>1. ASSUME NEW s \in Slots, NEW op \in Ops, NEW m, NEW valid, Begin(s, op, m, valid),
             valid \cap {"released", "resolved"} = {}, "disputed" \in valid => op = "resolve"
      PROVE  StaysValid
  BY <1>1 DEF Begin
<1>2. ASSUME NEW s \in Slots, Land(s) PROVE StaysValid
  <2>1. calls[s] \in [op : Ops, milestone : Milestones \cup {None}, landed : BOOLEAN]
    BY <1>2 DEF Land, Call
  <2>2. calls' = [calls EXCEPT ![s] = [calls[s] EXCEPT !.landed = TRUE]]
    BY <1>2 DEF Land
  <2>3. calls'[s].op = calls[s].op /\ \A r \in Slots \ {s} : calls'[r] = calls[r]
    BY <2>1, <2>2
  <2>4. calls[s] # Idle /\ UNCHANGED <<status, contended>>
    BY <1>2 DEF Land
  <2> QED
    BY <2>3, <2>4
<1>3. ASSUME NEW s \in Slots, Fail(s) PROVE StaysValid
  BY <1>3 DEF Fail
<1>4. ASSUME NEW s \in Slots, NEW op \in Ops, Answered(s, op), calls' = [calls EXCEPT ![s] = Idle],
             contended' = contended, op # "resolve" \/ status' = "resolved"
      PROVE  StaysValid
  <2>1. calls[s] # Idle
    BY <1>4 DEF Answered, Idle, Ops
  <2>2. contended \/ \A r \in Slots : calls'[r] = Idle
    BY <1>4, <2>1
  <2>3. StillValid'
    BY <1>4, <2>2
  <2>4. calls[s].op = op
    BY <1>4 DEF Answered
  <2> QED
    BY <1>4, <2>1, <2>3, <2>4
<1>5. ASSUME NEW s \in Slots, FinishApprove(s) PROVE StaysValid
  <2>1. calls[s] # Idle /\ calls[s].op = "approve" /\ UNCHANGED contended
    BY <1>5 DEF FinishApprove, Answered, Idle
  <2>2. CASE calls' = [calls EXCEPT ![s] = Idle]
    BY <2>1, <2>2
  <2>3. CASE /\ calls' = [calls EXCEPT ![s] = [op |-> "release", milestone |-> calls[s].milestone,
                                               landed |-> FALSE]]
             /\ UNCHANGED status
    BY <2>1, <2>3
  <2> QED
    BY <1>5, <2>2, <2>3 DEF FinishApprove, End
<1>6. CASE UNCHANGED jobVars
  BY <1>6 DEF jobVars
<1>7. ASSUME NEW s \in Slots, FundJob(s) \/ Dispute(s) \/ Resolve(s) PROVE StaysValid
  BY <1>7, <1>1 DEF FundJob, Dispute, Resolve, Ops
<1>8. ASSUME NEW s \in Slots, NEW m \in Milestones, SubmitMilestone(s, m) \/ ApproveAndRelease(s, m)
      PROVE  StaysValid
  BY <1>8, <1>1 DEF SubmitMilestone, ApproveAndRelease, Ops
<1>9. ASSUME NEW s \in Slots,
             \/ FinishFund(s) \/ FinishSubmit(s) \/ FinishRelease(s)
             \/ FinishDispute(s) \/ FinishResolve(s)
      PROVE  StaysValid
  BY <1>9, <1>4 DEF FinishFund, FinishSubmit, FinishRelease, FinishDispute, FinishResolve, End, Ops
<1> QED
  BY <1>2, <1>3, <1>5, <1>6, <1>7, <1>8, <1>9 DEF JobNext

\* Until two operations overlap, a released or resolved job stays so and a
\* disputed one is only ever resolved.
THEOREM OutcomesAlwaysStick == JobSpec => OutcomesStick
<1>1. JobInit => ValidInv
  BY EscrowInit, ValidInit DEF ValidInv
<1>2. ValidInv /\ [JobNext]_jobVars => ValidInv'
  BY EscrowStep, ValidStep DEF ValidInv
<1>3. ValidInv /\ [JobNext]_jobVars =>
          [~contended => /\ status \in {"released", "resolved"} => status' = status
                         /\ status = "disputed" => status' \in {"disputed", "resolved"}]_jobVars
  BY ValidStep
<1> QED
  BY <1>1, <1>2, <1>3, PTL DEF JobSpec, OutcomesStick

-------------------------------------------------------------------------------
(* The escrow of an agent's job: whose verdict it shows.                   *)

\* A verdict under way, and one that the contract has mined.
Decides(v, j) == verdicts[v].job = j /\ verdicts[v].at \in {"signing", "mined"}
Mined(v, j) == verdicts[v].job = j /\ verdicts[v].at = "mined"

\* A job is recorded once the contract has its money.
Recorded ==
    /\ \A j \in Jobs : jobs[j] # "none" <=> creating[j] = "created"
    /\ \A j \in Jobs : creating[j] \in {"mined", "created"} => onchain[j] # "none"
    /\ \A j \in Jobs : creating[j] \in {"idle", "signing"} => onchain[j] = "none"
    /\ \A j \in Jobs : jobs[j] = "none" => onchain[j] \in {"none", "funded"}

\* A verdict is on a job that was submitted.
OnSubmitted ==
    \A v \in Verdicts :
        IF verdicts[v].at = "idle" THEN verdicts[v].job = NoJob
        ELSE /\ verdicts[v].job \in Jobs /\ verdicts[v].is \in {"completed", "rejected"}
             /\ jobs[verdicts[v].job] \notin {"none", "funded"}

\* The contract follows verdicts only.
Followed ==
    \A j \in Jobs : onchain[j] \in {"completed", "rejected"} =>
        \E v \in Verdicts : verdicts[v].job = j /\ verdicts[v].is = onchain[j]

\* Of a job without overlapping verdicts and lost answers one verdict at most is
\* under way, while the job is submitted, and the contract stands where the verdict
\* that it mined has put it.
OneVerdict ==
    \A j \in Jobs \ overlapped :
        /\ jobs[j] \in {"completed", "rejected"} => onchain[j] = jobs[j]
        /\ \A u, v \in Verdicts : Decides(u, j) /\ Decides(v, j) => u = v
        /\ \A v \in Verdicts : Decides(v, j) => jobs[j] = "submitted"
        /\ \A v \in Verdicts : Mined(v, j) => onchain[j] = verdicts[v].is
        /\ jobs[j] \in {"funded", "submitted"} /\ (\A v \in Verdicts : ~Mined(v, j)) => onchain[j] = "funded"

\* What the manager never breaks.
VerdictInv == AgentEscrowTypeOK /\ Recorded /\ OnSubmitted /\ Followed /\ OneVerdict

\* At the start there are no jobs.
LEMMA VerdictInitially == AgentEscrowInit => VerdictInv
BY AgentEscrowAssumption DEF AgentEscrowInit, VerdictInv, Recorded, OnSubmitted, Followed, OneVerdict, AgentEscrowTypeOK, Decides, Mined

\* Every step of the manager and the contract keeps it.
LEMMA VerdictStep == VerdictInv /\ [AgentEscrowNext]_agentEscrowVars => VerdictInv'
<1> SUFFICES ASSUME VerdictInv, [AgentEscrowNext]_agentEscrowVars PROVE VerdictInv'
  OBVIOUS
<1>1. ASSUME NEW j \in Jobs, CreateJob(j) PROVE VerdictInv'
  <2>1. AgentEscrowTypeOK'
    BY <1>1 DEF VerdictInv, AgentEscrowTypeOK, CreateJob, OnSubmitted
  <2>2. Recorded'
    BY <1>1 DEF VerdictInv, AgentEscrowTypeOK, Recorded, OnSubmitted, CreateJob
  <2>3. OnSubmitted'
    BY <1>1, AgentEscrowAssumption DEF VerdictInv, AgentEscrowTypeOK, OnSubmitted, CreateJob
  <2>4. Followed'
    BY <1>1 DEF VerdictInv, AgentEscrowTypeOK, OnSubmitted, Followed, CreateJob
  <2>5. OneVerdict'
    BY <1>1 DEF VerdictInv, AgentEscrowTypeOK, Recorded, OnSubmitted, OneVerdict, Decides, Mined, CreateJob
  <2> QED BY <2>1, <2>2, <2>3, <2>4, <2>5 DEF VerdictInv
<1>2. ASSUME NEW j \in Jobs, FundAgentJob(j) PROVE VerdictInv'
  <2>1. AgentEscrowTypeOK'
    BY <1>2 DEF VerdictInv, AgentEscrowTypeOK, FundAgentJob, OnSubmitted
  <2>2. Recorded'
    BY <1>2 DEF VerdictInv, AgentEscrowTypeOK, Recorded, OnSubmitted, FundAgentJob
  <2>3. OnSubmitted'
    BY <1>2, AgentEscrowAssumption DEF VerdictInv, AgentEscrowTypeOK, OnSubmitted, FundAgentJob
  <2>4. Followed'
    BY <1>2 DEF VerdictInv, AgentEscrowTypeOK, OnSubmitted, Followed, FundAgentJob
  <2>5. OneVerdict'
    BY <1>2 DEF VerdictInv, AgentEscrowTypeOK, Recorded, OnSubmitted, OneVerdict, Decides, Mined, FundAgentJob
  <2> QED BY <2>1, <2>2, <2>3, <2>4, <2>5 DEF VerdictInv
<1>3. ASSUME NEW j \in Jobs, RecordJob(j) PROVE VerdictInv'
  <2>1. AgentEscrowTypeOK'
    BY <1>3 DEF VerdictInv, AgentEscrowTypeOK, RecordJob, OnSubmitted
  <2>2. Recorded'
    BY <1>3 DEF VerdictInv, AgentEscrowTypeOK, Recorded, OnSubmitted, RecordJob
  <2>3. OnSubmitted'
    BY <1>3, AgentEscrowAssumption DEF VerdictInv, AgentEscrowTypeOK, Recorded, OnSubmitted, RecordJob
  <2>4. Followed'
    BY <1>3 DEF VerdictInv, AgentEscrowTypeOK, OnSubmitted, Followed, RecordJob
  <2>5. OneVerdict'
    BY <1>3 DEF VerdictInv, AgentEscrowTypeOK, Recorded, OnSubmitted, OneVerdict, Decides, Mined, RecordJob
  <2> QED BY <2>1, <2>2, <2>3, <2>4, <2>5 DEF VerdictInv
<1>4. ASSUME NEW j \in Jobs, SubmitDeliverable(j) PROVE VerdictInv'
  <2>1. AgentEscrowTypeOK'
    BY <1>4 DEF VerdictInv, AgentEscrowTypeOK, SubmitDeliverable, OnSubmitted
  <2>2. Recorded'
    BY <1>4 DEF VerdictInv, AgentEscrowTypeOK, Recorded, OnSubmitted, SubmitDeliverable
  <2>3. OnSubmitted'
    BY <1>4, AgentEscrowAssumption DEF VerdictInv, AgentEscrowTypeOK, OnSubmitted, SubmitDeliverable
  <2>4. Followed'
    BY <1>4 DEF VerdictInv, AgentEscrowTypeOK, OnSubmitted, Followed, SubmitDeliverable
  <2>5. OneVerdict'
    BY <1>4 DEF VerdictInv, AgentEscrowTypeOK, Recorded, OnSubmitted, OneVerdict, Decides, Mined, SubmitDeliverable
  <2> QED BY <2>1, <2>2, <2>3, <2>4, <2>5 DEF VerdictInv
<1>5. ASSUME NEW v \in Verdicts, NEW j \in Jobs, NEW is \in {"completed", "rejected"}, Decide(v, j, is)
      PROVE  VerdictInv'
  <2>1. AgentEscrowTypeOK'
    BY <1>5 DEF VerdictInv, AgentEscrowTypeOK, Decide, OnSubmitted
  <2>2. Recorded'
    BY <1>5 DEF VerdictInv, AgentEscrowTypeOK, Recorded, OnSubmitted, Decide
  <2>3. OnSubmitted'
    BY <1>5, AgentEscrowAssumption DEF VerdictInv, AgentEscrowTypeOK, OnSubmitted, Decide
  <2>4. Followed'
    BY <1>5, AgentEscrowAssumption DEF VerdictInv, AgentEscrowTypeOK, OnSubmitted, Followed, Decide
  <2>5. OneVerdict'
    BY <1>5 DEF VerdictInv, AgentEscrowTypeOK, Recorded, OnSubmitted, OneVerdict, Decides, Mined, Decide, Deciding
  <2> QED BY <2>1, <2>2, <2>3, <2>4, <2>5 DEF VerdictInv
<1>6. ASSUME NEW v \in Verdicts, MineVerdict(v) PROVE VerdictInv'
  <2>1. AgentEscrowTypeOK'
    BY <1>6 DEF VerdictInv, AgentEscrowTypeOK, MineVerdict, OnSubmitted
  <2>2. Recorded'
    BY <1>6 DEF VerdictInv, AgentEscrowTypeOK, Recorded, OnSubmitted, MineVerdict
  <2>3. OnSubmitted'
    BY <1>6, AgentEscrowAssumption, SMTT(30) DEF VerdictInv, AgentEscrowTypeOK, OnSubmitted, MineVerdict
  <2>4. Followed'
    BY <1>6, SMTT(30) DEF VerdictInv, AgentEscrowTypeOK, OnSubmitted, Followed, MineVerdict
  <2>5. OneVerdict'
    BY <1>6, SMTT(30) DEF VerdictInv, AgentEscrowTypeOK, Recorded, OnSubmitted, OneVerdict, Decides, Mined, MineVerdict
  <2> QED BY <2>1, <2>2, <2>3, <2>4, <2>5 DEF VerdictInv
<1>7. ASSUME NEW v \in Verdicts, EndVerdict(v) PROVE VerdictInv'
  <2>1. AgentEscrowTypeOK'
    BY <1>7 DEF VerdictInv, AgentEscrowTypeOK, EndVerdict, OnSubmitted
  <2>2. Recorded'
    BY <1>7 DEF VerdictInv, AgentEscrowTypeOK, Recorded, OnSubmitted, EndVerdict
  <2>3. OnSubmitted'
    BY <1>7, AgentEscrowAssumption DEF VerdictInv, AgentEscrowTypeOK, OnSubmitted, EndVerdict
  <2>4. Followed'
    BY <1>7 DEF VerdictInv, AgentEscrowTypeOK, OnSubmitted, Followed, EndVerdict
  <2>5. OneVerdict'
    BY <1>7 DEF VerdictInv, AgentEscrowTypeOK, Recorded, OnSubmitted, OneVerdict, Decides, Mined, EndVerdict
  <2> QED BY <2>1, <2>2, <2>3, <2>4, <2>5 DEF VerdictInv
<1>8. CASE UNCHANGED agentEscrowVars
  <2>1. AgentEscrowTypeOK'
    BY <1>8 DEF VerdictInv, AgentEscrowTypeOK, agentEscrowVars
  <2>2. Recorded'
    BY <1>8 DEF VerdictInv, AgentEscrowTypeOK, Recorded, OnSubmitted, agentEscrowVars
  <2>3. OnSubmitted'
    BY <1>8, AgentEscrowAssumption DEF VerdictInv, AgentEscrowTypeOK, OnSubmitted, agentEscrowVars
  <2>4. Followed'
    BY <1>8 DEF VerdictInv, AgentEscrowTypeOK, OnSubmitted, Followed, agentEscrowVars
  <2>5. OneVerdict'
    BY <1>8 DEF VerdictInv, AgentEscrowTypeOK, Recorded, OnSubmitted, OneVerdict, Decides, Mined, agentEscrowVars
  <2> QED BY <2>1, <2>2, <2>3, <2>4, <2>5 DEF VerdictInv
<1> QED BY <1>1, <1>2, <1>3, <1>4, <1>5, <1>6, <1>7, <1>8 DEF AgentEscrowNext

\* For any number of jobs and verdicts: what the manager says of a job is what the
\* contract did with its money, unless two verdicts overlapped or the answer to one
\* was lost; even then the money left on a verdict somebody asked for
\* (agent/escrow.ts:58).
THEOREM VerdictAlwaysTheContracts == AgentEscrowSpec => []VerdictIsTheContracts
<1>1. VerdictInv => VerdictIsTheContracts
  BY DEF VerdictInv, Recorded, Followed, OneVerdict, VerdictIsTheContracts
<1> QED BY <1>1, VerdictInitially, VerdictStep, PTL DEF AgentEscrowSpec

-------------------------------------------------------------------------------
(* Batches and streams.                                                    *)

\* What the settlement never breaks.
SettledInv ==
    /\ SettlementTypeOK /\ StreamsBalance
    /\ batch.spent <= BatchBudget /\ stream.total <= StreamBudget
    /\ batch.nonce = 0 => batch.spent = 0
    /\ DOMAIN batchVouchers = 1..batch.nonce

\* At the start nothing is signed or used.
LEMMA SettledInitially == SettlementInit => SettledInv
BY SettlementAssumption DEF SettlementInit, SettledInv, SettlementTypeOK, StreamsBalance

\* Every voucher, usage and settlement keeps it.
LEMMA SettledStep == SettledInv /\ [SettlementNext]_settlementVars => SettledInv'
<1> SUFFICES ASSUME SettledInv, [SettlementNext]_settlementVars PROVE SettledInv'
  OBVIOUS
<1>1. ASSUME NEW amount \in Usages, SignBatchVoucher(amount) PROVE SettledInv'
  <2> DEFINE n == batch.nonce
             t == batch.spent + amount
  <2>1. /\ amount \in Nat \ {0} /\ BatchBudget \in Nat /\ n \in Nat /\ batch.spent \in Nat /\ t \in Nat /\ t > batch.spent
        /\ t <= BatchBudget /\ batch.status = "active"
    BY <1>1, SettlementAssumption DEF SettledInv, SettlementTypeOK, SignBatchVoucher
  <2>2. batch' = [batch EXCEPT !.spent = t, !.nonce = n + 1] /\ UNCHANGED <<stream, paidOut>>
        /\ batchVouchers' = [m \in 1..(n + 1) |-> IF m \in DOMAIN batchVouchers THEN batchVouchers[m] ELSE t]
    BY <1>1 DEF SignBatchVoucher
  <2>3. /\ batchVouchers \in [1..n -> Nat] /\ DOMAIN batchVouchers = 1..n
        /\ \A m \in 1..n : BatchVoucherVerifies(batchVouchers[m], m)
                           /\ \A k \in 1..n : k < m => batchVouchers[k] < batchVouchers[m]
        /\ n > 0 => batchVouchers[n] = batch.spent
    BY DEF SettledInv, SettlementTypeOK, StreamsBalance
  <2>4. batch' \in [spent : Nat, nonce : Nat, status : {"active", "settled"}] /\ batch'.nonce = n + 1 /\ batch'.spent = t
    <3>1. batch \in [spent : Nat, nonce : Nat, status : {"active", "settled"}] /\ n + 1 \in Nat
      BY <2>1 DEF SettledInv, SettlementTypeOK
    <3> HIDE DEF t, n
    <3> QED BY <2>1, <2>2, <3>1
  <2> HIDE DEF t, n
  <2>8. \A m \in 1..n : batchVouchers[m] \in Nat /\ batchVouchers[m] < t
    <3> SUFFICES ASSUME NEW m \in 1..n PROVE batchVouchers[m] \in Nat /\ batchVouchers[m] < t
      OBVIOUS
    <3>1. n \in 1..n /\ n > 0 /\ (m = n \/ m < n) /\ batchVouchers[m] \in Nat
      BY <2>1, <2>3
    <3>2. batchVouchers[m] <= batch.spent
      BY <2>1, <2>3, <3>1
    <3> QED BY <2>1, <3>1, <3>2
  <2>5. \A m \in 1..n : m \in 1..(n + 1) /\ batchVouchers'[m] = batchVouchers[m] /\ batchVouchers[m] <= t /\ m < n + 1
    BY <2>1, <2>2, <2>3, <2>8
  <2>6. batchVouchers'[n + 1] = t /\ n + 1 \in 1..(n + 1) /\ n + 1 \notin 1..n /\ \A m \in 1..(n + 1) : m \in 1..n \/ m = n + 1
    BY <2>1, <2>2, <2>3
  <2>7. batchVouchers' \in [1..(n + 1) -> Nat] /\ DOMAIN batchVouchers' = 1..(n + 1)
    BY <2>1, <2>2, <2>3
  <2>9. \A m \in 1..(n + 1) : BatchVoucherVerifies(batchVouchers'[m], m)
    BY <2>1, <2>3, <2>5, <2>6 DEF BatchVoucherVerifies
  <2>10. \A m, k \in 1..(n + 1) : k < m => batchVouchers'[k] < batchVouchers'[m]
    <3> SUFFICES ASSUME NEW m \in 1..(n + 1), NEW k \in 1..(n + 1), k < m PROVE batchVouchers'[k] < batchVouchers'[m]
      OBVIOUS
    <3>1. k \in 1..n
      BY <2>1
    <3>2. CASE m \in 1..n
      BY <2>3, <2>5, <3>1, <3>2
    <3>3. CASE m = n + 1
      BY <2>5, <2>6, <2>8, <3>1, <3>3
    <3> QED BY <2>6, <3>2, <3>3
  <2>11. StreamsBalance'
    BY <2>2, <2>4, <2>6, <2>7, <2>9, <2>10 DEF SettledInv, StreamsBalance, BatchVoucherVerifies
  <2>12. SettlementTypeOK'
    BY <2>2, <2>4, <2>7 DEF SettledInv, SettlementTypeOK
  <2> QED BY <2>1, <2>2, <2>4, <2>7, <2>11, <2>12 DEF SettledInv
<1>2. ASSUME NEW amount \in Usages, RecordUsage(amount) PROVE SettledInv'
  <2>1. amount \in Nat /\ StreamBudget \in Nat /\ stream \in [total : Nat, interval : Nat, status : {"active", "cancelled", "exhausted"}]
    BY SettlementAssumption DEF SettledInv, SettlementTypeOK
  <2>2. /\ stream.total \in Nat /\ stream.interval \in Nat /\ stream.status = "active" /\ paidOut.settled \in Nat
        /\ paidOut.settled + stream.interval = stream.total /\ stream.total <= StreamBudget
    BY <1>2, <2>1 DEF RecordUsage, SettledInv, SettlementTypeOK, StreamsBalance
  <2>3. UNCHANGED <<batch, batchVouchers, paidOut>>
    BY <1>2 DEF RecordUsage
  <2>4. CASE stream.total + amount > StreamBudget
    <3>1. /\ stream' \in [total : Nat, interval : Nat, status : {"active", "cancelled", "exhausted"}]
          /\ stream'.total = stream.total /\ stream'.interval = stream.interval /\ stream'.status = "exhausted"
      BY <1>2, <2>1, <2>4 DEF RecordUsage
    <3> QED BY <2>2, <2>3, <3>1 DEF SettledInv, SettlementTypeOK, StreamsBalance, BatchVoucherVerifies
  <2>5. CASE ~(stream.total + amount > StreamBudget)
    <3> DEFINE t == stream.total + amount
               i == stream.interval + amount
    <3>1. stream' = [stream EXCEPT !.total = t, !.interval = i]
      BY <1>2, <2>5 DEF RecordUsage
    <3>2. t \in Nat /\ i \in Nat /\ t <= StreamBudget /\ paidOut.settled + i = t
      BY <2>1, <2>2, <2>5
    <3> HIDE DEF t, i
    <3>3. /\ stream' \in [total : Nat, interval : Nat, status : {"active", "cancelled", "exhausted"}]
          /\ stream'.total = t /\ stream'.interval = i /\ stream'.status = "active"
      BY <2>1, <2>2, <3>1, <3>2
    <3> QED BY <2>3, <3>2, <3>3 DEF SettledInv, SettlementTypeOK, StreamsBalance, BatchVoucherVerifies
  <2> QED BY <2>4, <2>5
<1>3. CASE SettleBatch
  BY <1>3 DEF SettleBatch, SettledInv, SettlementTypeOK, StreamsBalance, BatchVoucherVerifies
<1>4. CASE SettleInterval
  <2> DEFINE p == paidOut.settled + stream.interval
  <2>1. /\ paidOut \in [settled : Nat, refund : Nat] /\ p \in Nat /\ p = stream.total
        /\ stream \in [total : Nat, interval : Nat, status : {"active", "cancelled", "exhausted"}]
        /\ stream.status = "cancelled" => p + paidOut.refund = StreamBudget
    BY DEF SettledInv, SettlementTypeOK, StreamsBalance
  <2>2. paidOut' = [paidOut EXCEPT !.settled = p] /\ stream' = [stream EXCEPT !.interval = 0]
        /\ UNCHANGED <<batch, batchVouchers>>
    BY <1>4 DEF SettleInterval
  <2> HIDE DEF p
  <2>3. /\ paidOut' \in [settled : Nat, refund : Nat] /\ paidOut'.settled = p /\ paidOut'.refund = paidOut.refund
        /\ stream' \in [total : Nat, interval : Nat, status : {"active", "cancelled", "exhausted"}]
        /\ stream'.interval = 0 /\ stream'.total = stream.total /\ stream'.status = stream.status
    BY <2>1, <2>2
  <2> QED BY <2>1, <2>2, <2>3 DEF SettledInv, SettlementTypeOK, StreamsBalance, BatchVoucherVerifies
<1>5. CASE CancelStream
  <2> DEFINE r == StreamBudget - stream.total
  <2>1. /\ paidOut \in [settled : Nat, refund : Nat] /\ paidOut.settled + stream.interval = stream.total
        /\ stream \in [total : Nat, interval : Nat, status : {"active", "cancelled", "exhausted"}]
        /\ stream.total <= StreamBudget /\ StreamBudget \in Nat
    BY SettlementAssumption DEF SettledInv, SettlementTypeOK, StreamsBalance
  <2>2. paidOut' = [paidOut EXCEPT !.refund = r] /\ stream' = [stream EXCEPT !.status = "cancelled"]
        /\ UNCHANGED <<batch, batchVouchers>>
    BY <1>5 DEF CancelStream
  <2>3. r \in Nat /\ paidOut.settled + stream.interval + r = StreamBudget
    BY <2>1
  <2> HIDE DEF r
  <2>4. /\ paidOut' \in [settled : Nat, refund : Nat] /\ paidOut'.settled = paidOut.settled /\ paidOut'.refund = r
        /\ stream' \in [total : Nat, interval : Nat, status : {"active", "cancelled", "exhausted"}]
        /\ stream'.interval = stream.interval /\ stream'.total = stream.total
    BY <2>1, <2>2, <2>3
  <2> QED BY <2>1, <2>2, <2>3, <2>4 DEF SettledInv, SettlementTypeOK, StreamsBalance, BatchVoucherVerifies
<1>6. CASE UNCHANGED settlementVars
  BY <1>6 DEF settlementVars, SettledInv, SettlementTypeOK, StreamsBalance, BatchVoucherVerifies
<1> QED BY <1>1, <1>2, <1>3, <1>4, <1>5, <1>6 DEF SettlementNext

\* For any budgets and amounts: every voucher signed verifies and is for more than
\* the one before, and what a stream settled, is yet to settle and refunds is its
\* budget, in whatever order it is used, settled, exhausted and cancelled
\* (settlement/index.ts).
THEOREM StreamsAlwaysBalance == SettlementSpec => []StreamsBalance
<1>1. SettledInv => StreamsBalance
  BY DEF SettledInv
<1> QED BY <1>1, SettledInitially, SettledStep, PTL DEF SettlementSpec

-------------------------------------------------------------------------------
(* Mandates.                                                               *)

\* What a mandate never breaks: nothing is made from it or accepted before it is
\* closed, and its cart fits the budget.
CoveredByCart ==
    /\ MandatesTypeOK /\ AcceptedStaysCovered
    /\ checkout.type # "closed" => accepted = {}
    /\ checkout.type = "closed" /\ checkout.budget # 0 => checkout.total <= checkout.budget

\* At the start there is no mandate.
LEMMA CartInitially == MandatesInit => CoveredByCart
BY MandateAssumption DEF MandatesInit, CoveredByCart, MandatesTypeOK, AcceptedStaysCovered

\* Every step of the user, the agent and the verifier keeps it.
LEMMA CartStep == CoveredByCart /\ [MandatesNext]_mandateVars => CoveredByCart'
<1> SUFFICES ASSUME CoveredByCart, [MandatesNext]_mandateVars PROVE CoveredByCart'
  OBVIOUS
<1>1. /\ mandateNow \in Nat /\ payments \subseteq Nat /\ accepted \subseteq payments
      /\ checkout \in [type : {"none", "open", "closed"}, budget : Nat, total : Nat, until : Nat]
  BY MandateAssumption DEF CoveredByCart, MandatesTypeOK
<1>2. ASSUME NEW budget \in Budgets, CreateCheckout(budget) PROVE CoveredByCart'
  BY <1>1, <1>2, MandateAssumption DEF CoveredByCart, MandatesTypeOK, AcceptedStaysCovered, CreateCheckout
<1>3. ASSUME NEW total \in Totals, CloseCheckout(total) PROVE CoveredByCart'
  BY <1>1, <1>3, MandateAssumption DEF CoveredByCart, MandatesTypeOK, AcceptedStaysCovered, CloseCheckout
<1>4. ASSUME NEW amount \in Totals, CreatePayment(amount) PROVE CoveredByCart'
  BY <1>1, <1>4, MandateAssumption DEF CoveredByCart, MandatesTypeOK, AcceptedStaysCovered, CreatePayment
<1>5. ASSUME NEW amount \in Totals, VerifyChain(amount) PROVE CoveredByCart'
  BY <1>1, <1>5, MandateAssumption DEF CoveredByCart, MandatesTypeOK, AcceptedStaysCovered, VerifyChain
<1>6. CASE MandateTick
  BY <1>6, MandateAssumption DEF CoveredByCart, MandatesTypeOK, AcceptedStaysCovered, MandateTick
<1>7. CASE UNCHANGED mandateVars
  BY <1>7 DEF CoveredByCart, MandatesTypeOK, AcceptedStaysCovered, mandateVars
<1> QED BY <1>2, <1>3, <1>4, <1>5, <1>6, <1>7 DEF MandatesNext

\* For any budgets, carts and payments: a payment that was ever accepted is covered
\* by the cart the mandate stands for, and by the budget the user set (ap2/index.ts).
THEOREM AcceptedAlwaysCovered == MandatesSpec => []AcceptedStaysCovered
<1>1. CoveredByCart => AcceptedStaysCovered
  BY DEF CoveredByCart
<1> QED BY <1>1, CartInitially, CartStep, PTL DEF MandatesSpec

-------------------------------------------------------------------------------
(* Tool calls.                                                             *)

\* The types the arguments need; how many demands a call was priced among is
\* whatever the window of the code holds.
ProviderTyped ==
    /\ toolNow \in Nat /\ lateCharges \subseteq ToolCalls
    /\ toolSessions \in [ToolSessions -> [status : Statuses \cup {"none"}, spent : Nat, until : Nat]]
    /\ toolCalls = [c \in ToolCalls |->
                       [at |-> toolCalls[c].at, session |-> toolCalls[c].session,
                        price |-> toolCalls[c].price, among |-> toolCalls[c].among]]
    /\ \A c \in ToolCalls : toolCalls[c].price \in Nat

\* A session's calls are finitely many, and a call that waits has none.
CallsCounted ==
    /\ \A s \in ToolSessions : IsFiniteSet(ChargedTo(s))
    /\ \A c \in ToolCalls : toolCalls[c].at = "idle" => toolCalls[c].session = NoSession

\* What the provider never breaks.
ProvidedInv == ProviderTyped /\ CallsCounted /\ SessionsBalance

\* Before any call nothing is charged.
LEMMA ProvidedInitially == ProviderInit => ProvidedInv
<1> SUFFICES ASSUME ProviderInit PROVE ProvidedInv
  OBVIOUS
<1>1. ProviderTyped
  BY ProviderAssumption DEF ProviderInit, ProviderTyped, Statuses
<1>2. \A s \in ToolSessions : ChargedTo(s) = {}
  BY ProviderAssumption DEF ProviderInit, ChargedTo
<1>3. IsFiniteSet({}) /\ SumFunctionOnSet(Prices, {}) = 0
  BY FS_EmptySet, SumZero
<1>4. CallsCounted
  BY <1>2, <1>3 DEF CallsCounted, ProviderInit
<1>5. SessionsBalance
  <2>1. \A s \in ToolSessions :
           /\ toolSessions[s].spent = 0 /\ 0 <= SessionBudget
           /\ SumFunctionOnSet(Prices, ChargedTo(s)) = 0
    <3> SUFFICES ASSUME NEW s \in ToolSessions
                 PROVE  /\ toolSessions[s].spent = 0 /\ 0 <= SessionBudget
                        /\ SumFunctionOnSet(Prices, ChargedTo(s)) = 0
      OBVIOUS
    <3>1. toolSessions[s].spent = 0 /\ 0 <= SessionBudget
      BY ProviderAssumption DEF ProviderInit
    <3>2. ChargedTo(s) = {}
      BY <1>2
    <3>3. SumFunctionOnSet(Prices, ChargedTo(s)) = 0
      BY <1>3, <3>2, Zenon
    <3> QED BY <3>1, <3>3
  <2>2. lateCharges = {} /\ \A c \in ToolCalls : toolCalls[c].session = NoSession
    BY DEF ProviderInit
  <2> QED BY <2>1, <2>2 DEF SessionsBalance
<1> QED BY <1>1, <1>4, <1>5 DEF ProvidedInv

\* A session looked at is typed, and has spent what it had.
LEMMA LookedKeeps ==
  ASSUME ProviderTyped, NEW s \in ToolSessions
  PROVE  /\ Looked(s) \in [status : Statuses \cup {"none"}, spent : Nat, until : Nat]
         /\ Looked(s).spent = toolSessions[s].spent
         /\ Looked(s).status = "active"
               => toolSessions[s].status = "active" /\ toolNow <= toolSessions[s].until
BY DEF ProviderTyped, Looked, Statuses

\* While no call is charged and no session spends, the sums stay.
LEMMA NothingCharged ==
  ASSUME ProvidedInv, ProviderTyped', lateCharges' = lateCharges,
         \A c \in ToolCalls : /\ toolCalls'[c].session = toolCalls[c].session
                              /\ toolCalls'[c].price = toolCalls[c].price
                              /\ toolCalls'[c].among = toolCalls[c].among
                              /\ toolCalls'[c].at = "idle" => toolCalls[c].at = "idle",
         \A s \in ToolSessions : toolSessions'[s].spent = toolSessions[s].spent
  PROVE  ProvidedInv'
<1>1. \A s : ChargedTo(s)' = ChargedTo(s)
  BY DEF ChargedTo
<1>2. Prices' = Prices
  BY DEF Prices
<1>3. CallsCounted'
  BY <1>1 DEF ProvidedInv, CallsCounted
<1>4. SessionsBalance'
  <2>1. SessionsBalance BY DEF ProvidedInv
  <2>2. \A s \in ToolSessions :
           /\ toolSessions'[s].spent = SumFunctionOnSet(Prices', ChargedTo(s)')
           /\ toolSessions'[s].spent <= SessionBudget
    BY <1>1, <1>2, <2>1 DEF SessionsBalance
  <2>3. /\ \A c \in ToolCalls :
              toolCalls'[c].session # NoSession /\ toolCalls'[c].price # BasePrice
                  => toolCalls'[c].among > SurgeThreshold
        /\ lateCharges' = {}
    BY <2>1 DEF SessionsBalance
  <2> QED BY <2>2, <2>3 DEF SessionsBalance
<1> QED BY <1>3, <1>4 DEF ProvidedInv

\* The steps that leave the calls as they are, and look at sessions.
LEMMA LookingKeeps ==
  ASSUME ProvidedInv, toolCalls' = toolCalls, lateCharges' = lateCharges, toolNow' \in Nat,
         toolSessions' \in [ToolSessions -> [status : Statuses \cup {"none"}, spent : Nat, until : Nat]],
         \A s \in ToolSessions : toolSessions'[s].spent = toolSessions[s].spent
  PROVE  ProvidedInv'
<1>1. ProviderTyped'
  BY DEF ProvidedInv, ProviderTyped
<1> QED BY <1>1, NothingCharged

\* A call that is not charged changes where it stands.
LEMMA StandingKeeps ==
  ASSUME ProvidedInv, NEW c \in ToolCalls, NEW at, at # "idle",
         toolCalls' = [toolCalls EXCEPT ![c].at = at], lateCharges' = lateCharges, toolNow' = toolNow,
         toolSessions' \in [ToolSessions -> [status : Statuses \cup {"none"}, spent : Nat, until : Nat]],
         \A s \in ToolSessions : toolSessions'[s].spent = toolSessions[s].spent
  PROVE  ProvidedInv'
<1>1. ProviderTyped
  BY DEF ProvidedInv
<1>2. \A b \in ToolCalls :
         toolCalls'[b] = [at |-> IF b = c THEN at ELSE toolCalls[b].at, session |-> toolCalls[b].session,
                          price |-> toolCalls[b].price, among |-> toolCalls[b].among]
  BY <1>1 DEF ProviderTyped
<1>3. toolCalls' = [b \in ToolCalls |-> toolCalls'[b]]
  BY <1>1 DEF ProviderTyped
<1>4. \A b \in ToolCalls : /\ toolCalls'[b].session = toolCalls[b].session
                           /\ toolCalls'[b].price = toolCalls[b].price
                           /\ toolCalls'[b].among = toolCalls[b].among
                           /\ toolCalls'[b].at = "idle" => toolCalls[b].at = "idle"
  BY <1>2
<1>5. toolCalls' = [b \in ToolCalls |->
                      [at |-> toolCalls'[b].at, session |-> toolCalls'[b].session,
                       price |-> toolCalls'[b].price, among |-> toolCalls'[b].among]]
  BY <1>2, <1>3
<1>6. ProviderTyped'
  BY <1>1, <1>4, <1>5 DEF ProviderTyped
<1> QED BY <1>4, <1>6, NothingCharged

\* A call charged adds its price to its session and is counted there.
LEMMA ChargingKeeps ==
  ASSUME ProvidedInv, NEW c \in ToolCalls, NEW s \in ToolSessions, ChargeSession(c, s)
  PROVE  ProvidedInv'
<1> DEFINE n == SumFunction(Demanded(demand))
           price == PriceAmong(n)
           looked == Looked(s)
<1>1. /\ toolCalls[c].at = "idle" /\ Chargeable(s, price)
      /\ toolSessions' = [toolSessions EXCEPT ![s] = [looked EXCEPT !.spent = @ + price]]
      /\ toolCalls' = [toolCalls EXCEPT ![c] = [at |-> "running", session |-> s, price |-> price,
                                                among |-> n]]
      /\ lateCharges' = IF toolSessions[s].status = "active" /\ toolNow <= toolSessions[s].until
                        THEN lateCharges ELSE lateCharges \cup {c}
      /\ toolNow' = toolNow
  BY DEF ChargeSession
<1>2. ProviderTyped /\ CallsCounted /\ SessionsBalance
  BY DEF ProvidedInv
<1>3. price \in Nat /\ (price = BasePrice \/ n > SurgeThreshold) /\ SessionBudget \in Nat
  BY ProviderAssumption DEF PriceAmong
<1>4. /\ looked \in [status : Statuses \cup {"none"}, spent : Nat, until : Nat]
      /\ looked.spent = toolSessions[s].spent
      /\ looked.status = "active" /\ looked.spent + price <= SessionBudget
      /\ toolSessions[s].status = "active" /\ toolNow <= toolSessions[s].until
  BY <1>1, <1>2, LookedKeeps DEF Chargeable
<1>5. lateCharges' = {}
  BY <1>1, <1>2, <1>4 DEF SessionsBalance
<1> HIDE DEF n, price, looked
<1> DEFINE sum == looked.spent + price
<1>6. sum \in Nat
  BY <1>3, <1>4
<1>7. /\ toolSessions' \in [ToolSessions -> [status : Statuses \cup {"none"}, spent : Nat, until : Nat]]
      /\ toolSessions'[s].spent = sum
      /\ \A r \in ToolSessions : r # s => toolSessions'[r] = toolSessions[r]
  <2>1. [looked EXCEPT !.spent = @ + price] = [looked EXCEPT !.spent = sum]
    BY <1>4
  <2> HIDE DEF sum
  <2>2. /\ [looked EXCEPT !.spent = sum] \in [status : Statuses \cup {"none"}, spent : Nat, until : Nat]
        /\ [looked EXCEPT !.spent = sum].spent = sum
    BY <1>4, <1>6
  <2> QED BY <1>1, <1>2, <2>1, <2>2 DEF ProviderTyped
<1> HIDE DEF sum
<1>8. /\ toolCalls' = [b \in ToolCalls |-> toolCalls'[b]]
      /\ toolCalls'[c] = [at |-> "running", session |-> s, price |-> price, among |-> n]
      /\ \A b \in ToolCalls : b # c => toolCalls'[b] = toolCalls[b]
  BY <1>1, <1>2 DEF ProviderTyped
<1>9. /\ \A b \in ToolCalls : toolCalls'[b] = [at |-> toolCalls'[b].at, session |-> toolCalls'[b].session,
                                               price |-> toolCalls'[b].price, among |-> toolCalls'[b].among]
      /\ \A b \in ToolCalls : toolCalls'[b].price \in Nat
  BY <1>2, <1>3, <1>8 DEF ProviderTyped
<1>10. ProviderTyped'
  BY <1>1, <1>2, <1>5, <1>7, <1>8, <1>9 DEF ProviderTyped
<1>11. toolCalls[c].session = NoSession /\ s # NoSession
  BY <1>1, <1>2, ProviderAssumption DEF CallsCounted
<1>12. /\ ChargedTo(s)' = ChargedTo(s) \cup {c} /\ c \notin ChargedTo(s)
       /\ \A r \in ToolSessions : r # s => ChargedTo(r)' = ChargedTo(r) /\ c \notin ChargedTo(r)
  <2>1. \A r : ChargedTo(r)' = {b \in ToolCalls : toolCalls'[b].session = r}
    BY DEF ChargedTo
  <2>2. \A r \in ToolSessions : c \notin ChargedTo(r)
    BY <1>11, ProviderAssumption DEF ChargedTo
  <2>3. ChargedTo(s)' = ChargedTo(s) \cup {c}
    BY <1>8, <2>1 DEF ChargedTo
  <2>4. \A r \in ToolSessions : r # s => ChargedTo(r)' = ChargedTo(r)
    BY ProviderAssumption, <1>8, <1>11, <2>1 DEF ChargedTo
  <2> QED BY <2>2, <2>3, <2>4
<1>13. /\ Prices'[c] = price
       /\ \A b \in ToolCalls : b # c => Prices'[b] = Prices[b]
       /\ \A b \in ToolCalls : Prices[b] \in Nat /\ Prices'[b] \in Nat
  BY <1>2, <1>8, <1>9 DEF Prices, ProviderTyped
<1>14. \A r \in ToolSessions : IsFiniteSet(ChargedTo(r)) /\ ChargedTo(r) \subseteq ToolCalls
  BY <1>2 DEF CallsCounted, ChargedTo
<1>15. /\ IsFiniteSet(ChargedTo(s)')
       /\ SumFunctionOnSet(Prices', ChargedTo(s)') = price + SumFunctionOnSet(Prices, ChargedTo(s))
  <2> DEFINE S == ChargedTo(s)
             f == Prices'
             g == Prices
  <2>1. /\ IsFiniteSet(S) /\ c \notin S /\ (\A x \in S \cup {c} : f[x] \in Int)
        /\ (\A x \in S : g[x] = f[x]) /\ f[c] = price /\ ChargedTo(s)' = S \cup {c}
    BY <1>12, <1>13, <1>14
  <2> HIDE DEF S, f, g
  <2>2. IsFiniteSet(S \cup {c}) /\ SumFunctionOnSet(f, S \cup {c}) = f[c] + SumFunctionOnSet(g, S)
    BY <2>1, SumJoined
  <2>3. IsFiniteSet(ChargedTo(s)') /\ SumFunctionOnSet(f, ChargedTo(s)') = price + SumFunctionOnSet(g, S)
    BY <2>1, <2>2
  <2> QED BY <2>3 DEF S, f, g
<1>16. \A r \in ToolSessions : r # s =>
          SumFunctionOnSet(Prices', ChargedTo(r)') = SumFunctionOnSet(Prices, ChargedTo(r))
  <2> SUFFICES ASSUME NEW r \in ToolSessions, r # s
               PROVE  SumFunctionOnSet(Prices', ChargedTo(r)') = SumFunctionOnSet(Prices, ChargedTo(r))
    OBVIOUS
  <2> DEFINE S == ChargedTo(r)
             f == Prices'
             g == Prices
  <2>1. IsFiniteSet(S) /\ (\A x \in S : f[x] = g[x]) /\ ChargedTo(r)' = S
    BY <1>12, <1>13, <1>14
  <2> HIDE DEF S, f, g
  <2>2. SumFunctionOnSet(f, ChargedTo(r)') = SumFunctionOnSet(g, S)
    BY <2>1, SumSame
  <2> QED BY <2>2 DEF S, f, g
<1>17. CallsCounted'
  <2>1. \A r \in ToolSessions : IsFiniteSet(ChargedTo(r)')
    BY <1>12, <1>14, <1>15
  <2>2. \A b \in ToolCalls : toolCalls'[b].at = "idle" => toolCalls'[b].session = NoSession
    BY <1>2, <1>8 DEF CallsCounted
  <2> QED BY <2>1, <2>2 DEF CallsCounted
<1>18. \A r \in ToolSessions :
          /\ toolSessions'[r].spent = SumFunctionOnSet(Prices', ChargedTo(r)')
          /\ toolSessions'[r].spent <= SessionBudget
  <2>1. ASSUME NEW r \in ToolSessions, r # s
        PROVE  /\ toolSessions'[r].spent = SumFunctionOnSet(Prices', ChargedTo(r)')
               /\ toolSessions'[r].spent <= SessionBudget
    BY <1>2, <1>7, <1>16, <2>1 DEF SessionsBalance
  <2>2. toolSessions'[s].spent = SumFunctionOnSet(Prices', ChargedTo(s)') /\ toolSessions'[s].spent <= SessionBudget
    <3>1. looked.spent = SumFunctionOnSet(Prices, ChargedTo(s)) /\ looked.spent \in Nat
      BY <1>2, <1>4 DEF SessionsBalance
    <3>2. sum = looked.spent + price
      BY DEF sum
    <3>3. sum = SumFunctionOnSet(Prices', ChargedTo(s)') /\ sum <= SessionBudget
      BY <1>3, <1>4, <1>15, <3>1, <3>2
    <3> QED BY <1>7, <3>3
  <2> QED BY <2>1, <2>2
<1>19. \A b \in ToolCalls :
          toolCalls'[b].session # NoSession /\ toolCalls'[b].price # BasePrice
              => toolCalls'[b].among > SurgeThreshold
  BY <1>2, <1>3, <1>8 DEF SessionsBalance
<1>20. SessionsBalance'
  BY <1>5, <1>18, <1>19 DEF SessionsBalance
<1> QED BY <1>10, <1>17, <1>20 DEF ProvidedInv

\* Every operation keeps it.
LEMMA ProvidedStep == ProvidedInv /\ [ProviderNext]_providerVars => ProvidedInv'
<1> SUFFICES ASSUME ProvidedInv, [ProviderNext]_providerVars PROVE ProvidedInv'
  OBVIOUS
<1>0. ProviderTyped /\ toolNow \in Nat
  BY DEF ProvidedInv, ProviderTyped
<1>1. ASSUME NEW s \in ToolSessions, CreateSession(s) PROVE ProvidedInv'
  <2> DEFINE until == toolNow + SessionTtl
  <2>1. until \in Nat
    BY <1>0, ProviderAssumption
  <2>2. /\ toolSessions' = [toolSessions EXCEPT ![s].status = "active", ![s].until = until]
        /\ UNCHANGED <<toolNow, toolCalls, lateCharges>>
    BY <1>1 DEF CreateSession
  <2> HIDE DEF until
  <2>3. /\ toolSessions' \in [ToolSessions -> [status : Statuses \cup {"none"}, spent : Nat, until : Nat]]
        /\ \A r \in ToolSessions : toolSessions'[r].spent = toolSessions[r].spent
    BY <1>0, <2>1, <2>2, ZenonT(30) DEF ProviderTyped, Statuses
  <2> QED BY <1>0, <2>2, <2>3, LookingKeeps
<1>2. ASSUME NEW s \in ToolSessions, SettleSession(s) PROVE ProvidedInv'
  <2>1. /\ toolSessions' \in [ToolSessions -> [status : Statuses \cup {"none"}, spent : Nat, until : Nat]]
        /\ \A r \in ToolSessions : toolSessions'[r].spent = toolSessions[r].spent
    BY <1>0, <1>2 DEF SettleSession, ProviderTyped, Statuses
  <2> QED BY <1>0, <1>2, <2>1, LookingKeeps DEF SettleSession
<1>3. \A s \in ToolSessions :
         LET after == [toolSessions EXCEPT ![s] = Looked(s)]
         IN  /\ after \in [ToolSessions -> [status : Statuses \cup {"none"}, spent : Nat, until : Nat]]
             /\ \A r \in ToolSessions : after[r].spent = toolSessions[r].spent
  BY <1>0, LookedKeeps DEF ProviderTyped
<1>4. ASSUME NEW s \in ToolSessions, LookAtSession(s) PROVE ProvidedInv'
  BY <1>0, <1>3, <1>4, LookingKeeps DEF LookAtSession
<1>5. \A s \in ToolSessions \cup {NoSession} :
         /\ AfterRefusal(s).sessions \in [ToolSessions -> [status : Statuses \cup {"none"}, spent : Nat, until : Nat]]
         /\ \A r \in ToolSessions : AfterRefusal(s).sessions[r].spent = toolSessions[r].spent
  BY <1>0, <1>3 DEF AfterRefusal, ProviderTyped
<1>6. ASSUME NEW c \in ToolCalls, NEW s \in ToolSessions \cup {NoSession}, TakeProof(c, s) \/ Challenge402(c, s)
      PROVE  ProvidedInv'
  <2>1. PICK at \in {"running", "402"} : toolCalls' = [toolCalls EXCEPT ![c].at = at]
    BY <1>6 DEF TakeProof, Challenge402
  <2>2. toolSessions' = AfterRefusal(s).sessions /\ lateCharges' = lateCharges /\ toolNow' = toolNow
    BY <1>6 DEF TakeProof, Challenge402
  <2> QED BY <1>5, <2>1, <2>2, StandingKeeps
<1>7. ASSUME NEW c \in ToolCalls, ToolEnds(c) PROVE ProvidedInv'
  <2>1. PICK at \in {"200", "500"} : toolCalls' = [toolCalls EXCEPT ![c].at = at]
    BY <1>7 DEF ToolEnds
  <2>2. toolSessions' = toolSessions /\ lateCharges' = lateCharges /\ toolNow' = toolNow
    BY <1>7 DEF ToolEnds
  <2>3. toolSessions \in [ToolSessions -> [status : Statuses \cup {"none"}, spent : Nat, until : Nat]]
    BY <1>0 DEF ProviderTyped
  <2> QED BY <2>1, <2>2, <2>3, StandingKeeps
<1>8. ASSUME ToolTick \/ UNCHANGED providerVars PROVE ProvidedInv'
  <2>1. toolNow' \in Nat /\ toolCalls' = toolCalls /\ toolSessions' = toolSessions /\ lateCharges' = lateCharges
    BY <1>0, <1>8 DEF ToolTick, providerVars
  <2> QED BY <1>0, <2>1, LookingKeeps DEF ProviderTyped
<1> QED BY <1>1, <1>2, <1>4, <1>6, <1>7, <1>8, ChargingKeeps DEF ProviderNext

\* Whatever the prices, the window and the budget, and however many calls and
\* sessions there are: charge() of SessionManager (agent/session.ts) never lets
\* the books of a session and what its calls were charged disagree.
THEOREM SessionsAlwaysBalance == ProviderSpec => []SessionsBalance
<1>1. ProvidedInv => SessionsBalance
  BY DEF ProvidedInv
<1> QED BY <1>1, ProvidedInitially, ProvidedStep, PTL DEF ProviderSpec

-------------------------------------------------------------------------------
(* Delegation.                                                             *)

\* What each context holds.
Holdings == [x \in Contexts |-> contexts[x].remaining]

\* The tree: finitely many contexts are made, each below one that is made.
TreeKept ==
    /\ IsFiniteSet(Made)
    /\ \A x \in Made : contexts[x].parent \subseteq Made
    /\ \A x \in Contexts \ Made : passedOn[x] = 0

\* What was handed down, spent and kept is the root's budget.
BudgetKept ==
    SumFunctionOnSet(Holdings, Made) + SumFunctionOnSet(passedOn, Made)
        = IF Made = {} THEN 0 ELSE RootBudget

\* Each context accounts for what it was given.
SharesKept ==
    \A x \in Made : contexts[x].total = contexts[x].remaining + passedOn[x]
                                           + SumFunctionOnSet(Shares, Children(x))

\* No hop took more than its share.
HopsKept ==
    \A x \in Made : \A y \in Children(x) :
        /\ contexts[y].total * 100 <= contexts[x].total * HopPercent
        /\ contexts[y].depth <= MaxDepth

\* What the delegation never breaks.
NestInv == DelegationTypeOK /\ TreeKept /\ BudgetKept /\ SharesKept /\ HopsKept

\* Of the larger part as many hundredths are more.
LEMMA MoreOfMore == ASSUME NEW a \in Nat, NEW b \in Nat, NEW h \in Nat, a <= b PROVE a * h <= b * h
<1>1. PICK d \in Nat : d = b - a
  OBVIOUS
<1>2. b * h = a * h + d * h
  BY <1>1
<1>3. d * h \in Nat /\ a * h \in Nat
  OBVIOUS
<1> QED BY <1>2, <1>3

\* The nesting is a part of the invariant.
LEMMA NestInvNests == NestInv => BudgetsNest
<1> SUFFICES ASSUME NestInv PROVE BudgetsNest
  OBVIOUS
<1>1. IsFiniteSet(Made) /\ Made \subseteq Contexts /\ RootBudget \in Nat
  BY DelegationAssumption DEF NestInv, TreeKept, Made
<1>2. (\A x \in Made : Holdings[x] \in Nat) /\ \A x \in Made : passedOn[x] \in Nat
  BY <1>1 DEF NestInv, DelegationTypeOK, Holdings
<1> DEFINE H == Holdings
           P == passedOn
           M == Made
<1> HIDE DEF H, P, M
<1>3. SumFunctionOnSet(H, M) \in Nat /\ SumFunctionOnSet(P, M) \in Nat
  <2>1. IsFiniteSet(M) /\ (\A x \in M : H[x] \in Nat) /\ \A x \in M : P[x] \in Nat
    BY <1>1, <1>2 DEF H, P, M
  <2> QED BY <2>1, SumGrows
<1>4. SumFunctionOnSet(H, M) + SumFunctionOnSet(P, M) = IF M = {} THEN 0 ELSE RootBudget
  BY DEF NestInv, BudgetKept, H, P, M
<1>5. SumFunctionOnSet(P, M) <= RootBudget
  BY <1>1, <1>3, <1>4
<1>6. SumFunctionOnSet(passedOn, Made) <= RootBudget
  BY <1>5 DEF P, M
<1> QED BY <1>6 DEF BudgetsNest, NestInv, SharesKept, HopsKept

\* What a context holds is no more than it was given.
LEMMA HeldWithinShare ==
  ASSUME NestInv, NEW x \in Made
  PROVE  /\ contexts[x].remaining \in Nat /\ contexts[x].total \in Nat
         /\ contexts[x].remaining <= contexts[x].total
         /\ IsFiniteSet(Children(x)) /\ SumFunctionOnSet(Shares, Children(x)) \in Nat
<1>1. x \in Contexts /\ contexts[x].remaining \in Nat /\ contexts[x].total \in Nat /\ passedOn[x] \in Nat
  BY DEF NestInv, DelegationTypeOK, Made
<1>2. IsFiniteSet(Children(x))
  BY FS_Subset DEF NestInv, TreeKept, Children
<1>3. \A y \in Children(x) : Shares[y] \in Nat
  BY DEF NestInv, DelegationTypeOK, Children, Made, Shares
<1>4. SumFunctionOnSet(Shares, Children(x)) \in Nat
  BY <1>2, <1>3, SumGrows
<1>5. contexts[x].total = contexts[x].remaining + passedOn[x] + SumFunctionOnSet(Shares, Children(x))
  BY DEF NestInv, SharesKept
<1> QED BY <1>1, <1>2, <1>4, <1>5

\* At first there is no context.
LEMMA NestInitially == DelegationInit => NestInv
<1> SUFFICES ASSUME DelegationInit PROVE NestInv
  OBVIOUS
<1>1. Made = {}
  BY DEF DelegationInit, Made, Unmade
<1>2. IsFiniteSet({}) /\ SumFunctionOnSet(Holdings, {}) = 0 /\ SumFunctionOnSet(passedOn, {}) = 0
  BY FS_EmptySet, SumZero
<1>3. DelegationTypeOK
  BY DelegationAssumption DEF DelegationInit, DelegationTypeOK, Unmade
<1>4. TreeKept
  BY <1>1, <1>2 DEF TreeKept, DelegationInit
<1>5. BudgetKept
  BY <1>1, <1>2 DEF BudgetKept
<1>6. SharesKept /\ HopsKept
  BY <1>1 DEF SharesKept, HopsKept
<1> QED BY <1>3, <1>4, <1>5, <1>6 DEF NestInv

\* The first context takes the whole budget.
LEMMA RootKeeps ==
  ASSUME NestInv, NEW x \in Contexts, CreateRoot(x)
  PROVE  NestInv'
<1> DEFINE root == [made |-> TRUE, depth |-> 0, total |-> RootBudget, remaining |-> RootBudget, parent |-> {}]
<1>1. /\ Made = {} /\ passedOn' = passedOn
      /\ contexts' = [contexts EXCEPT ![x] = root]
  BY DEF CreateRoot
<1>2. /\ DelegationTypeOK /\ \A y \in Contexts : passedOn[y] = 0 /\ ~ contexts[y].made
  BY <1>1 DEF NestInv, TreeKept, Made
<1>3. /\ contexts' = [y \in Contexts |-> IF y = x THEN root ELSE contexts[y]]
      /\ contexts'[x] = root
  BY <1>1, <1>2 DEF DelegationTypeOK
<1>4. DelegationTypeOK'
  <2>1. root \in [made : BOOLEAN, depth : 0..MaxDepth, total : Nat, remaining : Nat, parent : SUBSET Contexts]
    BY DelegationAssumption
  <2> HIDE DEF root
  <2> QED BY <1>1, <1>2, <1>3, <2>1 DEF DelegationTypeOK
<1>5. Made' = {x}
  BY <1>2, <1>3 DEF Made
<1>6. \A y : Children(y)' = {}
  BY <1>3, <1>5 DEF Children
<1>7. IsFiniteSet({x}) /\ {x} \ {x} = {}
  BY FS_Singleton
<1>8. \A f : f[x] \in Int => SumFunctionOnSet(f, {x}) = f[x]
  <2> SUFFICES ASSUME NEW f, f[x] \in Int PROVE SumFunctionOnSet(f, {x}) = f[x]
    OBVIOUS
  <2>1. SumFunctionOnSet(f, {x}) = f[x] + SumFunctionOnSet(f, {x} \ {x})
    BY <1>7, SumSplit
  <2>2. SumFunctionOnSet(f, {}) = 0
    BY FS_EmptySet, SumZero
  <2>3. SumFunctionOnSet(f, {x} \ {x}) = 0
    BY <1>7, <2>2
  <2> QED BY <2>1, <2>3
<1>9. TreeKept'
  <2>1. \A y \in Made' : contexts'[y].parent \subseteq Made'
    BY <1>3, <1>5
  <2>2. IsFiniteSet(Made')
    BY <1>5, <1>7
  <2>3. \A y \in Contexts \ Made' : passedOn'[y] = 0
    BY <1>1, <1>2
  <2> QED BY <2>1, <2>2, <2>3 DEF TreeKept
<1>10. BudgetKept'
  <2>1. Holdings'[x] = RootBudget /\ passedOn'[x] = 0 /\ RootBudget \in Nat
    BY <1>1, <1>2, <1>3, DelegationAssumption DEF Holdings
  <2>2. SumFunctionOnSet(Holdings', {x}) = RootBudget /\ SumFunctionOnSet(passedOn', {x}) = 0
    BY <1>8, <2>1
  <2>3. Made' # {}
    BY <1>5
  <2>4. SumFunctionOnSet(Holdings', Made') = RootBudget /\ SumFunctionOnSet(passedOn', Made') = 0
    BY <1>5, <2>2
  <2> QED BY <2>1, <2>3, <2>4 DEF BudgetKept
<1>11. SharesKept'
  <2>1. \A f : SumFunctionOnSet(f, {}) = 0
    BY FS_EmptySet, SumZero
  <2>2. contexts'[x].total = RootBudget /\ contexts'[x].remaining = RootBudget /\ passedOn'[x] = 0 /\ RootBudget \in Nat
    BY <1>1, <1>2, <1>3, DelegationAssumption
  <2>3. SumFunctionOnSet(Shares', Children(x)') = 0
    BY <1>6, <2>1
  <2>4. contexts'[x].total = contexts'[x].remaining + passedOn'[x] + SumFunctionOnSet(Shares', Children(x)')
    BY <2>2, <2>3
  <2> QED BY <1>5, <2>4 DEF SharesKept
<1>12. HopsKept'
  BY <1>6 DEF HopsKept
<1> QED BY <1>4, <1>9, <1>10, <1>11, <1>12 DEF NestInv

\* What is spent leaves the holder and is counted as spent.
LEMMA SpendingKeeps ==
  ASSUME NestInv, NEW x \in Contexts, NEW amount \in Nat, SpendDelegated(x, amount)
  PROVE  NestInv'
<1> DEFINE left == contexts[x].remaining - amount
           spent == passedOn[x] + amount
<1>1. /\ x \in Made /\ left \in Nat /\ spent \in Nat
      /\ contexts[x].remaining = left + amount /\ contexts[x].remaining \in Nat /\ passedOn[x] \in Nat
  BY DEF SpendDelegated, NestInv, DelegationTypeOK
<1>2. /\ contexts' = [contexts EXCEPT ![x].remaining = left]
      /\ passedOn' = [passedOn EXCEPT ![x] = spent]
  BY DEF SpendDelegated
<1>3. spent = passedOn[x] + amount
  OBVIOUS
<1>4. DelegationTypeOK
  BY DEF NestInv
<1> HIDE DEF left, spent
<1>5. DelegationTypeOK'
  BY <1>1, <1>2, <1>4 DEF DelegationTypeOK
<1>6. /\ contexts'[x].remaining = left /\ passedOn'[x] = spent
      /\ \A y \in Contexts : y # x => contexts'[y] = contexts[y] /\ passedOn'[y] = passedOn[y]
      /\ \A y \in Contexts : /\ contexts'[y].made = contexts[y].made
                              /\ contexts'[y].depth = contexts[y].depth
                              /\ contexts'[y].total = contexts[y].total
                              /\ contexts'[y].parent = contexts[y].parent
  BY <1>1, <1>2, <1>4 DEF DelegationTypeOK
<1>7. Made' = Made
  BY <1>6 DEF Made
<1>8. \A y : Children(y)' = Children(y)
  BY <1>6, <1>7 DEF Children, Made
<1>9. Shares' = Shares
  BY <1>6 DEF Shares
<1>10. Made \subseteq Contexts /\ IsFiniteSet(Made)
  BY DEF Made, NestInv, TreeKept
<1>11. TreeKept'
  <2>1. TreeKept BY DEF NestInv
  <2> QED BY <1>1, <1>6, <1>7, <1>10, <2>1 DEF TreeKept
<1>12. BudgetKept'
  <2> DEFINE M == Made
             H == Holdings
             I == Holdings'
             P == passedOn
             Q == passedOn'
  <2>1. /\ x \in M /\ IsFiniteSet(M)
        /\ (\A y \in M : H[y] \in Int) /\ (\A y \in M : I[y] \in Int)
        /\ (\A y \in M : P[y] \in Int) /\ (\A y \in M : Q[y] \in Int)
        /\ (\A y \in M : y # x => H[y] = I[y]) /\ (\A y \in M : y # x => P[y] = Q[y])
        /\ H[x] = left + amount /\ I[x] = left /\ Q[x] = P[x] + amount
    <3>1. \A y \in Contexts : /\ Holdings[y] = contexts[y].remaining
                              /\ Holdings'[y] = contexts'[y].remaining
      BY DEF Holdings
    <3>2. \A y \in Contexts : /\ contexts[y].remaining \in Nat /\ contexts'[y].remaining \in Nat
                              /\ passedOn[y] \in Nat /\ passedOn'[y] \in Nat
      BY <1>4, <1>5 DEF DelegationTypeOK
    <3> QED BY <1>1, <1>3, <1>6, <1>10, <3>1, <3>2
  <2>2. SumFunctionOnSet(H, M) + SumFunctionOnSet(P, M) = IF M = {} THEN 0 ELSE RootBudget
    BY DEF NestInv, BudgetKept
  <2> HIDE DEF M, H, I, P, Q
  <2>3. /\ SumFunctionOnSet(H, M) \in Int /\ SumFunctionOnSet(I, M) \in Int
        /\ SumFunctionOnSet(I, M) = SumFunctionOnSet(H, M) + (I[x] - H[x])
    <3>1. IsFiniteSet(M) BY <2>1
    <3>2. x \in M BY <2>1
    <3>3. \A y \in M : H[y] \in Int BY <2>1
    <3>4. \A y \in M : I[y] \in Int BY <2>1
    <3>5. \A y \in M : y # x => H[y] = I[y] BY <2>1
    <3>6. SumFunctionOnSet(H, M) \in Int BY <3>1, <3>3, SumInt
    <3>7. SumFunctionOnSet(I, M) = SumFunctionOnSet(H, M) + (I[x] - H[x])
      BY ONLY <3>1, <3>2, <3>3, <3>4, <3>5, SumChange
    <3>8. SumFunctionOnSet(I, M) \in Int BY <3>1, <3>4, SumInt
    <3> QED BY <3>6, <3>7, <3>8
  <2>4. /\ SumFunctionOnSet(P, M) \in Int /\ SumFunctionOnSet(Q, M) \in Int
        /\ SumFunctionOnSet(Q, M) = SumFunctionOnSet(P, M) + (Q[x] - P[x])
    <3>1. IsFiniteSet(M) BY <2>1
    <3>2. x \in M BY <2>1
    <3>3. \A y \in M : P[y] \in Int BY <2>1
    <3>4. \A y \in M : Q[y] \in Int BY <2>1
    <3>5. \A y \in M : y # x => P[y] = Q[y] BY <2>1
    <3>6. SumFunctionOnSet(P, M) \in Int BY <3>1, <3>3, SumInt
    <3>7. SumFunctionOnSet(Q, M) = SumFunctionOnSet(P, M) + (Q[x] - P[x])
      BY ONLY <3>1, <3>2, <3>3, <3>4, <3>5, SumChange
    <3>8. SumFunctionOnSet(Q, M) \in Int BY <3>1, <3>4, SumInt
    <3> QED BY <3>6, <3>7, <3>8
  <2>5. I[x] - H[x] = 0 - amount /\ Q[x] - P[x] = amount
    <3>1. P[x] \in Int BY <2>1
    <3> QED BY <1>1, <2>1, <3>1
  <2>6. SumFunctionOnSet(I, M) + SumFunctionOnSet(Q, M) = SumFunctionOnSet(H, M) + SumFunctionOnSet(P, M)
    BY <2>3, <2>4, <2>5
  <2>7. SumFunctionOnSet(I, M) + SumFunctionOnSet(Q, M) = IF M = {} THEN 0 ELSE RootBudget
    BY <2>2, <2>6
  <2>8. SumFunctionOnSet(Holdings', Made) + SumFunctionOnSet(passedOn', Made) = IF Made = {} THEN 0 ELSE RootBudget
    BY <2>7 DEF M, I, Q
  <2> QED BY <1>7, <2>8 DEF BudgetKept
<1>13. SharesKept'
  <2>1. \A y \in Made : contexts[y].total = contexts[y].remaining + passedOn[y]
                                               + SumFunctionOnSet(Shares, Children(y))
    BY DEF NestInv, SharesKept
  <2>2. ASSUME NEW y \in Made
        PROVE  contexts'[y].total = contexts'[y].remaining + passedOn'[y] + SumFunctionOnSet(Shares', Children(y)')
    <3>1. SumFunctionOnSet(Shares', Children(y)') = SumFunctionOnSet(Shares, Children(y))
      BY <1>8, <1>9, Zenon
    <3>2. SumFunctionOnSet(Shares, Children(y)) \in Nat
      BY HeldWithinShare
    <3>3. y \in Contexts /\ contexts'[y].total = contexts[y].total
      BY <1>6, <1>10
    <3>4. contexts'[y].remaining + passedOn'[y] = contexts[y].remaining + passedOn[y]
      BY <1>1, <1>3, <1>6, <3>3
    <3> QED BY <2>1, <3>1, <3>2, <3>3, <3>4
  <2> QED BY <1>7, <2>2 DEF SharesKept
<1>14. HopsKept'
  <2>1. HopsKept BY DEF NestInv
  <2>2. \A y \in Made : Children(y) \subseteq Contexts
    BY <1>10 DEF Children
  <2>3. \A y \in Made : \A z \in Children(y) :
           /\ contexts'[z].total * 100 <= contexts'[y].total * HopPercent /\ contexts'[z].depth <= MaxDepth
    BY <1>6, <1>10, <2>1, <2>2 DEF HopsKept
  <2> QED BY <1>7, <1>8, <2>3 DEF HopsKept
<1> QED BY <1>5, <1>11, <1>12, <1>13, <1>14 DEF NestInv

\* What is handed down leaves the holder and is the new context's.
LEMMA DelegatingKeeps ==
  ASSUME NestInv, NEW x \in Contexts, NEW y \in Contexts, NEW amount \in Nat, Delegate(x, y, amount)
  PROVE  NestInv'
<1> DEFINE left == contexts[x].remaining - amount
           depth == contexts[x].depth + 1
           child == [made |-> TRUE, depth |-> depth, total |-> amount, remaining |-> amount, parent |-> {x}]
<1>1. /\ x \in Made /\ y \notin Made /\ x # y /\ contexts[x].depth < MaxDepth
      /\ amount * 100 <= contexts[x].remaining * HopPercent /\ amount <= contexts[x].remaining
      /\ contexts' = [contexts EXCEPT ![x].remaining = left, ![y] = child]
      /\ passedOn' = passedOn
  BY DEF Delegate, HopAllows
<1>2. DelegationTypeOK /\ TreeKept /\ BudgetKept /\ SharesKept /\ HopsKept
  BY DEF NestInv
<1>3. /\ left \in Nat /\ contexts[x].remaining = left + amount /\ contexts[x].remaining \in Nat
      /\ depth \in 0..MaxDepth /\ contexts[y].made = FALSE /\ passedOn[y] = 0
      /\ contexts[x].made = TRUE
  <2>1. contexts[x].depth \in 0..MaxDepth /\ contexts[x].remaining \in Nat /\ MaxDepth \in Nat
    BY <1>2, DelegationAssumption DEF DelegationTypeOK
  <2>2. left \in Nat /\ contexts[x].remaining = left + amount /\ depth \in 0..MaxDepth
    BY <1>1, <2>1
  <2>3. contexts[y].made \in BOOLEAN /\ contexts[x].made \in BOOLEAN
    BY <1>2 DEF DelegationTypeOK
  <2> QED BY <1>1, <1>2, <2>1, <2>2, <2>3 DEF Made, TreeKept
<1>4. child \in [made : BOOLEAN, depth : 0..MaxDepth, total : Nat, remaining : Nat, parent : SUBSET Contexts]
  BY <1>3
<1> HIDE DEF left, depth
<1>5. /\ child.made = TRUE /\ child.depth = depth /\ child.total = amount /\ child.remaining = amount
      /\ child.parent = {x}
  OBVIOUS
<1> HIDE DEF child
<1>6. DelegationTypeOK' /\ contexts' \in [Contexts -> [made : BOOLEAN, depth : 0..MaxDepth, total : Nat,
                                                      remaining : Nat, parent : SUBSET Contexts]]
  BY <1>1, <1>2, <1>3, <1>4 DEF DelegationTypeOK
<1>7. /\ contexts'[y] = child
      /\ contexts'[x].remaining = left
      /\ \A z \in Contexts : z # x /\ z # y => contexts'[z] = contexts[z]
      /\ \A z \in Contexts : z # y => /\ contexts'[z].made = contexts[z].made
                                      /\ contexts'[z].depth = contexts[z].depth
                                      /\ contexts'[z].total = contexts[z].total
                                      /\ contexts'[z].parent = contexts[z].parent
  BY <1>1, <1>2, <1>3 DEF DelegationTypeOK
<1>8. /\ Made' = Made \cup {y} /\ Made \subseteq Contexts /\ IsFiniteSet(Made)
      /\ IsFiniteSet(Made \cup {y})
  <2>1. Made' = Made \cup {y}
    BY <1>5, <1>7 DEF Made
  <2> QED BY <1>2, <2>1, FS_AddElement DEF Made, TreeKept
<1>9. /\ Children(x)' = Children(x) \cup {y} /\ Children(y)' = {}
      /\ \A z \in Made : y \notin Children(z) /\ (z # x => Children(z)' = Children(z))
  <2>1. \A z : Children(z)' = {w \in Made \cup {y} : contexts'[w].parent = {z}}
    BY <1>8 DEF Children
  <2>2. \A w \in Made : w # y /\ contexts'[w].parent = contexts[w].parent /\ contexts[w].parent \subseteq Made
    BY <1>1, <1>2, <1>7, <1>8 DEF TreeKept
  <2>3. contexts'[y].parent = {x}
    BY <1>5, <1>7
  <2>4. Children(x)' = Children(x) \cup {y}
    BY <2>1, <2>2, <2>3, ZenonT(30) DEF Children
  <2>5. Children(y)' = {}
    <3>1. \A w \in Made : contexts'[w].parent # {y}
      BY <1>1, <2>2
    <3>2. contexts'[y].parent # {y}
      BY <1>1, <2>3
    <3> QED BY <2>1, <3>1, <3>2
  <2>6. ASSUME NEW z \in Made, z # x PROVE Children(z)' = Children(z)
    <3>1. {w \in Made \cup {y} : contexts'[w].parent = {z}} = {w \in Made : contexts[w].parent = {z}}
      BY <2>2, <2>3, <2>6
    <3> QED BY ONLY <2>1, <3>1, ZenonT(30) DEF Children
  <2> QED BY <1>1, <2>4, <2>5, <2>6 DEF Children
<1>10. TreeKept'
  <2>1. \A z \in Made' : contexts'[z].parent \subseteq Made'
    <3>1. \A z \in Made : contexts'[z].parent = contexts[z].parent /\ contexts[z].parent \subseteq Made
      BY <1>1, <1>2, <1>7, <1>8 DEF TreeKept
    <3>2. contexts'[y].parent = {x}
      BY <1>5, <1>7
    <3> QED BY <1>1, <1>8, <3>1, <3>2
  <2>2. \A z \in Contexts \ Made' : passedOn'[z] = 0
    BY <1>1, <1>2, <1>8 DEF TreeKept
  <2> QED BY <1>8, <2>1, <2>2 DEF TreeKept
<1>11. BudgetKept'
  <2> DEFINE M == Made
             N == Made \cup {y}
             H == Holdings
             I == Holdings'
             P == passedOn
  <2>1. \A z \in Contexts : /\ H[z] = contexts[z].remaining /\ I[z] = contexts'[z].remaining
                            /\ H[z] \in Nat /\ I[z] \in Nat /\ P[z] \in Nat
    <3>1. \A z \in Contexts : H[z] = contexts[z].remaining /\ I[z] = contexts'[z].remaining
      BY DEF Holdings
    <3>2. \A z \in Contexts : /\ contexts[z].remaining \in Nat /\ contexts'[z].remaining \in Nat
                              /\ passedOn[z] \in Nat
      BY <1>2, <1>6 DEF DelegationTypeOK
    <3> QED BY <3>1, <3>2
  <2>2. /\ H[x] = left + amount /\ I[x] = left /\ I[y] = amount /\ P[y] = 0
        /\ \A z \in M : z # x => H[z] = I[z]
    <3>1. H[x] = left + amount /\ I[x] = left
      BY <1>3, <1>7, <2>1
    <3>2. I[y] = amount /\ P[y] = 0
      BY <1>3, <1>5, <1>7, <2>1
    <3>3. \A z \in M : z # x => H[z] = I[z]
      <4>1. \A z \in M : z \in Contexts /\ z # y
        BY <1>1, <1>8
      <4> QED BY <1>7, <2>1, <4>1
    <3> QED BY <3>1, <3>2, <3>3
  <2>3. SumFunctionOnSet(H, M) + SumFunctionOnSet(P, M) = RootBudget
    BY <1>1, <1>2 DEF BudgetKept
  <2>4. IsFiniteSet(M) /\ x \in M /\ y \notin M /\ M \subseteq Contexts /\ N = M \cup {y}
    BY <1>1, <1>8
  <2> HIDE DEF M, N, H, I, P
  <2>5. /\ \A z \in M : H[z] \in Int
        /\ \A z \in M \cup {y} : I[z] \in Int
        /\ \A z \in M \cup {y} : P[z] \in Int
    BY <2>1, <2>4
  <2>6. SumFunctionOnSet(H, M) \in Int /\ SumFunctionOnSet(P, M) \in Int /\ SumFunctionOnSet(I, M) \in Int
    BY <2>4, <2>5, SumInt
  <2>7. SumFunctionOnSet(I, M) = SumFunctionOnSet(H, M) + (I[x] - H[x])
    <3>1. IsFiniteSet(M) BY <2>4
    <3>2. x \in M BY <2>4
    <3>3. \A z \in M : H[z] \in Int BY <2>5
    <3>4. \A z \in M : I[z] \in Int BY <2>5
    <3>5. \A z \in M : z # x => H[z] = I[z] BY <2>2
    <3> QED BY ONLY <3>1, <3>2, <3>3, <3>4, <3>5, SumChange
  <2>8. SumFunctionOnSet(I, N) = I[y] + SumFunctionOnSet(I, M)
    BY <2>4, <2>5, SumJoined
  <2>9. SumFunctionOnSet(P, N) = P[y] + SumFunctionOnSet(P, M)
    BY <2>4, <2>5, SumJoined
  <2>10. I[x] - H[x] = 0 - amount
    BY <1>3, <2>2
  <2>11. SumFunctionOnSet(I, N) = SumFunctionOnSet(H, M)
    BY <2>2, <2>6, <2>7, <2>8, <2>10
  <2>12. SumFunctionOnSet(P, N) = SumFunctionOnSet(P, M)
    BY <2>2, <2>6, <2>9
  <2>13. SumFunctionOnSet(I, N) + SumFunctionOnSet(P, N) = RootBudget
    BY <2>3, <2>11, <2>12
  <2>14. SumFunctionOnSet(Holdings', Made \cup {y}) + SumFunctionOnSet(passedOn, Made \cup {y}) = RootBudget
    BY <2>13 DEF N, I, P
  <2> QED BY <1>1, <1>8, <2>14 DEF BudgetKept
<1>12. /\ \A z \in Contexts : Shares[z] \in Nat /\ Shares'[z] \in Nat
       /\ \A z \in Contexts : z # y => Shares'[z] = Shares[z]
       /\ Shares'[y] = amount
  <2>1. \A z \in Contexts : contexts[z].total \in Nat /\ contexts'[z].total \in Nat
    BY <1>2, <1>6 DEF DelegationTypeOK
  <2> QED BY <1>5, <1>7, <2>1 DEF Shares
<1>13. \A z \in Made : Children(z) \subseteq Contexts /\ IsFiniteSet(Children(z))
                       /\ SumFunctionOnSet(Shares, Children(z)) \in Nat
  BY <1>8, HeldWithinShare DEF Children
<1>14. \A z \in Made : z # x => SumFunctionOnSet(Shares', Children(z)') = SumFunctionOnSet(Shares, Children(z))
  <2> SUFFICES ASSUME NEW z \in Made, z # x
               PROVE  SumFunctionOnSet(Shares', Children(z)') = SumFunctionOnSet(Shares, Children(z))
    OBVIOUS
  <2> DEFINE C == Children(z)
             f == Shares
             g == Shares'
  <2>1. IsFiniteSet(C) /\ (\A w \in C : g[w] = f[w]) /\ Children(z)' = C
    BY <1>9, <1>12, <1>13
  <2> HIDE DEF C, f, g
  <2>2. SumFunctionOnSet(g, Children(z)') = SumFunctionOnSet(f, C)
    BY <2>1, SumSame
  <2> QED BY <2>2 DEF C, f, g
<1>15. SumFunctionOnSet(Shares', Children(x)') = amount + SumFunctionOnSet(Shares, Children(x))
  <2> DEFINE C == Children(x)
             f == Shares'
             g == Shares
  <2>1. /\ IsFiniteSet(C) /\ y \notin C /\ (\A w \in C \cup {y} : f[w] \in Int)
        /\ (\A w \in C : g[w] = f[w]) /\ Children(x)' = C \cup {y} /\ f[y] = amount
    <3>1. C \subseteq Contexts /\ IsFiniteSet(C) /\ y \notin C /\ Children(x)' = C \cup {y}
      BY <1>1, <1>9, <1>13
    <3> QED BY <1>12, <3>1
  <2> HIDE DEF C, f, g
  <2>2. SumFunctionOnSet(f, C \cup {y}) = f[y] + SumFunctionOnSet(g, C)
    <3>1. IsFiniteSet(C) BY <2>1
    <3>2. y \notin C BY <2>1
    <3>3. \A w \in C \cup {y} : f[w] \in Int BY <2>1
    <3>4. \A w \in C : g[w] = f[w] BY <2>1
    <3> QED BY ONLY <3>1, <3>2, <3>3, <3>4, SumJoined
  <2>3. SumFunctionOnSet(f, Children(x)') = amount + SumFunctionOnSet(g, C)
    BY <2>1, <2>2
  <2> QED BY <2>3 DEF C, f, g
<1>16. SharesKept'
  <2>1. ASSUME NEW z \in Made, z # x
        PROVE  contexts'[z].total = contexts'[z].remaining + passedOn'[z] + SumFunctionOnSet(Shares', Children(z)')
    <3>1. z \in Contexts /\ contexts'[z] = contexts[z]
      BY <1>1, <1>7, <1>8, <2>1
    <3> QED BY <1>1, <1>2, <1>14, <2>1, <3>1 DEF SharesKept
  <2>2. contexts'[x].total = contexts'[x].remaining + passedOn'[x] + SumFunctionOnSet(Shares', Children(x)')
    <3> DEFINE s == SumFunctionOnSet(Shares, Children(x))
               t == SumFunctionOnSet(Shares', Children(x)')
               p == passedOn[x]
    <3>1. s \in Nat /\ t = amount + s /\ p \in Nat
      BY <1>1, <1>2, <1>13, <1>15 DEF DelegationTypeOK
    <3>2. contexts[x].total = contexts[x].remaining + p + s
      BY <1>1, <1>2 DEF SharesKept
    <3>3. contexts'[x].total = contexts[x].total /\ contexts'[x].remaining = left /\ passedOn'[x] = p
      BY <1>1, <1>7
    <3> HIDE DEF s, t, p
    <3>4. contexts[x].total = left + p + t
      BY <1>3, <3>1, <3>2
    <3>5. contexts'[x].total = contexts'[x].remaining + passedOn'[x] + t
      BY <3>3, <3>4
    <3> QED BY <3>5 DEF t
  <2>3. contexts'[y].total = contexts'[y].remaining + passedOn'[y] + SumFunctionOnSet(Shares', Children(y)')
    <3>1. SumFunctionOnSet(Shares', {}) = 0
      BY FS_EmptySet, SumZero
    <3>2. SumFunctionOnSet(Shares', Children(y)') = 0
      BY <1>9, <3>1
    <3>3. contexts'[y].total = amount /\ contexts'[y].remaining = amount /\ passedOn'[y] = 0
      BY <1>1, <1>3, <1>5, <1>7
    <3> QED BY <3>2, <3>3
  <2> QED BY <1>8, <2>1, <2>2, <2>3 DEF SharesKept
<1>17. HopsKept'
  <2>1. \A z \in Made : \A w \in Children(z) :
           /\ contexts'[w].total * 100 <= contexts'[z].total * HopPercent /\ contexts'[w].depth <= MaxDepth
    <3>1. \A z \in Made : z \in Contexts /\ z # y /\ \A w \in Children(z) : w \in Contexts /\ w # y
      BY <1>1, <1>8, <1>9, <1>13
    <3> QED BY <1>2, <1>7, <3>1 DEF HopsKept
  <2>2. contexts'[y].total * 100 <= contexts'[x].total * HopPercent /\ contexts'[y].depth <= MaxDepth
    <3>1. contexts[x].remaining * HopPercent <= contexts[x].total * HopPercent
      BY <1>1, HeldWithinShare, MoreOfMore, DelegationAssumption
    <3>2. contexts'[y].total = amount /\ contexts'[x].total = contexts[x].total /\ contexts'[y].depth = depth
      BY <1>1, <1>5, <1>7
    <3>3. contexts[x].total \in Nat /\ HopPercent \in Nat /\ MaxDepth \in Nat
      BY <1>1, HeldWithinShare, DelegationAssumption
    <3>4. /\ contexts[x].remaining * HopPercent \in Nat /\ contexts[x].total * HopPercent \in Nat
          /\ amount * 100 \in Nat
      BY <1>3, <3>3
    <3> DEFINE a == amount * 100
               b == contexts[x].remaining * HopPercent
               c == contexts[x].total * HopPercent
    <3>5. a \in Nat /\ b \in Nat /\ c \in Nat /\ a <= b /\ b <= c
      BY <1>1, <3>1, <3>4
    <3> HIDE DEF a, b, c
    <3>6. a <= c
      BY <3>5
    <3>7. amount * 100 <= contexts[x].total * HopPercent
      BY <3>6 DEF a, c
    <3> QED BY <1>3, <3>2, <3>3, <3>7
  <2> QED BY <1>8, <1>9, <2>1, <2>2 DEF HopsKept
<1> QED BY <1>6, <1>10, <1>11, <1>16, <1>17 DEF NestInv

\* Every operation keeps it.
LEMMA NestStep == NestInv /\ [DelegationNext]_delegationVars => NestInv'
<1> SUFFICES ASSUME NestInv, [DelegationNext]_delegationVars PROVE NestInv'
  OBVIOUS
<1>0. 1..RootBudget \subseteq Nat
  BY DelegationAssumption
<1>1. ASSUME UNCHANGED delegationVars PROVE NestInv'
  <2>1. UNCHANGED <<contexts, passedOn>>
    BY <1>1 DEF delegationVars
  <2>2. Made' = Made /\ Shares' = Shares /\ Holdings' = Holdings /\ \A x : Children(x)' = Children(x)
    BY <2>1 DEF Made, Shares, Holdings, Children
  <2>3. DelegationTypeOK' /\ TreeKept' /\ BudgetKept'
    BY <2>1, <2>2 DEF NestInv, DelegationTypeOK, TreeKept, BudgetKept
  <2>4. SharesKept'
    <3>1. \A x : SumFunctionOnSet(Shares', Children(x)') = SumFunctionOnSet(Shares, Children(x))
      BY <2>2, Zenon
    <3> QED BY <2>1, <2>2, <3>1 DEF NestInv, SharesKept
  <2>5. HopsKept'
    BY <2>1, <2>2 DEF NestInv, HopsKept
  <2> QED BY <2>3, <2>4, <2>5 DEF NestInv
<1> QED BY <1>0, <1>1, RootKeeps, SpendingKeeps, DelegatingKeeps DEF DelegationNext

\* However deep the tree and whatever the hop's share, what DelegationManager
\* (agent/delegation.ts) hands down, lets spend and still holds is the root's
\* budget, context by context.
THEOREM BudgetsAlwaysNest == DelegationSpec => []BudgetsNest
BY NestInitially, NestStep, NestInvNests, PTL DEF DelegationSpec

-------------------------------------------------------------------------------
(* The allocation vault.                                                   *)

\* Products of naturals, as the divisions below need them.
LEMMA Products ==
  ASSUME NEW a \in Nat, NEW b \in Nat, NEW c \in Nat
  PROVE  /\ a * b \in Nat /\ a * (b + c) = a * b + a * c /\ (b + c) * a = b * a + c * a
         /\ b <= c => a * b <= a * c /\ b * a <= c * a
         /\ a * b = b * a
<1>1. a * b \in Nat /\ a * (b + c) = a * b + a * c /\ (b + c) * a = b * a + c * a /\ a * b = b * a
  OBVIOUS
<1>2. ASSUME b <= c PROVE a * b <= a * c /\ b * a <= c * a
  <2>1. PICK d \in Nat : c = b + d
    BY <1>2
  <2>2. a * c = a * b + a * d /\ c * a = b * a + d * a /\ a * d \in Nat /\ d * a \in Nat /\ a * b \in Nat /\ b * a \in Nat
    BY <2>1
  <2> QED BY <2>2
<1> QED BY <1>1, <1>2

\* A quotient is the most that fits.
LEMMA Quotient ==
  ASSUME NEW n \in Nat, NEW d \in Nat \ {0}
  PROVE  /\ n \div d \in Nat /\ (n \div d) * d <= n
         /\ \A m \in Nat : n < (m + 1) * d => n \div d <= m
<1>1. n \div d \in Nat /\ (n \div d) * d <= n
  OBVIOUS
<1>2. ASSUME NEW m \in Nat, n < (m + 1) * d, n \div d > m PROVE FALSE
  <2> DEFINE k == n \div d
  <2>1. k \in Nat /\ m + 1 <= k /\ k * d <= n /\ d \in Nat
    BY <1>1, <1>2
  <2> HIDE DEF k
  <2>2. (m + 1) * d <= k * d
    BY <2>1, Products
  <2>3. (m + 1) * d \in Nat /\ k * d \in Nat
    BY <2>1, Products
  <2> QED BY <1>2, <2>1, <2>2, <2>3
<1> QED BY <1>1, <1>2

\* Changing a function at one place changes the sum of all of it by as much.
LEMMA SumElsewhere ==
  ASSUME NEW S, IsFiniteSet(S), NEW f \in [S -> Int], NEW g \in [S -> Int], NEW y \in S,
         \A x \in S \ {y} : f[x] = g[x]
  PROVE  SumFunction(g) = SumFunction(f) + (g[y] - f[y])
<1>1. SumFunctionOnSet(f, S) = f[y] + SumFunctionOnSet(f, S \ {y})
  <2>1. \A x \in S : f[x] \in Int OBVIOUS
  <2> QED BY <2>1, SumSplit
<1>2. SumFunctionOnSet(g, S) = g[y] + SumFunctionOnSet(g, S \ {y})
  <2>1. \A x \in S : g[x] \in Int OBVIOUS
  <2> QED BY <2>1, SumSplit
<1>3. IsFiniteSet(S \ {y})
  BY FS_Subset
<1>4. SumFunctionOnSet(f, S \ {y}) = SumFunctionOnSet(g, S \ {y})
  BY <1>3, SumSame
<1>5. SumFunctionOnSet(f, S \ {y}) \in Int
  <2>1. \A x \in S \ {y} : f[x] \in Int OBVIOUS
  <2> QED BY <1>3, <2>1, SumInt
<1>6. SumFunction(f) = SumFunctionOnSet(f, S) /\ SumFunction(g) = SumFunctionOnSet(g, S)
  BY DEF SumFunction
<1> QED BY <1>1, <1>2, <1>4, <1>5, <1>6

\* Quotients taken one by one come to no more than the quotient of the sum.
LEMMA QuotientsFit ==
  ASSUME NEW D, IsFiniteSet(D), NEW f, \A x \in D : f[x] \in Nat, NEW n \in Nat, NEW d \in Nat \ {0},
         NEW g, \A x \in D : g[x] = (f[x] * n) \div d
  PROVE  /\ SumFunctionOnSet(f, D) \in Nat /\ SumFunctionOnSet(g, D) \in Nat
         /\ SumFunctionOnSet(g, D) * d <= SumFunctionOnSet(f, D) * n
<1> DEFINE F(U) == SumFunctionOnSet(f, U)
           G(U) == SumFunctionOnSet(g, U)
           T == {U \in SUBSET D : F(U) \in Nat /\ G(U) \in Nat /\ G(U) * d <= F(U) * n}
<1>1. \A x \in D : f[x] * n \in Nat /\ g[x] \in Nat /\ g[x] * d <= f[x] * n
  <2> SUFFICES ASSUME NEW x \in D PROVE f[x] * n \in Nat /\ g[x] \in Nat /\ g[x] * d <= f[x] * n
    OBVIOUS
  <2>1. f[x] * n \in Nat
    BY Products
  <2> QED BY <2>1, Quotient
<1>2. {} \in T
  <2>1. F({}) = 0 /\ G({}) = 0
    BY FS_EmptySet, SumZero
  <2>2. 0 * d <= 0 * n
    OBVIOUS
  <2> HIDE DEF F, G
  <2> QED BY <2>1, <2>2
<1>3. ASSUME NEW U \in SUBSET D, NEW x \in D \ U, U \in T PROVE U \cup {x} \in T
  <2>1. IsFiniteSet(U)
    BY FS_Subset
  <2>2. /\ \A y \in U \cup {x} : f[y] \in Int
        /\ \A y \in U \cup {x} : g[y] \in Int
    BY <1>1
  <2>3. F(U \cup {x}) = f[x] + F(U)
    BY <2>1, <2>2, SumJoined
  <2>4. G(U \cup {x}) = g[x] + G(U)
    BY <2>1, <2>2, SumJoined
  <2>5. f[x] \in Nat /\ g[x] \in Nat /\ g[x] * d <= f[x] * n /\ F(U) \in Nat /\ G(U) \in Nat /\ G(U) * d <= F(U) * n
    BY <1>1, <1>3
  <2> HIDE DEF F, G
  <2>6. (g[x] + G(U)) * d <= (f[x] + F(U)) * n
    <3> DEFINE a == g[x]
               b == G(U)
               i == f[x]
               j == F(U)
    <3>1. a \in Nat /\ b \in Nat /\ i \in Nat /\ j \in Nat /\ a * d <= i * n /\ b * d <= j * n
      BY <2>5
    <3> HIDE DEF a, b, i, j
    <3>2. /\ (a + b) * d = a * d + b * d /\ (i + j) * n = i * n + j * n
          /\ a * d \in Nat /\ b * d \in Nat /\ i * n \in Nat /\ j * n \in Nat
      BY <3>1
    <3>3. (a + b) * d <= (i + j) * n
      BY <3>1, <3>2
    <3> QED BY <3>3 DEF a, b, i, j
  <2>7. G(U \cup {x}) * d <= F(U \cup {x}) * n
    BY <2>3, <2>4, <2>6
  <2>8. F(U \cup {x}) \in Nat /\ G(U \cup {x}) \in Nat
    BY <2>3, <2>4, <2>5
  <2> QED BY <2>7, <2>8
<1>4. D \in T
  <2> HIDE DEF T
  <2> QED BY <1>2, <1>3, SubsetInduction
<1> QED BY <1>4

-------------------------------------------------------------------------------
(* Shares and their price.                                                 *)

\* The supply of shares is a number no less than what anyone has.
LEMMA SupplyCounts ==
  ASSUME VaultTypeOK
  PROVE  /\ ShareSupply \in Nat /\ ShareSupply = SumFunctionOnSet(shares, Depositors)
         /\ \A h \in Depositors : shares[h] \in Nat /\ shares[h] <= ShareSupply
<1>1. IsFiniteSet(Depositors) /\ shares \in [Depositors -> Nat]
  BY VaultAssumption DEF VaultTypeOK
<1>2. ShareSupply = SumFunctionOnSet(shares, Depositors)
  BY <1>1 DEF ShareSupply, SumFunction
<1>3. SumFunctionOnSet(shares, Depositors) \in Nat
  BY <1>1, SumGrows
<1>4. ASSUME NEW h \in Depositors PROVE shares[h] <= SumFunctionOnSet(shares, Depositors)
  <2>1. SumFunctionOnSet(shares, Depositors) = shares[h] + SumFunctionOnSet(shares, Depositors \ {h})
    BY <1>1, SumSplit
  <2>2. SumFunctionOnSet(shares, Depositors \ {h}) \in Nat
    BY <1>1, SumGrows
  <2> QED BY <1>1, <2>1, <2>2
<1> QED BY <1>1, <1>2, <1>3, <1>4

\* Shares are issued, and redeemed within the cash.
LEMMA PricesFit ==
  ASSUME VaultTypeOK
  PROVE  /\ \A a \in Nat : ToShares(a) \in Nat
         /\ \A s \in Nat : ToAssets(s) \in Nat /\ (s <= ShareSupply => ToAssets(s) <= reserve)
<1> DEFINE S == ShareSupply
           R == reserve
<1>1. S \in Nat /\ R \in Nat /\ S + 1 \in Nat \ {0} /\ R + 1 \in Nat \ {0}
  BY SupplyCounts DEF VaultTypeOK
<1>2. ASSUME NEW a \in Nat PROVE ToShares(a) \in Nat
  <2>1. ToShares(a) = (a * (S + 1)) \div (R + 1)
    BY DEF ToShares
  <2> HIDE DEF S, R
  <2>2. a * (S + 1) \in Nat
    BY <1>1, Products
  <2> QED BY <1>1, <2>1, <2>2, Quotient
<1>3. ASSUME NEW s \in Nat PROVE ToAssets(s) \in Nat /\ (s <= S => ToAssets(s) <= R)
  <2>1. ToAssets(s) = (s * (R + 1)) \div (S + 1)
    BY DEF ToAssets
  <2> HIDE DEF S, R
  <2>2. s * (R + 1) \in Nat /\ S * (R + 1) \in Nat
    BY <1>1, Products
  <2>3. ASSUME s <= S PROVE s * (R + 1) < (R + 1) * (S + 1)
    <3>1. s * (R + 1) <= S * (R + 1)
      BY <1>1, <2>3, Products
    <3>2. (R + 1) * (S + 1) = S * (R + 1) + (R + 1)
      BY <1>1
    <3> QED BY <1>1, <2>2, <3>1, <3>2
  <2> QED BY <1>1, <2>1, <2>2, <2>3, Quotient
<1> QED BY <1>2, <1>3 DEF S, R

\* The cash covers every share at its price.
LEMMA SharesAreCovered ==
  ASSUME VaultTypeOK
  PROVE  SumFunction([h \in Depositors |-> ToAssets(shares[h])]) <= reserve
<1> DEFINE S == ShareSupply
           R == reserve
           g == [h \in Depositors |-> ToAssets(shares[h])]
           c == SumFunctionOnSet(g, Depositors)
<1>1. S \in Nat /\ R \in Nat /\ S + 1 \in Nat \ {0} /\ R + 1 \in Nat /\ IsFiniteSet(Depositors)
      /\ S = SumFunctionOnSet(shares, Depositors)
      /\ \A h \in Depositors : shares[h] \in Nat
  BY SupplyCounts, VaultAssumption DEF VaultTypeOK
<1>2. \A h \in Depositors : g[h] = (shares[h] * (R + 1)) \div (S + 1)
  BY DEF ToAssets
<1>3. SumFunction(g) = c
  BY DEF SumFunction
<1> HIDE DEF S, R, g
<1>4. c \in Nat /\ c * (S + 1) <= S * (R + 1)
  BY <1>1, <1>2, QuotientsFit
<1> HIDE DEF c
<1>5. c <= R
  <2> SUFFICES ASSUME R + 1 <= c PROVE FALSE
    BY <1>1, <1>4
  <2>1. (R + 1) * (S + 1) <= c * (S + 1)
    BY <1>1, <1>4, Products
  <2>2. (R + 1) * (S + 1) = S * (R + 1) + (R + 1) /\ S * (R + 1) \in Nat
    BY <1>1
  <2>3. c * (S + 1) \in Nat
    BY <1>1, <1>4, Products
  <2> QED BY <1>1, <1>4, <2>1, <2>2, <2>3
<1> QED BY <1>3, <1>5 DEF g, R

\* A deposit is worth no more than was put in.
LEMMA DepositsAreNotWorthMore ==
  ASSUME VaultTypeOK, NEW a \in Nat
  PROVE  Worth(a) <= a
<1> DEFINE S == ShareSupply
           R == reserve
           k == ToShares(a)
           d == S + k + 1
<1>1. S \in Nat /\ R \in Nat /\ k \in Nat
  BY SupplyCounts, PricesFit DEF VaultTypeOK
<1>2. k = (a * (S + 1)) \div (R + 1) /\ Worth(a) = (k * (R + a + 1)) \div d
  BY DEF ToShares, Worth
<1> HIDE DEF S, R, k
<1>3. a * (S + 1) \in Nat /\ R + 1 \in Nat \ {0} /\ d \in Nat \ {0}
  BY <1>1, Products
<1>4. k * (R + 1) <= a * (S + 1)
  BY <1>2, <1>3, Quotient
<1>5. /\ k * (R + a + 1) = k * (R + 1) + k * a
      /\ (a + 1) * d = a * (S + 1) + k * a + d
      /\ k * (R + a + 1) \in Nat /\ k * (R + 1) \in Nat /\ k * a \in Nat
  BY <1>1
<1> HIDE DEF d
<1>6. k * (R + a + 1) < (a + 1) * d
  BY <1>3, <1>4, <1>5
<1> QED BY <1>2, <1>3, <1>5, <1>6, Quotient

\* A plan moves no more than a quarter of the treasury, and leaves a market past
\* its kink first.
LEMMA PlansAreSmall ==
  ASSUME NEW weight \in PtWeights, NEW given \in BOOLEAN, NEW spread \in BOOLEAN, NEW light \in BOOLEAN
  PROVE  LET plan == Evaluate(weight, given, spread, light)
         IN (Breached => plan.kind = "kink") /\ 4 * plan.amount <= Treasury
<1> DEFINE plan == Evaluate(weight, given, spread, light)
           a == (Treasury * weight) \div 16
           b == Treasury \div 10
<1>1. Treasury \in Nat /\ weight \in 0..4
  BY VaultAssumption
<1>2. 4 * a <= Treasury
  <2>1. Treasury * weight \in Nat /\ Treasury * weight <= Treasury * 4
    BY <1>1, Products
  <2>2. a \in Nat /\ a * 16 <= Treasury * weight
    BY <2>1, Quotient
  <2> QED BY <1>1, <2>1, <2>2
<1>3. 4 * b <= Treasury
  <2>1. b \in Nat /\ b * 10 <= Treasury
    BY <1>1, Quotient
  <2> QED BY <1>1, <2>1
<1> HIDE DEF a, b
<1>4. CASE given \/ Breached
  <2>1. plan = [kind |-> "kink", amount |-> a]
    BY <1>4 DEF Evaluate, a
  <2> QED BY <1>2, <2>1
<1>5. CASE ~(given \/ Breached) /\ spread /\ light
  <2>1. plan = [kind |-> "arbitrage", amount |-> b]
    BY <1>5 DEF Evaluate, b
  <2>2. ~Breached
    BY <1>5
  <2> QED BY <1>3, <2>1, <2>2
<1>6. CASE ~(given \/ Breached) /\ ~(spread /\ light)
  <2>1. plan = [kind |-> "none", amount |-> 0]
    BY <1>6 DEF Evaluate
  <2>2. ~Breached
    BY <1>6
  <2> QED BY <1>1, <2>1, <2>2
<1> QED BY <1>4, <1>5, <1>6

-------------------------------------------------------------------------------
(* Moves and payments.                                                     *)

\* All money is somewhere.
Balanced == reserve + SumFunction(invested) + outflow + SumFunction(redeemed) = 0

\* What the vault never breaks.
VaultInv == VaultTypeOK /\ Balanced

\* What the vault promises follows.
LEMMA VaultInvHolds == VaultInv => VaultHolds
<1> SUFFICES ASSUME VaultInv PROVE VaultHolds
  OBVIOUS
<1>1. reserve + SumFunction(invested) + outflow + SumFunction(redeemed) = 0
  BY DEF VaultInv, Balanced
<1>2. VaultTypeOK
  BY DEF VaultInv
<1>3. \A a \in VaultAmounts : Worth(a) <= a
  BY <1>2, DepositsAreNotWorthMore, VaultAssumption
<1>4. SumFunction([h \in Depositors |-> ToAssets(shares[h])]) <= reserve
  BY <1>2, SharesAreCovered
<1> QED BY <1>1, <1>3, <1>4, PlansAreSmall DEF VaultHolds

\* The positions and what holders have taken out, as sums.
LEMMA BooksAdd ==
  ASSUME VaultTypeOK
  PROVE  /\ IsFiniteSet(Protocols) /\ IsFiniteSet(Depositors)
         /\ invested \in [Protocols -> Int] /\ redeemed \in [Depositors -> Int]
         /\ SumFunction(invested) \in Int /\ SumFunction(redeemed) \in Int
         /\ reserve \in Nat /\ outflow \in Nat
<1>1. IsFiniteSet(Protocols)
  <2>1. IsFiniteSet({}) BY FS_EmptySet
  <2>2. IsFiniteSet({"morpho"}) /\ IsFiniteSet({"morpho"} \cup {"aave"})
    BY FS_Singleton, FS_AddElement
  <2>3. IsFiniteSet(({"morpho"} \cup {"aave"}) \cup {"pendle"})
    BY <2>2, FS_AddElement
  <2>4. ({"morpho"} \cup {"aave"}) \cup {"pendle"} = Protocols
    BY DEF Protocols
  <2> QED BY <2>3, <2>4
<1>2. IsFiniteSet(Depositors) /\ invested \in [Protocols -> Int] /\ redeemed \in [Depositors -> Int]
      /\ reserve \in Nat /\ outflow \in Nat
  BY VaultAssumption DEF VaultTypeOK
<1>3. SumFunctionOnSet(invested, Protocols) \in Int /\ SumFunctionOnSet(redeemed, Depositors) \in Int
  BY <1>1, <1>2, SumInt
<1>4. SumFunction(invested) = SumFunctionOnSet(invested, Protocols)
      /\ SumFunction(redeemed) = SumFunctionOnSet(redeemed, Depositors)
  BY <1>2 DEF SumFunction
<1> QED BY <1>1, <1>2, <1>3, <1>4

\* The vault opens empty.
LEMMA VaultInitially == VaultInit => VaultInv
<1> SUFFICES ASSUME VaultInit PROVE VaultInv
  OBVIOUS
<1>1. VaultTypeOK
  BY VaultAssumption DEF VaultInit, VaultTypeOK, Protocols
<1>2. /\ invested = [p \in Protocols |-> 0] /\ redeemed = [h \in Depositors |-> 0]
      /\ reserve = 0 /\ outflow = 0
  BY DEF VaultInit
<1>3. SumFunctionOnSet(invested, Protocols) = 0 /\ SumFunctionOnSet(redeemed, Depositors) = 0
  BY <1>1, <1>2, BooksAdd, SumZero
<1>4. SumFunction(invested) = 0 /\ SumFunction(redeemed) = 0
  BY <1>2, <1>3 DEF SumFunction
<1> QED BY <1>1, <1>2, <1>4 DEF VaultInv, Balanced

\* Cash that moves between the reserve and one position, and leaves as outflow.
LEMMA MovesBalance ==
  ASSUME VaultInv, NEW p \in Protocols, NEW cash \in Nat, NEW position \in Nat, NEW out \in Nat,
         reserve' = cash, invested' = [invested EXCEPT ![p] = position], outflow' = out,
         cash + position + out = reserve + invested[p] + outflow,
         UNCHANGED <<shares, borrowed, deposited, redeemed>>,
         bridged' \in [Unbonded -> VaultAmounts \cup {0}]
  PROVE  VaultInv'
<1>1. VaultTypeOK /\ Balanced
  BY DEF VaultInv
<1>2. VaultTypeOK'
  BY <1>1 DEF VaultTypeOK
<1>3. SumFunction(invested') = SumFunction(invested) + (position - invested[p])
  <2>1. IsFiniteSet(Protocols) BY <1>1, BooksAdd
  <2>2. invested \in [Protocols -> Int] BY <1>1, BooksAdd
  <2>3. position \in Int OBVIOUS
  <2> DEFINE f == invested
             g == invested'
  <2>4. /\ f \in [Protocols -> Int] /\ g \in [Protocols -> Int] /\ g[p] = position
        /\ \A x \in Protocols \ {p} : f[x] = g[x]
    BY <2>2, <2>3
  <2> HIDE DEF f, g
  <2>5. SumFunction(g) = SumFunction(f) + (g[p] - f[p])
    BY ONLY p \in Protocols, <2>1, <2>4, SumElsewhere
  <2> QED BY <2>4, <2>5 DEF f, g
<1>4. /\ SumFunction(invested) \in Int /\ SumFunction(redeemed) \in Int
      /\ reserve \in Nat /\ outflow \in Nat /\ invested[p] \in Int
  BY <1>1, BooksAdd
<1>5. SumFunction(redeemed') = SumFunction(redeemed)
  OBVIOUS
<1> DEFINE x == SumFunction(invested)
           y == SumFunction(redeemed)
           i == invested[p]
           x1 == SumFunction(invested')
<1>6. reserve + x + outflow + y = 0 /\ x \in Int /\ y \in Int /\ i \in Int /\ x1 = x + (position - i)
      /\ cash + position + out = reserve + i + outflow /\ reserve \in Nat /\ outflow \in Nat
  BY <1>1, <1>3, <1>4 DEF Balanced
<1> HIDE DEF x, y, i, x1
<1>7. cash + x1 + out + y = 0
  BY <1>6
<1>8. reserve' + SumFunction(invested') + outflow' + SumFunction(redeemed') = 0
  BY <1>5, <1>7 DEF x1, y
<1> QED BY <1>2, <1>8 DEF VaultInv, Balanced

\* Cash that a holder puts in or takes out.
LEMMA HoldersBalance ==
  ASSUME VaultInv, NEW h \in Depositors, NEW cash \in Nat, NEW taken \in Int, NEW held \in Nat,
         reserve' = cash, redeemed' = [redeemed EXCEPT ![h] = taken],
         shares' = [shares EXCEPT ![h] = held],
         cash + taken = reserve + redeemed[h],
         deposited' \in 0..MaxDeposited, UNCHANGED <<invested, borrowed, bridged, outflow>>
  PROVE  VaultInv'
<1>1. VaultTypeOK /\ Balanced
  BY DEF VaultInv
<1>2. VaultTypeOK'
  BY <1>1 DEF VaultTypeOK
<1>3. SumFunction(redeemed') = SumFunction(redeemed) + (taken - redeemed[h])
  <2>1. IsFiniteSet(Depositors) BY <1>1, BooksAdd
  <2>2. redeemed \in [Depositors -> Int] BY <1>1, BooksAdd
  <2> DEFINE f == redeemed
             g == redeemed'
  <2>4. /\ f \in [Depositors -> Int] /\ g \in [Depositors -> Int] /\ g[h] = taken
        /\ \A x \in Depositors \ {h} : f[x] = g[x]
    BY <2>2
  <2> HIDE DEF f, g
  <2>5. SumFunction(g) = SumFunction(f) + (g[h] - f[h])
    BY ONLY h \in Depositors, <2>1, <2>4, SumElsewhere
  <2> QED BY <2>4, <2>5 DEF f, g
<1>4. /\ SumFunction(invested) \in Int /\ SumFunction(redeemed) \in Int
      /\ reserve \in Nat /\ outflow \in Nat /\ redeemed[h] \in Int
  BY <1>1, BooksAdd
<1>5. SumFunction(invested') = SumFunction(invested)
  OBVIOUS
<1> DEFINE x == SumFunction(invested)
           y == SumFunction(redeemed)
           i == redeemed[h]
           y1 == SumFunction(redeemed')
<1>6. reserve + x + outflow + y = 0 /\ x \in Int /\ y \in Int /\ i \in Int /\ y1 = y + (taken - i)
      /\ cash + taken = reserve + i /\ reserve \in Nat /\ outflow \in Nat
  BY <1>1, <1>3, <1>4 DEF Balanced
<1> HIDE DEF x, y, i, y1
<1>7. cash + x + outflow + y1 = 0
  BY <1>6
<1>8. reserve' + SumFunction(invested') + outflow' + SumFunction(redeemed') = 0
  BY <1>5, <1>7 DEF y1, x
<1> QED BY <1>2, <1>8 DEF VaultInv, Balanced

\* A flash loan goes into one position and comes back out of another.
LEMMA RebalanceKeeps ==
  ASSUME VaultInv, NEW a \in VaultAmounts, NEW unwound \in VaultAmounts, NEW to \in Protocols,
         NEW from \in Protocols, NEW fee \in FlashFees, AtomicRebalance(a, to, from, unwound, fee)
  PROVE  VaultInv'
<1> DEFINE held == [invested EXCEPT ![to] = @ + a]
           cash == reserve + unwound - a - fee
           out == outflow + fee
           left == held[from] - unwound
<1>1. VaultTypeOK /\ Balanced
  BY DEF VaultInv
<1>2. /\ unwound <= held[from] /\ reserve + unwound >= a + fee
      /\ reserve' = cash /\ invested' = [held EXCEPT ![from] = left] /\ outflow' = out
      /\ UNCHANGED <<shares, borrowed, bridged, deposited, redeemed>>
  BY DEF AtomicRebalance
<1>3. /\ a \in Nat /\ unwound \in Nat /\ fee \in Nat /\ reserve \in Nat /\ outflow \in Nat
      /\ invested \in [Protocols -> Nat]
  BY <1>1, VaultAssumption DEF VaultTypeOK
<1>4. held \in [Protocols -> Nat] /\ held[to] = invested[to] + a /\ \A p \in Protocols \ {to} : invested[p] = held[p]
  <2> DEFINE more == invested[to] + a
  <2>1. more \in Nat /\ held = [invested EXCEPT ![to] = more]
    BY <1>3
  <2> HIDE DEF more, held
  <2>2. held \in [Protocols -> Nat] /\ held[to] = more /\ \A p \in Protocols \ {to} : invested[p] = held[p]
    BY <1>3, <2>1
  <2> QED BY <2>2 DEF more
<1>5. cash \in Nat /\ out \in Nat
  BY <1>2, <1>3
<1> HIDE DEF held
<1>6. left \in Nat /\ held[from] - left = unwound
  BY <1>2, <1>3, <1>4
<1> HIDE DEF left, cash, out
<1>7. invested' \in [Protocols -> Nat] /\ invested'[from] = left
      /\ \A p \in Protocols \ {from} : held[p] = invested'[p]
  BY <1>2, <1>4, <1>6
<1>8. VaultTypeOK'
  <2>1. reserve' \in Nat /\ outflow' \in Nat
    BY <1>2, <1>5
  <2> QED BY <1>1, <1>2, <1>7, <2>1 DEF VaultTypeOK
<1>9. SumFunction(held) = SumFunction(invested) + (held[to] - invested[to])
  <2>1. IsFiniteSet(Protocols) BY <1>1, BooksAdd
  <2>2. invested \in [Protocols -> Int] /\ held \in [Protocols -> Int]
    BY <1>3, <1>4
  <2> QED BY ONLY to \in Protocols, <1>4, <2>1, <2>2, SumElsewhere
<1>10. SumFunction(invested') = SumFunction(held) + (invested'[from] - held[from])
  <2>1. IsFiniteSet(Protocols) BY <1>1, BooksAdd
  <2> DEFINE g == invested'
  <2>2. held \in [Protocols -> Int] /\ g \in [Protocols -> Int] /\ \A p \in Protocols \ {from} : held[p] = g[p]
    BY <1>4, <1>7
  <2> HIDE DEF g
  <2>3. SumFunction(g) = SumFunction(held) + (g[from] - held[from])
    BY ONLY from \in Protocols, <2>1, <2>2, SumElsewhere
  <2> QED BY <2>3 DEF g
<1>11. /\ SumFunction(invested) \in Int /\ SumFunction(redeemed) \in Int /\ invested[to] \in Nat
       /\ held[from] \in Nat
  BY <1>1, <1>3, <1>4, BooksAdd
<1> DEFINE x == SumFunction(invested)
           y == SumFunction(redeemed)
           x1 == SumFunction(invested')
           i == invested[to]
           j == held[from]
<1>12. /\ reserve + x + outflow + y = 0 /\ x \in Int /\ y \in Int /\ i \in Nat /\ j \in Nat
       /\ x1 = (x + ((i + a) - i)) + (left - j) /\ j - left = unwound
  BY <1>1, <1>4, <1>6, <1>7, <1>9, <1>10, <1>11 DEF Balanced
<1>13. cash = reserve + unwound - a - fee /\ out = outflow + fee
  BY DEF cash, out
<1> HIDE DEF x, y, x1, i, j
<1>14. x1 = x + a - unwound
  BY <1>3, <1>6, <1>12
<1>15. cash + x1 + out + y = 0
  BY <1>3, <1>12, <1>13, <1>14
<1>16. SumFunction(redeemed') = y
  BY <1>2 DEF y
<1>17. reserve' + SumFunction(invested') + outflow' + SumFunction(redeemed') = 0
  BY <1>2, <1>15, <1>16 DEF x1
<1> QED BY <1>8, <1>17 DEF VaultInv, Balanced

\* A payment takes what is missing from Morpho and pays all of it, or reverts.
LEMMA PaymentKeeps ==
  ASSUME VaultInv, NEW q \in Unbonded, InstantWithdraw(q)
  PROVE  VaultInv'
<1> DEFINE due == bridged[q]
           missing == Deficit(due)
           held == invested["morpho"]
           cash == reserve + missing - due
           left == held - missing
           out == outflow + due
<1>1. VaultTypeOK
  BY DEF VaultInv
<1>2. /\ due \in Nat /\ reserve \in Nat /\ held \in Nat /\ outflow \in Nat /\ "morpho" \in Protocols
      /\ bridged' = [bridged EXCEPT ![q] = 0] /\ bridged' \in [Unbonded -> VaultAmounts \cup {0}]
  BY <1>1, VaultAssumption DEF VaultTypeOK, Protocols, InstantWithdraw
<1>3. missing \in Nat /\ cash \in Nat
  BY <1>2 DEF Deficit
<1>4. CASE CanWithdraw("morpho", missing)
  <2>1. /\ reserve' = cash /\ invested' = [invested EXCEPT !["morpho"] = left] /\ outflow' = out
        /\ UNCHANGED <<shares, borrowed, deposited, redeemed>>
    BY <1>4 DEF InstantWithdraw
  <2>2. missing <= held
    BY <1>4 DEF CanWithdraw
  <2> HIDE DEF missing, due, held
  <2>3. left \in Nat /\ out \in Nat /\ cash + left + out = reserve + held + outflow
    BY <1>2, <1>3, <2>2
  <2> HIDE DEF left, out, cash
  <2>4. cash + left + out = reserve + invested["morpho"] + outflow
    BY <2>3 DEF held
  <2> QED BY <1>2, <1>3, <2>1, <2>3, <2>4, MovesBalance
<1>5. CASE ~CanWithdraw("morpho", missing)
  <2>1. UNCHANGED <<reserve, invested, outflow, shares, borrowed, deposited, redeemed>>
    BY <1>5 DEF InstantWithdraw
  <2> QED BY <1>2, <2>1 DEF VaultInv, VaultTypeOK, Balanced
<1> QED BY <1>4, <1>5

\* Every transaction keeps it.
LEMMA VaultStep == VaultInv /\ [VaultNext]_vaultVars => VaultInv'
<1> SUFFICES ASSUME VaultInv, [VaultNext]_vaultVars PROVE VaultInv'
  OBVIOUS
<1>0. /\ VaultTypeOK /\ VaultAmounts \subseteq Nat
      /\ reserve \in Nat /\ outflow \in Nat /\ deposited \in 0..MaxDeposited /\ MaxDeposited \in Nat
      /\ invested \in [Protocols -> Nat] /\ shares \in [Depositors -> Nat] /\ redeemed \in [Depositors -> Int]
      /\ bridged \in [Unbonded -> VaultAmounts \cup {0}]
  BY VaultAssumption DEF VaultInv, VaultTypeOK
<1>1. ASSUME NEW h \in Depositors, NEW a \in VaultAmounts, PutIn(h, a) PROVE VaultInv'
  <2> DEFINE cash == reserve + a
             taken == redeemed[h] - a
             held == shares[h] + ToShares(a)
  <2>1. /\ reserve' = cash /\ redeemed' = [redeemed EXCEPT ![h] = taken]
        /\ shares' = [shares EXCEPT ![h] = held]
        /\ UNCHANGED <<invested, borrowed, bridged, outflow>>
        /\ deposited' = deposited + a /\ deposited + a <= MaxDeposited
    BY <1>1 DEF PutIn
  <2>2. a \in Nat /\ ToShares(a) \in Nat /\ shares[h] \in Nat /\ redeemed[h] \in Int
    BY <1>0, PricesFit
  <2>3. cash \in Nat /\ taken \in Int /\ held \in Nat /\ cash + taken = reserve + redeemed[h]
        /\ deposited' \in 0..MaxDeposited
    BY <1>0, <2>1, <2>2
  <2> HIDE DEF cash, taken, held
  <2> QED BY <2>1, <2>3, HoldersBalance
<1>2. ASSUME NEW h \in Depositors, NEW s, TakeOut(h, s) PROVE VaultInv'
  <2> DEFINE price == ToAssets(s)
             cash == reserve - price
             taken == redeemed[h] + price
             held == shares[h] - s
  <2>1. /\ reserve' = cash /\ redeemed' = [redeemed EXCEPT ![h] = taken]
        /\ shares' = [shares EXCEPT ![h] = held]
        /\ UNCHANGED <<invested, borrowed, bridged, deposited, outflow>>
        /\ s \in 1..shares[h]
    BY <1>2 DEF TakeOut
  <2>2. /\ s \in Nat /\ s <= shares[h] /\ shares[h] \in Nat /\ redeemed[h] \in Int
        /\ ShareSupply \in Nat /\ shares[h] <= ShareSupply
    BY <1>0, <2>1, SupplyCounts
  <2>3. s <= ShareSupply
    BY <2>2
  <2>4. price \in Nat /\ price <= reserve
    BY <1>0, <2>2, <2>3, PricesFit
  <2> HIDE DEF price
  <2>5. cash \in Nat /\ taken \in Int /\ held \in Nat /\ cash + taken = reserve + redeemed[h]
        /\ deposited' \in 0..MaxDeposited
    BY <1>0, <2>1, <2>2, <2>4
  <2> HIDE DEF cash, taken, held
  <2> QED BY <2>1, <2>5, HoldersBalance
<1>3. ASSUME NEW b, Lend(b) PROVE VaultInv'
  <2>1. borrowed' \in Nat /\ UNCHANGED <<reserve, invested, shares, bridged, deposited, redeemed, outflow>>
    <3>1. b \in 0..(invested["morpho"] + OtherSupply) /\ "morpho" \in Protocols
      BY <1>3 DEF Lend, Protocols
    <3>2. b \in Nat
      BY <3>1, <1>0, VaultAssumption
    <3> QED BY <1>3, <3>2 DEF Lend
  <2> QED BY <2>1 DEF VaultInv, VaultTypeOK, Balanced
<1>4. ASSUME NEW p \in Protocols, NEW a \in VaultAmounts, Allocate(p, a) PROVE VaultInv'
  <2> DEFINE cash == reserve - a
             position == invested[p] + a
  <2>1. /\ reserve' = cash /\ invested' = [invested EXCEPT ![p] = position] /\ a <= reserve
        /\ outflow' = outflow /\ UNCHANGED <<shares, borrowed, deposited, redeemed>> /\ bridged' = bridged
    BY <1>4 DEF Allocate
  <2>2. a \in Nat /\ invested[p] \in Nat
    BY <1>0
  <2>3. cash \in Nat /\ position \in Nat /\ cash + position + outflow = reserve + invested[p] + outflow
    BY <1>0, <2>1, <2>2
  <2> HIDE DEF cash, position
  <2> QED BY <1>0, <2>1, <2>3, MovesBalance
<1>5. ASSUME NEW p \in Protocols, NEW a \in VaultAmounts, Recall(p, a) PROVE VaultInv'
  <2> DEFINE cash == reserve + a
             position == invested[p] - a
  <2>1. /\ reserve' = cash /\ invested' = [invested EXCEPT ![p] = position] /\ a <= invested[p]
        /\ outflow' = outflow /\ UNCHANGED <<shares, borrowed, deposited, redeemed>> /\ bridged' = bridged
    BY <1>5 DEF Recall, CanWithdraw
  <2>2. a \in Nat /\ invested[p] \in Nat
    BY <1>0
  <2>3. cash \in Nat /\ position \in Nat /\ cash + position + outflow = reserve + invested[p] + outflow
    BY <1>0, <2>1, <2>2
  <2> HIDE DEF cash, position
  <2> QED BY <1>0, <2>1, <2>3, MovesBalance
<1>6. ASSUME NEW q \in Unbonded, NEW a \in VaultAmounts, AskVault(q, a) PROVE VaultInv'
  <2>1. /\ bridged' \in [Unbonded -> VaultAmounts \cup {0}]
        /\ UNCHANGED <<reserve, invested, shares, borrowed, deposited, redeemed, outflow>>
    BY <1>0, <1>6 DEF AskVault
  <2> QED BY <2>1 DEF VaultInv, VaultTypeOK, Balanced
<1>7. ASSUME UNCHANGED vaultVars PROVE VaultInv'
  BY <1>7 DEF vaultVars, VaultInv, VaultTypeOK, Balanced
<1> QED BY <1>1, <1>2, <1>3, <1>4, <1>5, <1>6, <1>7, RebalanceKeeps, PaymentKeeps DEF VaultNext

\* However many holders, positions and payments there are and whatever the
\* market does, the vault contract (AutonomousDeFiAllocationVault.sol) loses no
\* money, can pay every share at its price from its cash, and sells none for
\* more than it is worth; and a plan of the engine is small and leaves a kink.
THEOREM VaultAlwaysHolds == VaultSpec => []VaultHolds
BY VaultInitially, VaultStep, VaultInvHolds, PTL DEF VaultSpec

-------------------------------------------------------------------------------
(* Cashing out.  A call has posted nothing before it has a token, and its  *)
(* anchor is one of the candidates it found.  As long as no stellar.toml   *)
(* has changed, a descriptor is empty or what its anchor publishes, so a   *)
(* later write takes nothing away.                                         *)

Chosen == {"challenge", "token", "posting", "handle"}

CashingOut(c) ==
    /\ off[c].todo \subseteq off[c].found
    /\ \A i \in off[c].found : registry[i] \in Serving \/ registry[i] = off[c].prefers
    /\ off[c].at \in {"idle", "hydrating", "fetched", "challenge", "token"} => books[c] = "none"
    /\ off[c].at = "threw" => books[c] \in {"none", "refused"}
    /\ off[c].at = "handle" => books[c] = "made"
    /\ off[c].at \in Chosen =>
          /\ off[c].anchor \in OffAnchors
          /\ off[c].anchor \in Serving \/ off[c].anchor = off[c].prefers

\* What is known of the services, as long as nobody publishes anew.
Knows(c) ==
    /\ off[c].at = "fetched" =>
          \A i : Earliest(i, off[c].todo) => off[c].read = published[registry[i]]
    /\ off[c].at \in Chosen => Needs(off[c].kind) \subseteq urls[off[c].anchor]

ServicesKnown ==
    changes = 0 => /\ \A a \in OffAnchors : urls[a] \in {{}, published[a]}
                   /\ \A c \in OffCalls : Knows(c)

OfframpInv ==
    /\ OfframpTypeOK
    /\ \A c \in OffCalls : CashingOut(c)
    /\ ServicesKnown

\* The registry's places hold anchors, and an anchor that is added takes none of them.
LEMMA PlacesHold ==
    ASSUME OfframpTypeOK
    PROVE  /\ \A i \in DOMAIN registry : registry[i] \in OffAnchors /\ i \in Nat
           /\ AddAnchor => /\ DOMAIN registry \subseteq DOMAIN registry'
                           /\ \A i \in DOMAIN registry : registry'[i] = registry[i]
  <1> DEFINE D == {DefaultAnchors[i] : i \in DOMAIN DefaultAnchors}
             long == Append(DefaultAnchors, CustomAnchor)
  <1>1. DefaultAnchors \in Seq(D) /\ D \subseteq OffAnchors /\ CustomAnchor \in OffAnchors
    BY OfframpAssumption DEF OffAnchors
  <1> HIDE DEF D
  <1>2. /\ DOMAIN DefaultAnchors = 1..Len(DefaultAnchors) /\ Len(DefaultAnchors) \in Nat
        /\ \A i \in DOMAIN DefaultAnchors : DefaultAnchors[i] \in D
    BY <1>1
  <1>3. /\ DOMAIN long = 1..(Len(DefaultAnchors) + 1)
        /\ \A i \in DOMAIN DefaultAnchors : long[i] = DefaultAnchors[i]
        /\ long[Len(DefaultAnchors) + 1] = CustomAnchor
    BY <1>1
  <1>4. \A i \in DOMAIN DefaultAnchors : DefaultAnchors[i] \in OffAnchors /\ i \in Nat
    BY <1>1, <1>2
  <1>5. \A i \in DOMAIN long : long[i] \in OffAnchors /\ i \in Nat
    <2> SUFFICES ASSUME NEW i \in DOMAIN long PROVE long[i] \in OffAnchors /\ i \in Nat
      OBVIOUS
    <2>1. i \in Nat /\ (i \in DOMAIN DefaultAnchors \/ i = Len(DefaultAnchors) + 1)
      BY <1>2, <1>3
    <2> QED BY <1>1, <1>3, <1>4, <2>1
  <1>6. DOMAIN DefaultAnchors \subseteq DOMAIN long
    BY <1>2, <1>3
  <1> HIDE DEF long
  <1>7. registry \in {DefaultAnchors, long}
    BY DEF OfframpTypeOK, long
  <1>8. AddAnchor => registry = DefaultAnchors /\ registry' = long
    BY DEF AddAnchor, long
  <1> QED BY <1>3, <1>4, <1>5, <1>6, <1>7, <1>8

\* A call that does not move stays where it was, whatever the others do.
LEMMA CallRests ==
    ASSUME OfframpInv, NEW c \in OffCalls, off'[c] = off[c], books'[c] = books[c],
           \A i \in DOMAIN registry : registry'[i] = registry[i]
    PROVE  CashingOut(c)'
  <1>1. off[c].todo \subseteq DOMAIN registry /\ off[c].found \subseteq DOMAIN registry
    BY DEF OfframpInv, OfframpTypeOK
  <1>2. CashingOut(c)
    BY DEF OfframpInv
  <1> QED BY <1>1, <1>2 DEF CashingOut


\* At the start nothing is chosen, read or posted.
LEMMA OfframpInitially == OfframpInit => OfframpInv
  <1> SUFFICES ASSUME OfframpInit PROVE OfframpInv
    OBVIOUS
  <1>1. OfframpTypeOK
    BY OfframpAssumption DEF OfframpInit, OfframpTypeOK, NotStarted, Kinds, Progress
  <1>2. \A c \in OffCalls : off[c] = NotStarted /\ books[c] = "none"
    BY DEF OfframpInit
  <1>3. \A c \in OffCalls : CashingOut(c)
    BY <1>2 DEF CashingOut, NotStarted, Chosen
  <1>4. ServicesKnown
    BY <1>2 DEF OfframpInit, ServicesKnown, Knows, NotStarted, Chosen
  <1> QED BY <1>1, <1>3, <1>4 DEF OfframpInv

\* What a call may be, with the registry as it is.
OffRecords ==
    [at : Progress, kind : Kinds, prefers : OffAnchors \cup {NoAnchor},
     todo : SUBSET DOMAIN registry, found : SUBSET DOMAIN registry,
     read : SUBSET Services, anchor : OffAnchors \cup {NoAnchor}, jwt : BOOLEAN]

\* A field of a call that changes leaves the calls well typed.
LEMMA CallsTyped ==
    ASSUME OfframpTypeOK, NEW c \in OffCalls
    PROVE  /\ \A at \in Progress : [off EXCEPT ![c].at = at] \in [OffCalls -> OffRecords]
           /\ \A at \in Progress, a \in OffAnchors :
                 [off EXCEPT ![c].anchor = a, ![c].at = at] \in [OffCalls -> OffRecords]
           /\ \A b \in BOOLEAN : [off EXCEPT ![c].jwt = b] \in [OffCalls -> OffRecords]
  <1>1. off \in [OffCalls -> OffRecords]
    BY DEF OfframpTypeOK, OffRecords
  <1>2. ASSUME NEW r \in OffRecords PROVE [off EXCEPT ![c] = r] \in [OffCalls -> OffRecords]
    BY <1>1
  <1>3. /\ \A at \in Progress : [off[c] EXCEPT !.at = at] \in OffRecords
        /\ \A at \in Progress, a \in OffAnchors :
              [off[c] EXCEPT !.anchor = a, !.at = at] \in OffRecords
        /\ \A b \in BOOLEAN : [off[c] EXCEPT !.jwt = b] \in OffRecords
    BY <1>1 DEF OffRecords
  <1>4. /\ \A at : [off EXCEPT ![c].at = at] = [off EXCEPT ![c] = [off[c] EXCEPT !.at = at]]
        /\ \A at, a : [off EXCEPT ![c].anchor = a, ![c].at = at]
                        = [off EXCEPT ![c] = [off[c] EXCEPT !.anchor = a, !.at = at]]
        /\ \A b : [off EXCEPT ![c].jwt = b] = [off EXCEPT ![c] = [off[c] EXCEPT !.jwt = b]]
    BY <1>1
  <1> QED BY <1>2, <1>3, <1>4

\* Every step leaves the calls well typed.
LEMMA OfframpTypedStep ==
    ASSUME OfframpTypeOK, [OfframpNext]_offrampVars PROVE OfframpTypeOK'
  <1>1. /\ published \in Publications /\ changes \in 0..MaxChanges
        /\ registry \in {DefaultAnchors, Append(DefaultAnchors, CustomAnchor)}
        /\ urls \in [OffAnchors -> SUBSET Services]
        /\ listing \subseteq OffAnchors /\ off \in [OffCalls -> OffRecords]
        /\ books \in [OffCalls -> {"none", "request", "made", "refused"}]
    BY DEF OfframpTypeOK, OffRecords
  <1>2. ASSUME UNCHANGED <<published, changes, registry, listing>>,
               off' \in [OffCalls -> OffRecords], urls' \in [OffAnchors -> SUBSET Services],
               books' \in [OffCalls -> {"none", "request", "made", "refused"}]
        PROVE  OfframpTypeOK'
    BY <1>1, <1>2 DEF OfframpTypeOK, OffRecords
  <1>3. ASSUME NEW c \in OffCalls, NEW kind \in Kinds, NEW named \in Named, StartOff(c, kind, named)
        PROVE  OfframpTypeOK'
    <2>1. off' \in [OffCalls -> OffRecords]
      BY <1>1, <1>3, OfframpAssumption DEF StartOff, NotStarted, Candidates, OffRecords, Progress
    <2> QED BY <1>1, <1>2, <1>3, <2>1 DEF StartOff
  <1>4. ASSUME NEW c \in OffCalls, Hydrate(c) PROVE OfframpTypeOK'
    <2>1. \A i \in DOMAIN registry : published[registry[i]] \in SUBSET Services
      BY <1>1, OfframpAssumption, PlacesHold
    <2>2. PICK i \in off[c].todo :
             \/ off' = [off EXCEPT ![c].todo = @ \ {i}]
             \/ off' = [off EXCEPT ![c].at = "fetched", ![c].read = published[registry[i]]]
             \/ \E why \in {"threw", "timedOut"} : off' = [off EXCEPT ![c].at = why]
      BY <1>4 DEF Hydrate, GoOff
    <2>3. off' \in [OffCalls -> OffRecords]
      <3>1. CASE off' = [off EXCEPT ![c].todo = @ \ {i}]
        BY <1>1, <3>1 DEF OffRecords
      <3>2. CASE off' = [off EXCEPT ![c].at = "fetched", ![c].read = published[registry[i]]]
        <4>1. published[registry[i]] \in SUBSET Services
          BY <1>1, <2>1 DEF OffRecords
        <4>2. PICK r \in SUBSET Services : r = published[registry[i]]
          BY <4>1
        <4>3. [off[c] EXCEPT !.at = "fetched", !.read = r] \in OffRecords
          BY <1>1 DEF OffRecords, Progress
        <4> QED BY <1>1, <3>2, <4>2, <4>3
      <3>3. CASE \E why \in {"threw", "timedOut"} : off' = [off EXCEPT ![c].at = why]
        <4>1. PICK why \in {"threw", "timedOut"} : off' = [off EXCEPT ![c].at = why]
          BY <3>3
        <4>2. why \in Progress
          BY DEF Progress
        <4> QED BY <4>1, <4>2, CallsTyped
      <3> QED BY <2>2, <3>1, <3>2, <3>3
    <2> QED BY <1>1, <1>2, <1>4, <2>3 DEF Hydrate
  <1>5. ASSUME NEW c \in OffCalls, WriteUrls(c) PROVE OfframpTypeOK'
    <2>1. PICK i \in off[c].todo :
             /\ urls' = [urls EXCEPT ![registry[i]] = off[c].read]
             /\ off' = [off EXCEPT ![c].at = "hydrating", ![c].todo = @ \ {i}, ![c].read = {}]
      BY <1>5 DEF WriteUrls
    <2>2. off' \in [OffCalls -> OffRecords]
      BY <1>1, <2>1 DEF OffRecords, Progress
    <2>3. urls' \in [OffAnchors -> SUBSET Services]
      BY <1>1, <2>1 DEF OffRecords
    <2> QED BY <1>1, <1>2, <1>5, <2>2, <2>3 DEF WriteUrls
  <1>6. ASSUME NEW c \in OffCalls, Select(c) PROVE OfframpTypeOK'
    <2>1. PICK a \in OffAnchors, x \in {"challenge", "threw"} :
             off' = [off EXCEPT ![c].anchor = a, ![c].at = x]
      BY <1>1, <1>6, PlacesHold DEF Select, OffRecords
    <2>2. off' \in [OffCalls -> OffRecords]
      BY <2>1, CallsTyped DEF Progress
    <2> QED BY <1>1, <1>2, <1>6, <2>2 DEF Select
  <1>7. ASSUME NEW c \in OffCalls, Challenge(c) \/ AuthFails(c) \/ Answer(c) \/ TimeOut(c)
        PROVE  OfframpTypeOK'
    <2>1. PICK at \in Progress : off' = [off EXCEPT ![c].at = at]
      BY <1>7 DEF Challenge, AuthFails, Answer, TimeOut, GoOff, Progress
    <2>2. off' \in [OffCalls -> OffRecords]
      BY <2>1, CallsTyped
    <2>3. UNCHANGED <<published, changes, registry, urls, listing, books>>
      BY <1>7 DEF Challenge, AuthFails, Answer, TimeOut
    <2> QED BY <1>1, <1>2, <2>2, <2>3
  <1>8. ASSUME NEW c \in OffCalls, Token(c) PROVE OfframpTypeOK'
    <2>1. off' \in [OffCalls -> OffRecords]
      <3>1. [off[c] EXCEPT !.at = "posting", !.jwt = TRUE] \in OffRecords
        BY <1>1 DEF OffRecords, Progress
      <3> QED BY <1>1, <1>8, <3>1 DEF Token
    <2>2. books' \in [OffCalls -> {"none", "request", "made", "refused"}]
      BY <1>1, <1>8 DEF Token
    <2> QED BY <1>1, <1>2, <1>8, <2>1, <2>2 DEF Token
  <1>9. ASSUME NEW c \in OffCalls, AnchorDecides(c) \/ ExpireToken(c) PROVE OfframpTypeOK'
    <2>1. CASE AnchorDecides(c)
      <3>1. books' \in [OffCalls -> {"none", "request", "made", "refused"}]
        BY <1>1, <2>1 DEF AnchorDecides
      <3> QED BY <1>1, <1>2, <2>1, <3>1 DEF AnchorDecides
    <2>2. CASE ExpireToken(c)
      <3>1. off' \in [OffCalls -> OffRecords]
        BY <2>2, CallsTyped DEF ExpireToken
      <3> QED BY <1>1, <1>2, <2>2, <3>1 DEF ExpireToken
    <2> QED BY <1>9, <2>1, <2>2
  <1>10. CASE AddAnchor
    <2>1. DOMAIN registry \subseteq DOMAIN registry'
      BY <1>10, PlacesHold
    <2>2. registry' \in {DefaultAnchors, Append(DefaultAnchors, CustomAnchor)}
      BY <1>10 DEF AddAnchor
    <2>3. off' \in [OffCalls -> OffRecords']
      BY <1>1, <1>10, <2>1 DEF AddAnchor, OffRecords
    <2> QED BY <1>1, <1>10, <2>2, <2>3 DEF AddAnchor, OfframpTypeOK, OffRecords
  <1>11. CASE Corridors
    <2>1. listing' \subseteq OffAnchors
      BY <1>1, <1>11, PlacesHold DEF Corridors
    <2> QED BY <1>1, <1>11, <2>1 DEF Corridors, OfframpTypeOK, OffRecords
  <1>12. CASE Republish
    <2>1. published' \in Publications /\ changes' \in 0..MaxChanges
      BY <1>1, <1>12, OfframpAssumption DEF Republish
    <2> QED BY <1>1, <1>12, <2>1 DEF Republish, OfframpTypeOK, OffRecords
  <1>13. CASE UNCHANGED offrampVars
    BY <1>1, <1>2, <1>13 DEF offrampVars
  <1> QED BY <1>3, <1>4, <1>5, <1>6, <1>7, <1>8, <1>9, <1>10, <1>11, <1>12, <1>13 DEF OfframpNext

\* Every step keeps what a call has posted, and where.
LEMMA CashingOutStep ==
    ASSUME OfframpInv, [OfframpNext]_offrampVars
    PROVE  \A c \in OffCalls : CashingOut(c)'
  <1>1. /\ OfframpTypeOK
        /\ off \in [OffCalls -> OffRecords]
        /\ books \in [OffCalls -> {"none", "request", "made", "refused"}]
        /\ \A c \in OffCalls : CashingOut(c)
    BY DEF OfframpInv, OfframpTypeOK, OffRecords
  <1>2. ASSUME NEW c \in OffCalls, CashingOut(c)', UNCHANGED registry,
               \A d \in OffCalls : d # c => off'[d] = off[d] /\ books'[d] = books[d]
        PROVE  \A d \in OffCalls : CashingOut(d)'
    BY <1>2, CallRests
  <1>3. ASSUME NEW c \in OffCalls, NEW kind \in Kinds, NEW named \in Named, StartOff(c, kind, named)
        PROVE  CashingOut(c)'
    <2>1. /\ off'[c].at \in {"threw", "hydrating"} /\ off'[c].prefers = named
          /\ off'[c].todo = Candidates(named) /\ off'[c].found = Candidates(named)
          /\ books[c] = "none" /\ UNCHANGED <<books, registry>>
      BY <1>1, <1>3 DEF StartOff, NotStarted, CashingOut
    <2>2. \A i \in Candidates(named) : registry[i] \in Serving \/ registry[i] = named
      BY DEF Candidates
    <2> QED BY <2>1, <2>2 DEF CashingOut, Chosen
  <1>4. ASSUME NEW c \in OffCalls, Hydrate(c) PROVE CashingOut(c)'
    <2>1. /\ off'[c].at \in {"hydrating", "fetched", "threw", "timedOut"}
          /\ off'[c].todo \subseteq off[c].todo /\ off'[c].found = off[c].found
          /\ off'[c].prefers = off[c].prefers
          /\ books[c] = "none" /\ UNCHANGED <<books, registry>>
      <3>1. off[c].at = "hydrating" /\ books[c] = "none" /\ UNCHANGED <<books, registry>>
        BY <1>1, <1>4 DEF Hydrate, CashingOut
      <3>2. PICK i \in off[c].todo :
               \/ off' = [off EXCEPT ![c].todo = @ \ {i}]
               \/ off' = [off EXCEPT ![c].at = "fetched", ![c].read = published[registry[i]]]
               \/ \E why \in {"threw", "timedOut"} : off' = [off EXCEPT ![c].at = why]
        BY <1>4 DEF Hydrate, GoOff
      <3>3. off[c] \in OffRecords
        BY <1>1
      <3>4. CASE off' = [off EXCEPT ![c].todo = @ \ {i}]
        BY <1>1, <3>1, <3>3, <3>4 DEF OffRecords
      <3>5. CASE off' = [off EXCEPT ![c].at = "fetched", ![c].read = published[registry[i]]]
        BY <1>1, <3>1, <3>3, <3>5 DEF OffRecords
      <3>6. CASE \E why \in {"threw", "timedOut"} : off' = [off EXCEPT ![c].at = why]
        BY <1>1, <3>1, <3>3, <3>6 DEF OffRecords
      <3> QED BY <3>2, <3>4, <3>5, <3>6
    <2> QED BY <1>1, <2>1 DEF CashingOut, Chosen
  <1>5. ASSUME NEW c \in OffCalls, WriteUrls(c) PROVE CashingOut(c)'
    <2>1. PICK i \in off[c].todo :
             off' = [off EXCEPT ![c].at = "hydrating", ![c].todo = @ \ {i}, ![c].read = {}]
      BY <1>5 DEF WriteUrls
    <2>2. /\ off'[c].at = "hydrating"
          /\ off'[c].todo \subseteq off[c].todo /\ off'[c].found = off[c].found
          /\ off'[c].prefers = off[c].prefers
      BY <1>1, <2>1
    <2>3. books[c] = "none" /\ UNCHANGED <<books, registry>>
      BY <1>1, <1>5 DEF WriteUrls, CashingOut
    <2> QED BY <1>1, <2>2, <2>3 DEF CashingOut, Chosen
  <1>6. ASSUME NEW c \in OffCalls, Select(c) PROVE CashingOut(c)'
    <2>1. PICK i \in off[c].found, x \in {"challenge", "threw"} :
             off' = [off EXCEPT ![c].anchor = registry[i], ![c].at = x]
      BY <1>6 DEF Select
    <2>2. /\ off'[c].at \in {"challenge", "threw"} /\ off'[c].anchor = registry[i]
          /\ off'[c].todo = off[c].todo /\ off'[c].found = off[c].found
          /\ off'[c].prefers = off[c].prefers
      BY <1>1, <2>1
    <2>3. books[c] = "none" /\ UNCHANGED <<books, registry>>
      BY <1>1, <1>6 DEF Select, CashingOut
    <2>4. registry[i] \in OffAnchors
      <3>1. i \in DOMAIN registry
        BY <1>1 DEF OffRecords
      <3> QED BY <1>1, <3>1, PlacesHold
    <2> QED BY <1>1, <2>2, <2>3, <2>4 DEF CashingOut, Chosen
  <1>7. ASSUME NEW c \in OffCalls, Token(c) PROVE CashingOut(c)'
    <2>1. /\ off'[c].at = "posting" /\ off'[c].anchor = off[c].anchor /\ off[c].at = "token"
          /\ off'[c].todo = off[c].todo /\ off'[c].found = off[c].found
          /\ off'[c].prefers = off[c].prefers /\ UNCHANGED registry
      BY <1>1, <1>7 DEF Token
    <2> QED BY <1>1, <2>1 DEF CashingOut, Chosen
  <1>8. ASSUME NEW c \in OffCalls, AnchorDecides(c) PROVE CashingOut(c)'
    <2>1. /\ books[c] = "request" /\ books'[c] \in {"made", "refused"} /\ UNCHANGED <<off, registry>>
      BY <1>1, <1>8 DEF AnchorDecides
    <2>2. off[c].at \in {"posting", "timedOut"}
      <3>1. off[c].at \in Progress /\ CashingOut(c)
        BY <1>1 DEF OffRecords
      <3> QED BY <2>1, <3>1 DEF CashingOut, Progress
    <2> QED BY <1>1, <2>1, <2>2 DEF CashingOut, Chosen
  <1>9. ASSUME NEW c \in OffCalls, ExpireToken(c) PROVE CashingOut(c)'
    <2>1. /\ off'[c].at = off[c].at /\ off'[c].anchor = off[c].anchor
          /\ off'[c].todo = off[c].todo /\ off'[c].found = off[c].found
          /\ off'[c].prefers = off[c].prefers /\ UNCHANGED <<registry, books>>
      BY <1>1, <1>9 DEF ExpireToken
    <2> QED BY <1>1, <2>1 DEF CashingOut
  <1>10. ASSUME NEW c \in OffCalls, Challenge(c) \/ AuthFails(c) \/ Answer(c) \/ TimeOut(c)
         PROVE  CashingOut(c)'
    <2>1. PICK at \in Progress : off' = [off EXCEPT ![c].at = at]
      BY <1>10 DEF Challenge, AuthFails, Answer, TimeOut, GoOff, Progress
    <2>2. /\ off'[c].at = at /\ off'[c].anchor = off[c].anchor
          /\ off'[c].todo = off[c].todo /\ off'[c].found = off[c].found
          /\ off'[c].prefers = off[c].prefers
      BY <1>1, <2>1
    <2>3. UNCHANGED <<registry, books>>
      BY <1>10 DEF Challenge, AuthFails, Answer, TimeOut
    <2>4. CASE Challenge(c)
      <3>1. at = "token" /\ off[c].at = "challenge"
        BY <1>1, <2>2, <2>4 DEF Challenge, GoOff
      <3> QED BY <1>1, <2>2, <2>3, <3>1 DEF CashingOut, Chosen
    <2>5. CASE AuthFails(c)
      <3>1. at \in {"threw", "timedOut"} /\ off[c].at \in {"challenge", "token"}
        BY <1>1, <2>2, <2>5 DEF AuthFails, GoOff
      <3> QED BY <1>1, <2>2, <2>3, <3>1 DEF CashingOut, Chosen
    <2>6. CASE Answer(c)
      <3>1. /\ (at = "handle" /\ books[c] = "made") \/ (at = "threw" /\ books[c] = "refused")
            /\ off[c].at = "posting"
        <4>1. \A x \in Progress : [off EXCEPT ![c].at = x][c].at = x
          BY <1>1 DEF OffRecords
        <4>2. \/ off' = [off EXCEPT ![c].at = "handle"] /\ books[c] = "made"
              \/ off' = [off EXCEPT ![c].at = "threw"] /\ books[c] = "refused"
          BY <2>6 DEF Answer, GoOff
        <4>3. \/ off'[c].at = "handle" /\ books[c] = "made"
              \/ off'[c].at = "threw" /\ books[c] = "refused"
          BY <4>1, <4>2 DEF Progress
        <4> QED BY <2>2, <2>6, <4>3 DEF Answer
      <3> QED BY <1>1, <2>2, <2>3, <3>1 DEF CashingOut, Chosen
    <2>7. CASE TimeOut(c)
      <3>1. at = "timedOut"
        BY <1>1, <2>2, <2>7 DEF TimeOut, GoOff
      <3> QED BY <1>1, <2>2, <2>3, <3>1 DEF CashingOut, Chosen
    <2> QED BY <1>10, <2>4, <2>5, <2>6, <2>7
  <1>11. CASE AddAnchor
    BY <1>1, <1>11, PlacesHold, CallRests DEF AddAnchor
  <1>12. CASE Corridors \/ Republish \/ UNCHANGED offrampVars
    BY <1>12, CallRests DEF Corridors, Republish, offrampVars
  <1>13. ASSUME NEW c \in OffCalls,
                \/ \E kind \in Kinds, named \in Named : StartOff(c, kind, named)
                \/ Hydrate(c) \/ WriteUrls(c) \/ Select(c)
                \/ Token(c) \/ AnchorDecides(c) \/ ExpireToken(c)
                \/ Challenge(c) \/ AuthFails(c) \/ Answer(c) \/ TimeOut(c)
         PROVE  \A d \in OffCalls : CashingOut(d)'
    <2>1. /\ UNCHANGED registry
          /\ \A d \in OffCalls : d # c => off'[d] = off[d] /\ books'[d] = books[d]
      BY <1>1, <1>13
         DEF StartOff, Hydrate, WriteUrls, Select, Token, AnchorDecides, ExpireToken,
             Challenge, AuthFails, Answer, TimeOut, GoOff
    <2>2. CashingOut(c)'
      BY <1>3, <1>4, <1>5, <1>6, <1>7, <1>8, <1>9, <1>10, <1>13
    <2> QED BY <1>2, <2>1, <2>2
  <1> QED BY <1>11, <1>12, <1>13 DEF OfframpNext


\* Every step keeps what is known of the services.
LEMMA ServicesStep ==
    ASSUME OfframpInv, [OfframpNext]_offrampVars PROVE ServicesKnown'
  <1>1. /\ OfframpTypeOK /\ changes \in Nat /\ off \in [OffCalls -> OffRecords]
        /\ urls \in [OffAnchors -> SUBSET Services]
        /\ \A c \in OffCalls : CashingOut(c)
    BY OfframpAssumption DEF OfframpInv, OfframpTypeOK, OffRecords
  <1>2. CASE Republish
    <2>1. changes' # 0
      BY <1>1, <1>2 DEF Republish
    <2> QED BY <2>1 DEF ServicesKnown
  <1>3. CASE ~Republish
    <2>1. UNCHANGED <<published, changes>>
      BY <1>3 DEF OfframpNext, StartOff, Hydrate, WriteUrls, Select, Challenge, Token, AuthFails,
                  AnchorDecides, Answer, TimeOut, ExpireToken, AddAnchor, Corridors, offrampVars
    <2>2. SUFFICES ASSUME changes = 0
                   PROVE  /\ \A a \in OffAnchors : urls'[a] \in {{}, published[a]}
                          /\ \A c \in OffCalls : Knows(c)'
      BY <2>1, Zenon DEF ServicesKnown
    <2>3. /\ \A a \in OffAnchors : urls[a] \in {{}, published[a]}
          /\ \A c \in OffCalls : Knows(c)
      BY <2>2 DEF OfframpInv, ServicesKnown
    <2>4. ASSUME NEW c \in OffCalls, off'[c] = off[c], \A a \in OffAnchors : urls[a] \subseteq urls'[a],
                 \A i \in DOMAIN registry : registry'[i] = registry[i]
          PROVE  Knows(c)'
      <3>1. off[c].todo \subseteq DOMAIN registry
        BY <1>1 DEF OffRecords
      <3>2. ASSUME off[c].at = "fetched", NEW i, Earliest(i, off[c].todo)
            PROVE  off[c].read = published'[registry'[i]]
        <4>1. i \in DOMAIN registry
          BY <3>1, <3>2 DEF Earliest
        <4> QED BY <2>1, <2>3, <2>4, <3>2, <4>1 DEF Knows
      <3>3. ASSUME off[c].at \in Chosen PROVE Needs(off[c].kind) \subseteq urls'[off[c].anchor]
        BY <1>1, <2>3, <2>4, <3>3 DEF Knows, CashingOut
      <3> QED BY <2>4, <3>2, <3>3 DEF Knows
    <2>5. ASSUME NEW c \in OffCalls, Knows(c)', UNCHANGED <<urls, registry>>,
                 \A d \in OffCalls : d # c => off'[d] = off[d]
          PROVE  /\ \A a \in OffAnchors : urls'[a] \in {{}, published[a]}
                 /\ \A d \in OffCalls : Knows(d)'
      BY <2>3, <2>4, <2>5
    <2>6. ASSUME NEW c \in OffCalls, NEW kind \in Kinds, NEW named \in Named, StartOff(c, kind, named)
          PROVE  Knows(c)'
      <3>1. off'[c].at \in {"threw", "hydrating"}
        BY <1>1, <2>6 DEF StartOff, NotStarted
      <3> QED BY <3>1 DEF Knows, Chosen
    <2>7. ASSUME NEW c \in OffCalls, Hydrate(c) PROVE Knows(c)'
      <3>1. PICK i \in off[c].todo :
               /\ Earliest(i, off[c].todo)
               /\ \/ off' = [off EXCEPT ![c].todo = @ \ {i}]
                  \/ off' = [off EXCEPT ![c].at = "fetched", ![c].read = published[registry[i]]]
                  \/ \E why \in {"threw", "timedOut"} : off' = [off EXCEPT ![c].at = why]
        BY <2>7 DEF Hydrate, GoOff
      <3>2. off[c] \in OffRecords /\ off[c].at = "hydrating" /\ UNCHANGED registry
        BY <1>1, <2>7 DEF Hydrate
      <3>3. CASE off' = [off EXCEPT ![c].at = "fetched", ![c].read = published[registry[i]]]
        <4>1. /\ off'[c].at = "fetched" /\ off'[c].read = published[registry[i]]
              /\ off'[c].todo = off[c].todo
          BY <1>1, <3>2, <3>3 DEF OffRecords
        <4>2. ASSUME NEW j, Earliest(j, off[c].todo) PROVE j = i
          <5>1. i \in Nat /\ j \in Nat
            <6>1. i \in DOMAIN registry /\ j \in DOMAIN registry
              BY <3>2, <4>2 DEF OffRecords, Earliest
            <6> QED BY <1>1, <6>1, PlacesHold
          <5>2. i <= j /\ j <= i
            BY <3>1, <4>2 DEF Earliest
          <5> QED BY <5>1, <5>2
        <4> QED BY <2>1, <3>2, <4>1, <4>2 DEF Knows, Chosen
      <3>4. CASE off' = [off EXCEPT ![c].todo = @ \ {i}]
        <4>1. off'[c].at = "hydrating"
          BY <1>1, <3>2, <3>4 DEF OffRecords
        <4> QED BY <4>1 DEF Knows, Chosen
      <3>5. CASE \E why \in {"threw", "timedOut"} : off' = [off EXCEPT ![c].at = why]
        <4>1. off'[c].at \in {"threw", "timedOut"}
          BY <1>1, <3>2, <3>5 DEF OffRecords
        <4> QED BY <4>1 DEF Knows, Chosen
      <3> QED BY <3>1, <3>3, <3>4, <3>5
    <2>8. ASSUME NEW c \in OffCalls, WriteUrls(c)
          PROVE  /\ \A a \in OffAnchors : urls'[a] \in {{}, published[a]}
                 /\ \A d \in OffCalls : Knows(d)'
      <3>1. PICK i \in off[c].todo :
               /\ Earliest(i, off[c].todo)
               /\ urls' = [urls EXCEPT ![registry[i]] = off[c].read]
               /\ off' = [off EXCEPT ![c].at = "hydrating", ![c].todo = @ \ {i}, ![c].read = {}]
        BY <2>8 DEF WriteUrls
      <3>2. off[c].read = published[registry[i]] /\ off[c].at = "fetched" /\ UNCHANGED registry
        BY <2>3, <2>8, <3>1 DEF WriteUrls, Knows
      <3>3. \A a \in OffAnchors : urls'[a] \in {{}, published[a]} /\ urls[a] \subseteq urls'[a]
        BY <1>1, <2>3, <3>1, <3>2
      <3>4. off'[c].at = "hydrating" /\ \A d \in OffCalls : d # c => off'[d] = off[d]
        BY <1>1, <3>1 DEF OffRecords
      <3>5. Knows(c)'
        BY <3>4 DEF Knows, Chosen
      <3> QED BY <2>4, <3>2, <3>3, <3>4, <3>5
    <2>9. ASSUME NEW c \in OffCalls, Select(c) PROVE Knows(c)'
      <3>1. PICK i \in off[c].found :
               off' = [off EXCEPT ![c].anchor = registry[i],
                                  ![c].at = IF Needs(off[c].kind) \subseteq urls[registry[i]]
                                            THEN "challenge" ELSE "threw"]
        BY <2>9 DEF Select
      <3>2. /\ off'[c].anchor = registry[i] /\ off'[c].kind = off[c].kind
            /\ off'[c].at = IF Needs(off[c].kind) \subseteq urls[registry[i]]
                            THEN "challenge" ELSE "threw"
        BY <1>1, <3>1 DEF OffRecords
      <3>3. UNCHANGED urls
        BY <2>9 DEF Select
      <3> QED BY <3>2, <3>3 DEF Knows, Chosen
    <2>10. ASSUME NEW c \in OffCalls,
                  Challenge(c) \/ Token(c) \/ AuthFails(c) \/ Answer(c) \/ TimeOut(c) \/ ExpireToken(c)
           PROVE  Knows(c)'
      <3>1. off[c].at \in Chosen /\ UNCHANGED urls
        BY <2>10 DEF Challenge, Token, AuthFails, Answer, TimeOut, ExpireToken, Chosen
      <3>2. \E at \in Progress, b \in BOOLEAN :
               at # "fetched" /\ \/ off' = [off EXCEPT ![c].at = at]
                                 \/ off' = [off EXCEPT ![c].at = at, ![c].jwt = b]
                                 \/ off' = [off EXCEPT ![c].jwt = b]
        BY <2>10 DEF Challenge, Token, AuthFails, Answer, TimeOut, ExpireToken, GoOff, Progress
      <3>3. /\ off'[c].anchor = off[c].anchor /\ off'[c].kind = off[c].kind
            /\ off'[c].at # "fetched"
        BY <1>1, <3>1, <3>2 DEF OffRecords, Chosen
      <3> QED BY <2>3, <3>1, <3>3 DEF Knows
    <2>11. CASE AddAnchor
      <3>1. UNCHANGED <<urls, off>> /\ \A i \in DOMAIN registry : registry'[i] = registry[i]
        BY <1>1, <2>11, PlacesHold DEF AddAnchor
      <3> QED BY <2>3, <2>4, <3>1
    <2>12. ASSUME UNCHANGED <<urls, off, registry>>
           PROVE  /\ \A a \in OffAnchors : urls'[a] \in {{}, published[a]}
                  /\ \A c \in OffCalls : Knows(c)'
      BY <2>3, <2>4, <2>12
    <2>13. ASSUME NEW c \in OffCalls,
                  \/ \E kind \in Kinds, named \in Named : StartOff(c, kind, named)
                  \/ Hydrate(c) \/ Select(c) \/ Challenge(c) \/ Token(c) \/ AuthFails(c)
                  \/ Answer(c) \/ TimeOut(c) \/ ExpireToken(c)
           PROVE  UNCHANGED <<urls, registry>> /\ \A d \in OffCalls : d # c => off'[d] = off[d]
      BY <1>1, <2>13 DEF StartOff, Hydrate, Select, Challenge, Token, AuthFails, Answer, TimeOut,
                         ExpireToken, GoOff
    <2>14. ASSUME NEW c \in OffCalls,
                  \/ \E kind \in Kinds, named \in Named : StartOff(c, kind, named)
                  \/ Hydrate(c) \/ Select(c) \/ Challenge(c) \/ Token(c) \/ AuthFails(c)
                  \/ Answer(c) \/ TimeOut(c) \/ ExpireToken(c)
           PROVE  /\ \A a \in OffAnchors : urls'[a] \in {{}, published[a]}
                  /\ \A d \in OffCalls : Knows(d)'
      <3>1. Knows(c)'
        BY <2>6, <2>7, <2>9, <2>10, <2>14
      <3> QED BY <2>5, <2>13, <2>14, <3>1
    <2>15. CASE (\E c \in OffCalls : AnchorDecides(c)) \/ Corridors \/ UNCHANGED offrampVars
      BY <2>12, <2>15 DEF AnchorDecides, Corridors, offrampVars
    <2> QED BY <1>3, <2>8, <2>11, <2>14, <2>15 DEF OfframpNext
  <1> QED BY <1>2, <1>3

\* Every step keeps all of it.
LEMMA OfframpStep == OfframpInv /\ [OfframpNext]_offrampVars => OfframpInv'
  <1> SUFFICES ASSUME OfframpInv, [OfframpNext]_offrampVars PROVE OfframpInv'
    OBVIOUS
  <1>1. OfframpTypeOK'
    BY OfframpTypedStep DEF OfframpInv
  <1>2. \A c \in OffCalls : CashingOut(c)'
    BY CashingOutStep
  <1>3. ServicesKnown'
    BY ServicesStep
  <1> QED BY <1>1, <1>2, <1>3 DEF OfframpInv

\* It says of handles and errors what the property says.
LEMMA OfframpInvHolds == OfframpInv => AnchorHolds
  <1> SUFFICES ASSUME OfframpInv, NEW c \in OffCalls
               PROVE  /\ off[c].at = "handle" =>
                            /\ books[c] = "made"
                            /\ off[c].anchor \in Serving \/ off[c].anchor = off[c].prefers
                      /\ off[c].at = "threw" => books[c] \in {"none", "refused"}
                      /\ changes = 0 /\ off[c].at \in {"challenge", "token", "posting", "handle"} =>
                            Needs(off[c].kind) \subseteq urls[off[c].anchor]
                      /\ changes = 0 /\ off[c].at = "handle" /\ off[c].jwt /\ off[c].kind = "withdraw" =>
                            StatusAnswers(c)
    BY Zenon DEF AnchorHolds
  <1>1. CashingOut(c) /\ (changes = 0 => Knows(c))
    BY DEF OfframpInv, ServicesKnown
  <1>2. off[c].kind = "withdraw" => "sep24" \in Needs(off[c].kind)
    BY DEF Needs
  <1> QED BY <1>1, <1>2 DEF CashingOut, Knows, Chosen, StatusAnswers

\* For any number of overlapping calls, anchors and publications: a handle stands for
\* a transaction its anchor made for that call, at an anchor that serves the corridor
\* or was named; a call that threw left nothing behind; and until a stellar.toml
\* changes, calls that share a descriptor leave each other the URLs they use
\* (offramp/stellar-anchor.ts:172-225, 312-560).
THEOREM AnchorAlwaysHolds == OfframpSpec => []AnchorHolds
  <1> QED BY OfframpInitially, OfframpStep, OfframpInvHolds, PTL DEF OfframpSpec

-------------------------------------------------------------------------------
(* Audits.  The ids taken from the queue are those of degree 0 that are not *)
(* in it; what is left of a degree is the edges from the others, and an id  *)
(* on a cycle never comes down to 0.                                        *)

Ids == ToSet(sorting.graph.nodes)
Taken == {n \in Ids : sorting.degree[n] = 0} \ sorting.queue

\* A graph of nodes and of the causes between them.
Causal == [nodes : Seq(NodeIds), edges : Seq(NodeIds \X NodeIds)]

\* A set in which everything has a cause has a cycle.
Looped(g, s) == \A n \in s : \E m \in s : <<m, n>> \in Edges(g)

\* The variables of Kahn's algorithm between two of its turns.
SortingInv ==
    /\ sorting.graph \in Causal
    /\ sorting = [graph |-> sorting.graph, degree |-> sorting.degree, queue |-> sorting.queue,
                  visited |-> sorting.visited]
    /\ sorting.degree \in [Ids -> Nat]
    /\ sorting.queue \subseteq {n \in Ids : sorting.degree[n] = 0}
    /\ sorting.visited = Cardinality(Taken)
    /\ \A n \in Ids : sorting.degree[n] = Cardinality(Arcs(sorting.graph, Ids \ Taken, n))
    /\ \A s \in SUBSET Ids : Looped(sorting.graph, s) => \A n \in s : sorting.degree[n] # 0

\* The edges of a graph are finitely many, and those from two sets of ids that
\* have none in common are counted apart.
LEMMA ArcsCounted ==
    ASSUME NEW g \in Causal, NEW big, NEW small, small \subseteq big, NEW n
    PROVE  /\ IsFiniteSet(Arcs(g, big, n)) /\ Cardinality(Arcs(g, big, n)) \in Nat
           /\ Cardinality(Arcs(g, small, n)) \in 0..Cardinality(Arcs(g, big, n))
           /\ Cardinality(Arcs(g, big \ small, n))
                 = Cardinality(Arcs(g, big, n)) - Cardinality(Arcs(g, small, n))
<1>1. IsFiniteSet(DOMAIN g.edges)
  <2>1. Len(g.edges) \in Nat /\ DOMAIN g.edges = 1..Len(g.edges)
    BY DEF Causal
  <2>2. 1 \in Int /\ Len(g.edges) \in Int
    BY <2>1
  <2>3. IsFiniteSet(1..Len(g.edges))
    BY ONLY <2>2, FS_Interval, Zenon
  <2> QED BY ONLY <2>1, <2>3, Zenon
<1> DEFINE B == Arcs(g, big, n)
           S == Arcs(g, small, n)
<1>2. B \in SUBSET DOMAIN g.edges /\ S \in SUBSET B
  BY DEF Arcs
<1>3. Arcs(g, big \ small, n) = B \ S /\ B \cap S = S
  BY DEF Arcs
<1> HIDE DEF B, S
<1>4. IsFiniteSet(B)
  BY <1>1, <1>2, FS_Subset
<1>5. IsFiniteSet(S) /\ Cardinality(S) <= Cardinality(B)
  BY <1>2, <1>4, FS_Subset
<1>6. Cardinality(B) \in Nat /\ Cardinality(S) \in Nat
  BY <1>4, <1>5, FS_CardinalityType
<1>7. Cardinality(B \ S) = Cardinality(B) - Cardinality(S)
  BY <1>3, <1>4, FS_Difference
<1>8. Cardinality(S) \in 0..Cardinality(B)
  BY ONLY <1>5, <1>6
<1> QED BY <1>3, <1>4, <1>6, <1>7, <1>8, Zenon DEF B, S

\* What is left when some ids are taken away.
LEMMA ArcsLeft ==
    ASSUME NEW g \in Causal, NEW big, NEW small, small \subseteq big, NEW n
    PROVE  Cardinality(Arcs(g, big \ small, n))
              = Cardinality(Arcs(g, big, n)) - Cardinality(Arcs(g, small, n))
BY ArcsCounted

\* The nodes of a graph are at least as many as their ids, and as many only when
\* no id is repeated.
LEMMA IdsCounted ==
    ASSUME NEW g \in Causal
    PROVE  /\ IsFiniteSet(ToSet(g.nodes)) /\ Cardinality(ToSet(g.nodes)) \in Nat
           /\ Len(g.nodes) \in Nat /\ Cardinality(ToSet(g.nodes)) <= Len(g.nodes)
           /\ Cardinality(ToSet(g.nodes)) = Len(g.nodes) <=> IsInjective(g.nodes)
<1> DEFINE f == g.nodes
           T == ToSet(f)
<1>1. f \in Seq(NodeIds) /\ Len(f) \in Nat /\ DOMAIN f = 1..Len(f) /\ f = [i \in DOMAIN f |-> f[i]]
  BY DEF Causal
<1>2. T = {f[i] : i \in DOMAIN f}
  BY DEF ToSet
<1> HIDE DEF f, T
<1>3. f \in Surjection(DOMAIN f, T)
  BY <1>1, <1>2 DEF Surjection
<1>4. f \in Injection(DOMAIN f, T) <=> IsInjective(f)
  BY <1>1, <1>2 DEF Injection, IsInjective
<1>5. IsFiniteSet(DOMAIN f) /\ Cardinality(DOMAIN f) = Len(f)
  <2>1. PICK k \in Nat : k = Len(f)
    BY <1>1
  <2>2. IsFiniteSet(1..k) /\ Cardinality(1..k) = IF 1 > k THEN 0 ELSE k - 1 + 1
    <3>1. 1 \in Int /\ k \in Int
      OBVIOUS
    <3> QED BY ONLY <3>1, FS_Interval, Zenon
  <2>3. Cardinality(1..k) = k
    BY ONLY <2>1, <2>2
  <2> QED BY <1>1, <2>1, <2>2, <2>3, Zenon
<1>6. /\ IsFiniteSet(T) /\ Cardinality(T) <= Cardinality(DOMAIN f)
      /\ Cardinality(T) = Cardinality(DOMAIN f) <=> f \in Injection(DOMAIN f, T)
  BY <1>3, <1>5, FS_Surjection
<1> QED BY <1>1, <1>4, <1>5, <1>6, FS_CardinalityType DEF f, T

\* What has a cause among the ids it is looked for has an edge from them.
LEMMA LoopedHasArcs ==
    ASSUME NEW g \in Causal, NEW s \in SUBSET ToSet(g.nodes), NEW n \in s, Looped(g, s)
    PROVE  \A others : s \subseteq others => Cardinality(Arcs(g, others, n)) # 0
<1> SUFFICES ASSUME NEW others, s \subseteq others PROVE Cardinality(Arcs(g, others, n)) # 0
  OBVIOUS
<1>1. PICK m \in s : <<m, n>> \in Edges(g)
  BY DEF Looped
<1>2. PICK i \in DOMAIN g.edges : g.edges[i] = <<m, n>>
  BY <1>1 DEF Edges, ToSet
<1>3. i \in Arcs(g, others, n)
  BY <1>2 DEF Arcs
<1>4. IsFiniteSet(Arcs(g, others, n))
  BY ArcsCounted
<1> QED BY <1>3, <1>4, FS_EmptySet

\* At the start there is no graph.
LEMMA SortingInitially == sorting = NoSorting => SortingInv
<1> SUFFICES ASSUME sorting = NoSorting PROVE SortingInv
  OBVIOUS
<1>1. sorting.graph = [nodes |-> <<>>, edges |-> <<>>] /\ sorting.graph \in Causal
  BY DEF NoSorting, Causal
<1>2. Ids = {}
  BY <1>1 DEF Ids, ToSet
<1>3. Taken = {} /\ Cardinality({}) = 0
  BY <1>2, FS_EmptySet DEF Taken
<1>4. sorting.visited = 0 /\ sorting.queue = {} /\ sorting.degree = <<>>
  BY DEF NoSorting
<1>5. sorting.degree \in [Ids -> Nat]
  BY <1>2, <1>4
<1>6. sorting = [graph |-> sorting.graph, degree |-> sorting.degree, queue |-> sorting.queue,
                 visited |-> sorting.visited]
  BY DEF NoSorting
<1> QED BY <1>1, <1>2, <1>3, <1>4, <1>5, <1>6 DEF SortingInv

\* Before the first turn no id is taken, and what has no cause is queued.
LEMMA SortingStarts ==
    ASSUME NEW g \in Graphs, Synthesize(g)
    PROVE  SortingInv'
<1>1. g \in Causal
  BY ResearchAssumption DEF Causal
<1>2. /\ sorting'.graph = g /\ sorting'.degree = [n \in ToSet(g.nodes) |-> InDegree(g, n)]
      /\ sorting'.queue = {n \in ToSet(g.nodes) : InDegree(g, n) = 0} /\ sorting'.visited = 0
      /\ sorting' = [graph |-> sorting'.graph, degree |-> sorting'.degree,
                     queue |-> sorting'.queue, visited |-> sorting'.visited]
  BY DEF Synthesize
<1>3. Ids' = ToSet(g.nodes)
  BY <1>2 DEF Ids
<1>4. ASSUME NEW n \in ToSet(g.nodes)
      PROVE  /\ InDegree(g, n) \in Nat
             /\ InDegree(g, n) = Cardinality(Arcs(g, ToSet(g.nodes), n))
  BY <1>1, ArcsCounted DEF InDegree
<1>5. sorting'.degree \in [ToSet(g.nodes) -> Nat]
  BY <1>2, <1>4
<1>6. sorting'.queue = {n \in ToSet(g.nodes) : sorting'.degree[n] = 0}
  BY <1>2
<1>7. Taken' = {} /\ Cardinality({}) = 0
  BY <1>3, <1>6, FS_EmptySet DEF Taken
<1>8. \A n \in ToSet(g.nodes) : sorting'.degree[n] = Cardinality(Arcs(g, ToSet(g.nodes) \ {}, n))
  BY <1>2, <1>4
<1>9. ASSUME NEW s \in SUBSET ToSet(g.nodes), Looped(g, s), NEW n \in s PROVE sorting'.degree[n] # 0
  <2>1. Cardinality(Arcs(g, ToSet(g.nodes), n)) # 0
    BY <1>1, <1>9, LoopedHasArcs
  <2> QED BY <1>2, <1>4, <2>1
<1>10. (Looped(g, {}) <=> TRUE) /\ \A s : Looped(sorting.graph, s)' <=> Looped(sorting'.graph, s)
  BY DEF Looped, Edges
<1> QED BY <1>1, <1>2, <1>3, <1>5, <1>6, <1>7, <1>8, <1>9, Zenon DEF SortingInv

\* A turn takes one id.
LEMMA SortingTurns ==
    ASSUME SortingInv, NEW n \in NodeIds, Visit(n)
    PROVE  SortingInv'
<1> DEFINE g == sorting.graph
           left == Ids \ Taken
           Removed(m) == Cardinality(Arcs(g, {n}, m))
<1>1. /\ g \in Causal /\ n \in sorting.queue /\ n \in Ids /\ sorting.degree[n] = 0
      /\ sorting.degree \in [Ids -> Nat]
      /\ n \notin Taken
  BY DEF SortingInv, Visit, Taken
<1>2. /\ sorting'.graph = g
      /\ sorting'.degree = [m \in Ids |-> sorting.degree[m] - Removed(m)]
      /\ sorting'.queue = (sorting.queue \ {n}) \cup {m \in Ids : sorting.degree[m] \in 1..Removed(m)}
      /\ sorting'.visited = sorting.visited + 1
      /\ sorting' = [graph |-> sorting'.graph, degree |-> sorting'.degree,
                     queue |-> sorting'.queue, visited |-> sorting'.visited]
  BY DEF SortingInv, Visit, Ids
<1>3. Ids' = Ids
  BY <1>2 DEF Ids
<1>4. {n} \in SUBSET left
  BY <1>1
<1>5. ASSUME NEW m \in Ids
      PROVE  /\ sorting.degree[m] = Cardinality(Arcs(g, left, m)) /\ sorting.degree[m] \in Nat
             /\ Removed(m) \in 0..sorting.degree[m]
             /\ Cardinality(Arcs(g, left \ {n}, m)) = sorting.degree[m] - Removed(m)
             /\ sorting'.degree[m] = sorting.degree[m] - Removed(m)
  <2>1. sorting.degree[m] = Cardinality(Arcs(g, left, m)) /\ sorting.degree[m] \in Nat
    BY <1>1 DEF SortingInv
  <2>2. sorting'.degree[m] = sorting.degree[m] - Removed(m)
    BY <1>2
  <2>3. /\ Removed(m) \in 0..Cardinality(Arcs(g, left, m))
        /\ Cardinality(Arcs(g, left \ {n}, m)) = Cardinality(Arcs(g, left, m)) - Removed(m)
    <3>1. g \in Causal /\ {n} \subseteq left
      BY <1>1, <1>4
    <3> HIDE DEF g, left
    <3>2. Cardinality(Arcs(g, {n}, m)) \in 0..Cardinality(Arcs(g, left, m))
      BY ONLY <3>1, ArcsCounted
    <3>3. Cardinality(Arcs(g, left \ {n}, m))
             = Cardinality(Arcs(g, left, m)) - Cardinality(Arcs(g, {n}, m))
      BY ONLY <3>1, ArcsLeft
    <3> QED BY <3>2, <3>3
  <2> QED BY <2>1, <2>2, <2>3, Zenon
<1> HIDE DEF g, Removed, left
<1>6. \A m \in Ids : /\ sorting.degree[m] \in Nat /\ Removed(m) \in 0..sorting.degree[m]
                     /\ sorting'.degree[m] = sorting.degree[m] - Removed(m)
  BY <1>5
<1>7. sorting'.degree \in [Ids -> Nat]
  BY <1>2, <1>6
<1>8. \A m \in Ids : sorting'.degree[m] = 0
          <=> sorting.degree[m] = 0 \/ sorting.degree[m] \in 1..Removed(m)
  BY <1>6
<1>9. \A m \in Ids : sorting.degree[m] \in 1..Removed(m) => sorting.degree[m] # 0
  OBVIOUS
<1>10. sorting.queue \subseteq {m \in Ids : sorting.degree[m] = 0}
  BY DEF SortingInv
<1>11. sorting'.queue \subseteq {m \in Ids : sorting'.degree[m] = 0}
  BY <1>2, <1>8, <1>10, Zenon
<1>12. Taken' = Taken \cup {n}
  BY <1>1, <1>2, <1>3, <1>8, <1>9, <1>10, Zenon DEF Taken
<1>13. IsFiniteSet(Taken)
  BY <1>1, IdsCounted, FS_Subset DEF Taken, Ids, g
<1>14. sorting'.visited = Cardinality(Taken')
  <2>1. Cardinality(Taken \cup {n}) = Cardinality(Taken) + 1
    BY <1>1, <1>13, FS_AddElement
  <2> QED BY <1>2, <1>12, <2>1 DEF SortingInv
<1>15. Ids' \ Taken' = left \ {n}
  BY <1>3, <1>12 DEF left
<1>16. \A m \in Ids : sorting'.degree[m] = Cardinality(Arcs(g, left \ {n}, m))
  BY <1>5
<1>17. ASSUME NEW s \in SUBSET Ids, Looped(g, s), NEW m \in s PROVE sorting'.degree[m] # 0
  <2>1. \A k \in s : sorting.degree[k] # 0
    BY <1>17 DEF SortingInv, g
  <2>2. s \subseteq left \ {n}
    BY <1>1, <2>1 DEF Taken, left
  <2>3. Cardinality(Arcs(g, left \ {n}, m)) # 0
    BY <1>1, <1>17, <2>2, LoopedHasArcs DEF Ids, g
  <2> QED BY <1>16, <2>3
<1> QED BY <1>1, <1>2, <1>3, <1>7, <1>11, <1>14, <1>15, <1>16, <1>17, Zenon DEF SortingInv

\* When the queue is empty, what is left has a cause that is left, and nothing is
\* left of a graph without a cycle.
LEMMA SortingEnds ==
    ASSUME SortingInv, sorting.queue = {}
    PROVE  sorting.visited >= Len(sorting.graph.nodes)
              <=> ~HasCycle(sorting.graph) /\ IsInjective(sorting.graph.nodes)
<1> DEFINE g == sorting.graph
           left == Ids \ Taken
<1>1. /\ g \in Causal /\ Ids = ToSet(g.nodes)
      /\ IsFiniteSet(Ids) /\ Cardinality(Ids) \in Nat /\ Len(g.nodes) \in Nat
      /\ Cardinality(Ids) <= Len(g.nodes)
      /\ Cardinality(Ids) = Len(g.nodes) <=> IsInjective(g.nodes)
  BY IdsCounted DEF SortingInv, Ids
<1>2. /\ Taken \in SUBSET Ids /\ Taken = {n \in Ids : sorting.degree[n] = 0}
      /\ sorting.visited = Cardinality(Taken)
      /\ \A n \in Ids : sorting.degree[n] = Cardinality(Arcs(g, left, n))
      /\ \A s \in SUBSET Ids : Looped(g, s) => \A n \in s : sorting.degree[n] # 0
  BY DEF SortingInv, Taken
<1>3. HasCycle(g) <=> \E s \in (SUBSET Ids) \ {{}} : Looped(g, s)
  BY <1>1 DEF HasCycle, Looped
<1>4. HasCycle(g) => Taken # Ids
  <2> SUFFICES ASSUME HasCycle(g), Taken = Ids PROVE FALSE
    OBVIOUS
  <2>1. PICK s \in (SUBSET Ids) \ {{}} : Looped(g, s)
    BY <1>3
  <2>2. PICK n \in s : TRUE
    OBVIOUS
  <2>3. n \in Taken /\ sorting.degree[n] # 0
    BY <1>2, <2>1, <2>2, Zenon
  <2> QED BY <1>2, <2>3
<1>5. Looped(g, left)
  <2> SUFFICES ASSUME NEW n \in left PROVE \E m \in left : <<m, n>> \in Edges(g)
    BY DEF Looped
  <2>1. Cardinality(Arcs(g, left, n)) # 0
    BY <1>2
  <2>2. PICK i \in Arcs(g, left, n) : TRUE
    BY <2>1, FS_EmptySet
  <2>3. /\ i \in DOMAIN g.edges /\ g.edges[i] \in NodeIds \X NodeIds
        /\ g.edges[i][1] \in left /\ g.edges[i][2] = n
    BY <1>1, <2>2 DEF Arcs, Causal
  <2>4. g.edges[i] = <<g.edges[i][1], n>>
    BY <2>3
  <2>5. <<g.edges[i][1], n>> \in Edges(g)
    BY <1>1, <2>3, <2>4 DEF Edges, ToSet
  <2> QED BY <2>3, <2>5
<1>6. ~HasCycle(g) => Taken = Ids
  <2>1. left \in SUBSET Ids
    OBVIOUS
  <2>2. ~HasCycle(g) => left = {}
    BY <1>3, <1>5, <2>1, Zenon
  <2> QED BY <1>2, <2>2
<1>7. Cardinality(Taken) <= Cardinality(Ids) /\ (Cardinality(Ids) = Cardinality(Taken) => Ids = Taken)
  BY <1>1, <1>2, FS_Subset
<1>8. Cardinality(Taken) \in Nat
  BY <1>1, <1>2, FS_Subset, FS_CardinalityType
<1>9. sorting.visited >= Len(g.nodes) <=> Taken = Ids /\ Cardinality(Ids) = Len(g.nodes)
  <2>1. PICK taken \in Nat : taken = Cardinality(Taken)
    BY <1>8
  <2>2. PICK all \in Nat : all = Cardinality(Ids)
    BY <1>1
  <2>3. PICK len \in Nat : len = Len(g.nodes)
    BY <1>1
  <2>4. /\ taken <= all /\ all <= len /\ sorting.visited = taken
        /\ all = taken <=> Ids = Taken
    BY <1>1, <1>2, <1>7, <2>1, <2>2, <2>3, Zenon
  <2>5. taken >= len <=> taken = all /\ all = len
    BY ONLY <2>1, <2>2, <2>3, <2>4
  <2> QED BY <2>1, <2>2, <2>3, <2>4, <2>5, Zenon
<1> QED BY <1>1, <1>4, <1>6, <1>9, Zenon

\* What an adapter reads of a position.
Snapshots ==
    [collateral : Nat, debt : Nat, lltv : 0..100, health : Nat \X Nat, used : Nat \X Nat, carry : {0, 1}]

\* What an audit is.
Audited ==
    [at : {"idle", "reading", "read", "sorting", "reported", "refused", "threw"},
     protocol : Lenders \cup {"auto"}, chain : Chains, subject : Subjects, snapshot : Snapshots,
     score : 0..100,
     action : {"none", "HOLD", "REBALANCE_TO_PT", "DEFEND_KINK", "EMERGENCY_DELEVERAGE"}]

\* A report is what the snapshot asks for, and the snapshot is what the chain held
\* when the adapter of the protocol read it.
AsRead ==
    /\ audit.at \in {"reading", "read", "sorting", "reported"} => audit.protocol \in Lenders
    /\ audit.at \in {"read", "sorting", "reported"} =>
          \E f \in Facts : audit.snapshot = Snapshot(audit.protocol, audit.subject, f)
    /\ audit.at = "reported" =>
          audit.score = Score(audit.snapshot) /\ audit.action = Action(audit.snapshot)

\* What the audit never breaks.
AuditInv ==
    /\ adapters \in [Lenders -> Chains \cup {"none"}] /\ audit \in Audited
    /\ AsRead /\ SortingInv /\ KahnIsRight

\* What is read is well typed.
LEMMA SnapshotsTyped ==
    ASSUME NEW protocol \in Lenders, NEW subject, NEW f \in Facts
    PROVE  Snapshot(protocol, subject, f) \in Snapshots
<1>1. /\ f.supplied \in Nat /\ f.borrowed \in Nat /\ f.position \in Nat /\ f.lltv \in 0..100
      /\ f.lltv \in Nat
  <2>1. f \in [supplied : Nat, borrowed : Nat, lltv : 0..100, position : Nat, known : BOOLEAN]
    BY ResearchAssumption
  <2> QED BY <2>1
<1>2. Infinity \in Nat \X Nat /\ <<0, 1>> \in Nat \X Nat /\ Used(f) \in Nat \X Nat
  BY <1>1 DEF Infinity, Used
<1>3. ASSUME NEW c \in Nat PROVE Health(c, f.borrowed, f.lltv) \in Nat \X Nat
  <2>1. PICK l \in Nat, d \in Nat : l = f.lltv /\ d = f.borrowed
    BY <1>1
  <2>2. l * c \in Nat /\ 100 * d \in Nat
    OBVIOUS
  <2> QED BY <2>1, <2>2 DEF Health
<1>4. NoSnapshot \in Snapshots
  <2>1. 0 \in 0..100 /\ 0 \in Nat /\ 0 \in {0, 1}
    OBVIOUS
  <2> QED BY <1>2, <2>1, Zenon DEF Snapshots, NoSnapshot
<1>5. PICK r \in Snapshots, one \in {0, 1}, whole \in 0..100, u \in Nat \X Nat :
         r = NoSnapshot /\ one = 1 /\ whole = 100 /\ u = Used(f)
  BY <1>2, <1>4
<1>6. Pair(f) \in Snapshots
  <2>1. PICK n \in Nat, d \in Nat : n = f.supplied /\ d = f.borrowed
    BY <1>1
  <2>2. [r EXCEPT !.collateral = n, !.debt = d, !.used = u] \in Snapshots
    BY DEF Snapshots
  <2> QED BY <1>5, <2>1, <2>2, Zenon DEF Pair
<1>7. Pendle \in Snapshots
  <2>1. [r EXCEPT !.lltv = whole, !.carry = one] \in Snapshots
    BY DEF Snapshots
  <2> QED BY <1>5, <2>1, Zenon DEF Pendle
<1>8. Aave(f) \in Snapshots
  <2>1. PICK n \in Nat, d \in Nat, l \in 0..100 : n = f.position /\ d = f.borrowed /\ l = f.lltv
    BY <1>1
  <2>2. PICK h \in Nat \X Nat : h = IF d > 0 THEN Health(n, d, f.lltv) ELSE Infinity
    BY <1>2, <1>3, <2>1
  <2>3. [r EXCEPT !.collateral = n, !.debt = d, !.lltv = l, !.health = h] \in Snapshots
    BY DEF Snapshots
  <2> QED BY <1>5, <2>1, <2>2, <2>3, Zenon DEF Aave
<1>9. Morpho(subject, f) \in Snapshots
  <2>1. PICK n \in Nat, d \in Nat, l \in 0..100 :
           n = (IF subject = "borrower" THEN f.position ELSE f.supplied) /\ d = f.borrowed /\ l = f.lltv
    BY <1>1
  <2>2. PICK h \in Nat \X Nat : h = IF n > 0 THEN Health(n, d, f.lltv) ELSE Infinity
    BY <1>2, <1>3, <2>1
  <2>3. [r EXCEPT !.collateral = n, !.debt = d, !.lltv = l, !.health = h, !.used = u] \in Snapshots
    BY DEF Snapshots
  <2> QED BY <1>5, <2>1, <2>2, <2>3, Zenon DEF Morpho
<1> QED BY <1>6, <1>7, <1>8, <1>9 DEF Snapshot, Lenders

\* A score is a part of a hundred, and the distance to the threshold one that stays
\* below it.
LEMMA ScoresTyped ==
    ASSUME NEW s \in Snapshots
    PROVE  /\ Score(s) \in 0..100
           /\ Action(s) \in {"HOLD", "DEFEND_KINK", "EMERGENCY_DELEVERAGE"}
<1>1. /\ s.collateral \in Nat /\ s.debt \in Nat /\ s.lltv \in Nat /\ s.carry \in {0, 1}
      /\ s.health[1] \in Nat /\ s.health[2] \in Nat /\ s.used[1] \in Nat /\ s.used[2] \in Nat
  BY DEF Snapshots
<1>2. s.lltv > 0 => Distance(s) \in 0..100
  <2> SUFFICES ASSUME s.lltv > 0 PROVE Distance(s) \in 0..100
    OBVIOUS
  <2>1. PICK a \in Nat, b \in Nat :
           /\ a = IF s.collateral > 0 THEN 6000 * s.debt ELSE 0
           /\ b = IF s.collateral > 0 THEN s.lltv * s.collateral ELSE 1
    BY <1>1
  <2>2. b > 0
    BY <1>1, <2>1, ProductStrict
  <2>3. Distance(s) = IF 2 * a + b > 200 * b THEN 100 ELSE (2 * a + b) \div (2 * b)
    BY <2>1 DEF Distance
  <2>4. 2 * a + b <= 200 * b => (2 * a + b) \div (2 * b) \in 0..100
    BY <2>2, QuotientBounds
  <2> QED BY <2>3, <2>4
<1>3. Score(s) \in 0..100
  BY <1>2 DEF Score
<1>4. ~(s.carry < 0)
  BY <1>1
<1> QED BY <1>3, <1>4 DEF Action

\* An audit that was not asked for is typed.
LEMMA NothingAsked == NoAudit \in Audited
<1>1. Infinity \in Nat \X Nat /\ <<0, 1>> \in Nat \X Nat /\ 0 \in 0..100 /\ 0 \in Nat /\ 0 \in {0, 1}
  BY DEF Infinity
<1>2. NoSnapshot \in Snapshots
  BY <1>1, Zenon DEF Snapshots, NoSnapshot
<1>3. "ethereum" \in Chains /\ "market_id" \in Subjects
  BY DEF Chains, Subjects
<1> QED BY <1>1, <1>2, <1>3 DEF NoAudit, Audited

\* A report of what was read is a good one.
LEMMA ReportsHold == AuditInv => ReportHolds
<1> SUFFICES ASSUME AuditInv, audit.at = "reported" PROVE ReportHolds
  BY DEF ReportHolds
<1> DEFINE p == audit.protocol
           s == audit.snapshot
<1>1. /\ p \in Lenders /\ s \in Snapshots /\ audit.score = Score(s) /\ audit.action = Action(s)
  BY DEF AuditInv, AsRead, Audited
<1>2. PICK f \in Facts : s = Snapshot(p, audit.subject, f)
  BY DEF AuditInv, AsRead
<1>3. /\ f.supplied \in Nat /\ f.borrowed \in Nat /\ f.position \in Nat /\ f.lltv \in 0..100
      /\ f.lltv \in Nat
  <2>1. f \in [supplied : Nat, borrowed : Nat, lltv : 0..100, position : Nat, known : BOOLEAN]
    BY ResearchAssumption
  <2> QED BY <2>1
<1>4. /\ p = "morpho" => s = Morpho(audit.subject, f)
      /\ p = "aave" => s = Aave(f)
      /\ p = "pendle" => s = Pendle
  BY <1>2 DEF Snapshot
<1> HIDE DEF p, s
<1>5. PICK owned \in Nat, owes \in Nat, limit \in 0..100 :
         owned = s.collateral /\ owes = s.debt /\ limit = s.lltv
  BY <1>1 DEF Snapshots
<1>6. s.carry \in {0, 1}
  BY <1>1 DEF Snapshots
<1>7. Score(s) = 100 => Action(s) = "EMERGENCY_DELEVERAGE"
  BY DEF Action
<1>8. s.health = <<limit * owned, 100 * owes>> /\ 100 * owes > limit * owned
         => Action(s) = "EMERGENCY_DELEVERAGE"
  <2> SUFFICES ASSUME s.health = <<limit * owned, 100 * owes>>, 100 * owes > limit * owned
               PROVE  Score(s) = 100
    BY <1>7
  <2>1. limit * owned \in Nat
    OBVIOUS
  <2>2. Below(s.health, 1, 1)
    BY <2>1 DEF Below
  <2> QED BY <2>2 DEF Score
<1>9. CASE p = "aave"
  <2>1. owned = f.position /\ owes = f.borrowed /\ limit = f.lltv
    BY <1>4, <1>5, <1>9 DEF Aave, NoSnapshot
  <2>2. owes > 0 => s.health = <<limit * owned, 100 * owes>>
    BY <1>4, <1>9, <2>1 DEF Aave, NoSnapshot, Health
  <2>3. owes = 0 => ~(100 * owes > limit * owned)
    <3>1. limit * owned \in Nat
      OBVIOUS
    <3> QED BY <3>1
  <2>4. 100 * owes > limit * owned => Action(s) = "EMERGENCY_DELEVERAGE"
    BY <1>8, <2>2, <2>3
  <2>5. Action(s) # "REBALANCE_TO_PT"
    BY <1>1, ScoresTyped
  <2> QED BY <1>1, <1>5, <1>9, <2>4, <2>5 DEF ReportHolds, p, s
<1>10. CASE p = "pendle"
  <2>1. owned = 0 /\ owes = 0
    BY <1>4, <1>5, <1>10 DEF Pendle, NoSnapshot
  <2>2. ~(100 * owes > limit * owned)
    BY <2>1
  <2>5. Action(s) # "REBALANCE_TO_PT"
    BY <1>1, ScoresTyped
  <2> QED BY <1>1, <1>5, <1>10, <2>2, <2>5 DEF ReportHolds, p, s
<1>11. CASE p \in {"euler", "silo"}
  <2>5. Action(s) # "REBALANCE_TO_PT"
    BY <1>1, ScoresTyped
  <2> QED BY <1>1, <1>5, <1>11, <2>5 DEF ReportHolds, p, s
<1>12. CASE p = "morpho"
  <2>1. owned = (IF audit.subject = "borrower" THEN f.position ELSE f.supplied)
        /\ owes = f.borrowed /\ limit = f.lltv
    BY <1>4, <1>5, <1>12 DEF Morpho, NoSnapshot
  <2>2. owned > 0 => s.health = <<limit * owned, 100 * owes>>
    BY <1>4, <1>12, <2>1 DEF Morpho, NoSnapshot, Health
  <2>3. s.used = Used(f)
    BY <1>4, <1>12 DEF Morpho, NoSnapshot
  <2>4. 100 * owes > limit * owned /\ owned # 0 => Action(s) = "EMERGENCY_DELEVERAGE"
    BY <1>8, <2>2
  <2>5. Action(s) # "REBALANCE_TO_PT"
    BY <1>1, ScoresTyped
  <2>6. audit.subject # "borrower" /\ Kinked(s) => Action(s) = "EMERGENCY_DELEVERAGE"
    <3> SUFFICES ASSUME audit.subject # "borrower", Kinked(s) PROVE Score(s) >= 85
      BY DEF Action
    <3>1. owned = f.supplied /\ owned > 0 /\ 100 * owes > 92 * owned
      BY <1>3, <2>1, <2>3 DEF Kinked, Used
    <3>2. limit * owned <= 100 * owned /\ limit * owned \in Nat
      BY ProductOrder
    <3>3. limit * owned * 100 < 115 * (100 * owes) /\ 100 * owes # 0
      BY <3>1, <3>2
    <3>4. Below(s.health, 115, 100)
      BY <2>2, <3>1, <3>2, <3>3 DEF Below
    <3> QED BY <3>4 DEF Score
  <2>7. Action(s) = "DEFEND_KINK" => Kinked(s)
    BY DEF Action
  <2> QED BY <1>1, <1>5, <1>12, <2>4, <2>5, <2>6, <2>7 DEF ReportHolds, p, s
<1> QED BY <1>1, <1>9, <1>10, <1>11, <1>12 DEF Lenders

\* At the start nothing is asked.
LEMMA AuditInitially == ResearchInit => AuditInv
<1> SUFFICES ASSUME ResearchInit PROVE AuditInv
  OBVIOUS
<1>1. adapters \in [Lenders -> Chains \cup {"none"}] /\ audit = NoAudit /\ sorting = NoSorting
  BY ResearchAssumption DEF ResearchInit
<1>2. audit \in Audited /\ audit.at = "idle"
  BY <1>1, NothingAsked DEF NoAudit
<1> QED BY <1>1, <1>2, SortingInitially DEF AuditInv, AsRead, KahnIsRight

\* While the graph is not touched, what is known of it stays.
LEMMA SortingRests == SortingInv /\ UNCHANGED sorting => SortingInv'
BY DEF SortingInv, Ids, Taken

\* Every step of an audit keeps it.
LEMMA AuditStep == AuditInv /\ [ResearchNext]_researchVars => AuditInv'
<1> SUFFICES ASSUME AuditInv, [ResearchNext]_researchVars PROVE AuditInv'
  OBVIOUS
<1>1. /\ adapters \in [Lenders -> Chains \cup {"none"}] /\ audit \in Audited
      /\ AsRead /\ SortingInv /\ KahnIsRight
  BY DEF AuditInv
<1>2. ASSUME NEW r \in Audited
      PROVE  /\ \A place \in {"idle", "reading", "read", "sorting", "reported", "refused", "threw"} :
                   [r EXCEPT !.at = place] \in Audited
             /\ \A s \in Snapshots : [r EXCEPT !.at = "read", !.snapshot = s] \in Audited
             /\ \A score \in 0..100, action \in {"HOLD", "DEFEND_KINK", "EMERGENCY_DELEVERAGE"} :
                   [r EXCEPT !.at = "reported", !.score = score, !.action = action] \in Audited
  BY DEF Audited
<1>3. ASSUME NEW protocol \in Lenders \cup {"auto"}, NEW chain \in Chains, NEW subject \in Subjects,
             Audit(protocol, chain, subject)
      PROVE  AuditInv'
  <2>1. /\ audit'.at \in {"reading", "threw"} /\ (audit'.at = "reading" => protocol \in Lenders)
        /\ audit' = [NoAudit EXCEPT !.protocol = protocol, !.chain = chain, !.subject = subject,
                                    !.at = audit'.at]
        /\ adapters' = adapters /\ sorting' = sorting
    BY <1>3 DEF Audit, NoAudit
  <2>2. audit' \in Audited /\ audit'.protocol = protocol
    BY <2>1, NothingAsked DEF Audited, NoAudit
  <2>3. SortingInv'
    BY <1>1, <2>1, SortingRests
  <2> QED BY <1>1, <2>1, <2>2, <2>3 DEF AuditInv, AsRead, KahnIsRight
<1>4. ASSUME NEW f \in Facts, ReadPosition(f) PROVE AuditInv'
  <2>1. adapters' = adapters /\ sorting' = sorting /\ SortingInv'
    BY <1>1, <1>4, SortingRests DEF ReadPosition
  <2>2. audit.protocol \in Lenders /\ audit.subject \in Subjects
    BY <1>1, <1>4 DEF ReadPosition, AsRead, Audited
  <2>3. CASE audit' = [audit EXCEPT !.at = "threw"]
    <3>1. audit' \in Audited
      BY <1>1, <1>2, <2>3
    <3>2. audit'.at = "threw"
      BY <1>1, <2>3 DEF Audited
    <3> QED BY <1>1, <2>1, <3>1, <3>2 DEF AuditInv, AsRead, KahnIsRight
  <2>4. CASE audit' = [audit EXCEPT !.at = "read",
                                    !.snapshot = Snapshot(audit.protocol, audit.subject, f)]
    <3>1. audit' \in Audited
      BY <1>1, <1>2, <2>2, <2>4, SnapshotsTyped
    <3>2. /\ audit'.at = "read" /\ audit'.protocol = audit.protocol /\ audit'.subject = audit.subject
          /\ audit'.snapshot = Snapshot(audit.protocol, audit.subject, f)
      BY <1>1, <2>4 DEF Audited
    <3>3. AsRead'
      BY <2>2, <3>2 DEF AsRead
    <3> QED BY <1>1, <2>1, <3>1, <3>2, <3>3 DEF AuditInv, KahnIsRight
  <2> QED BY <1>4, <2>3, <2>4 DEF ReadPosition
<1>5. ASSUME NEW g \in Graphs, Synthesize(g) PROVE AuditInv'
  <2>1. adapters' = adapters /\ audit' = [audit EXCEPT !.at = "sorting"] /\ audit.at = "read"
    BY <1>5 DEF Synthesize
  <2>2. audit' \in Audited
    BY <1>1, <1>2, <2>1
  <2>3. /\ audit'.at = "sorting" /\ audit'.protocol = audit.protocol
        /\ audit'.subject = audit.subject /\ audit'.snapshot = audit.snapshot
    BY <1>1, <2>1 DEF Audited
  <2>4. AsRead'
    BY <1>1, <2>1, <2>3 DEF AsRead
  <2> QED BY <1>1, <1>5, <2>1, <2>2, <2>3, <2>4, SortingStarts DEF AuditInv, KahnIsRight
<1>6. ASSUME NEW n \in NodeIds, Visit(n) PROVE AuditInv'
  <2>1. UNCHANGED <<adapters, audit>> /\ audit.at = "sorting"
    BY <1>6 DEF Visit
  <2>2. SortingInv'
    BY <1>1, <1>6, SortingTurns
  <2> QED BY <1>1, <2>1, <2>2 DEF AuditInv, AsRead, KahnIsRight
<1>7. CASE Report
  <2>1. adapters' = adapters /\ sorting' = sorting /\ audit.at = "sorting" /\ sorting.queue = {}
    BY <1>7 DEF Report
  <2>2. SortingInv'
    BY <1>1, <2>1, SortingRests
  <2>3. sorting.visited >= Len(sorting.graph.nodes)
           <=> ~HasCycle(sorting.graph) /\ IsInjective(sorting.graph.nodes)
    BY <1>1, <2>1, SortingEnds
  <2>4. audit.snapshot \in Snapshots
    BY <1>1 DEF Audited
  <2>5. CASE sorting.visited >= Len(sorting.graph.nodes)
    <3>1. audit' = [audit EXCEPT !.at = "reported", !.score = Score(audit.snapshot),
                                 !.action = Action(audit.snapshot)]
      BY <1>7, <2>5 DEF Report
    <3>2. audit' \in Audited
      BY <1>1, <1>2, <2>4, <3>1, ScoresTyped
    <3>3. /\ audit'.at = "reported" /\ audit'.protocol = audit.protocol
          /\ audit'.subject = audit.subject /\ audit'.snapshot = audit.snapshot
          /\ audit'.score = Score(audit.snapshot) /\ audit'.action = Action(audit.snapshot)
      BY <1>1, <3>1 DEF Audited
    <3>4. AsRead'
      BY <1>1, <2>1, <3>3 DEF AsRead
    <3>5. ~HasCycle(sorting.graph) /\ IsInjective(sorting.graph.nodes)
      BY <2>3, <2>5
    <3>6. KahnIsRight'
      BY <2>1, <3>3, <3>5 DEF KahnIsRight, HasCycle, Edges
    <3> QED BY <1>1, <2>1, <2>2, <3>2, <3>4, <3>6 DEF AuditInv
  <2>6. CASE ~(sorting.visited >= Len(sorting.graph.nodes))
    <3>1. audit' = [audit EXCEPT !.at = "refused"]
      BY <1>7, <2>6 DEF Report
    <3>2. audit' \in Audited /\ audit'.at = "refused"
      <4>1. audit' \in Audited
        BY <1>1, <1>2, <3>1
      <4>2. audit'.at = "refused"
        BY <1>1, <3>1 DEF Audited
      <4> QED BY <4>1, <4>2
    <3>3. HasCycle(sorting.graph) \/ ~IsInjective(sorting.graph.nodes)
      BY <2>3, <2>6
    <3>4. KahnIsRight'
      BY <2>1, <3>2, <3>3 DEF KahnIsRight, HasCycle, Edges
    <3> QED BY <1>1, <2>1, <2>2, <3>2, <3>4 DEF AuditInv, AsRead
  <2> QED BY <2>5, <2>6
<1>8. CASE NextAudit
  <2>1. adapters' = adapters /\ audit' = NoAudit /\ sorting' = NoSorting
    BY <1>8 DEF NextAudit
  <2>2. (sorting = NoSorting => SortingInv)'
    BY SortingInitially, PTL
  <2>3. SortingInv'
    BY <2>1, <2>2 DEF NoSorting
  <2> QED BY <1>1, <2>1, <2>3, NothingAsked DEF AuditInv, AsRead, KahnIsRight, NoAudit
<1>9. CASE UNCHANGED researchVars
  <2>1. UNCHANGED <<adapters, audit, sorting>>
    BY <1>9 DEF researchVars
  <2> QED BY <1>1, <2>1, SortingRests DEF AuditInv, AsRead, KahnIsRight
<1> QED BY <1>3, <1>4, <1>5, <1>6, <1>7, <1>8, <1>9 DEF ResearchNext

\* For any graphs, chains and positions: Kahn's algorithm lets exactly the graphs pass
\* that have no cycle and repeat no id (assertAcyclic() of research/graph/builder.ts),
\* and the report says of the position what was read of it (computeRiskScore() and
\* computeActionRecommendation() of research/graph/report-engine.ts).
THEOREM AuditAlwaysHolds == ResearchSpec => []AuditHolds
<1>1. AuditInv => AuditHolds
  BY ReportsHold DEF AuditInv, AuditHolds
<1> QED BY <1>1, AuditInitially, AuditStep, PTL DEF ResearchSpec

-------------------------------------------------------------------------------
(* Types.                                                                  *)

\* A signature that is awaited is over a total that is there.
ChannelTyped == TypeOK /\ \A s \in ClientSlots : signing[s] # 0 => cumulative # 0

\* At the start nothing is signed.
LEMMA ChannelInitially == Init => ChannelTyped
<1> SUFFICES ASSUME Init PROVE ChannelTyped
  OBVIOUS
<1>1. 0 \in 0..MaxCumulative /\ 0 \in Nat
  BY SessionAssumption
<1>2. onChain \in [total : 0..MaxCumulative, signature : 0..MaxCumulative]
  BY <1>1 DEF Init
<1>3. /\ cumulative \in 0..MaxCumulative /\ highest \in 0..MaxCumulative
      /\ signature \in 0..MaxCumulative /\ served \in Nat
  BY <1>1 DEF Init
<1>4. /\ signing \in [ClientSlots -> Amounts \cup {0}] /\ vouchers \subseteq Voucher
      /\ verifying \in [ServerSlots -> Voucher \cup {NoVoucher}]
      /\ closing \in {"open", "building", "sending", "closed"} /\ {mixed, crossed} \subseteq BOOLEAN
      /\ \A s \in ClientSlots : signing[s] = 0
  BY DEF Init
<1> QED BY <1>2, <1>3, <1>4 DEF ChannelTyped, TypeOK

\* Every step of the channel keeps its types.
LEMMA ChannelStep == ChannelTyped /\ [Next]_vars => ChannelTyped'
<1> SUFFICES ASSUME ChannelTyped, [Next]_vars PROVE ChannelTyped'
  OBVIOUS
<1>0. /\ cumulative \in 0..MaxCumulative /\ signing \in [ClientSlots -> Amounts \cup {0}]
      /\ vouchers \subseteq Voucher /\ highest \in 0..MaxCumulative /\ signature \in 0..MaxCumulative
      /\ verifying \in [ServerSlots -> Voucher \cup {NoVoucher}]
      /\ closing \in {"open", "building", "sending", "closed"}
      /\ onChain \in [total : 0..MaxCumulative, signature : 0..MaxCumulative]
      /\ served \in Nat /\ mixed \in BOOLEAN /\ crossed \in BOOLEAN
      /\ \A s \in ClientSlots : signing[s] # 0 => cumulative # 0
      /\ MaxCumulative \in Nat /\ Amounts \subseteq Nat \ {0}
  BY SessionAssumption DEF ChannelTyped, TypeOK
<1>1. ASSUME NEW s \in ClientSlots, NEW amount \in Amounts, StartSign(s, amount) PROVE ChannelTyped'
  <2>1. cumulative' \in 0..MaxCumulative /\ cumulative' # 0
    BY <1>0, <1>1 DEF StartSign
  <2>2. signing' \in [ClientSlots -> Amounts \cup {0}] /\ mixed' \in BOOLEAN
        /\ UNCHANGED <<vouchers, highest, signature, verifying, crossed, closing, onChain, served>>
    BY <1>0, <1>1 DEF StartSign, server
  <2> QED BY <1>0, <2>1, <2>2 DEF ChannelTyped, TypeOK
<1>2. ASSUME NEW s \in ClientSlots, FinishSign(s) PROVE ChannelTyped'
  <2>1. cumulative \in 1..MaxCumulative /\ signing[s] \in Amounts
    BY <1>0, <1>2 DEF FinishSign
  <2>2. [total |-> cumulative, amount |-> signing[s]] \in Voucher
    BY <2>1 DEF Voucher
  <2>3. /\ vouchers' \subseteq Voucher /\ signing' \in [ClientSlots -> Amounts \cup {0}]
        /\ \A r \in ClientSlots : signing'[r] # 0 => signing[r] # 0
        /\ UNCHANGED <<cumulative, mixed, highest, signature, verifying, crossed, closing, onChain, served>>
    BY <1>0, <1>2, <2>2 DEF FinishSign, server
  <2> QED BY <1>0, <2>3 DEF ChannelTyped, TypeOK
<1>3. CASE Reset
  BY <1>0, <1>3 DEF Reset, server, ChannelTyped, TypeOK
<1>4. ASSUME NEW s \in ServerSlots, NEW v \in vouchers, StartVerify(s, v) PROVE ChannelTyped'
  <2>1. /\ verifying' \in [ServerSlots -> Voucher \cup {NoVoucher}] /\ crossed' \in BOOLEAN
        /\ UNCHANGED <<cumulative, signing, mixed, vouchers, highest, signature, closing, onChain, served>>
    BY <1>0, <1>4 DEF StartVerify, client
  <2> QED BY <1>0, <2>1 DEF ChannelTyped, TypeOK
<1>5. ASSUME NEW s \in ServerSlots, FinishVerify(s) PROVE ChannelTyped'
  <2>1. verifying[s] \in Voucher
    BY <1>0, <1>5 DEF FinishVerify
  <2>2. verifying[s].total \in 0..MaxCumulative /\ verifying[s].amount \in Nat
    <3>1. verifying[s].total \in 1..MaxCumulative /\ verifying[s].amount \in Amounts
      BY <2>1 DEF Voucher
    <3>2. 1..MaxCumulative \subseteq 0..MaxCumulative /\ Amounts \subseteq Nat
      BY <1>0
    <3> QED BY <3>1, <3>2, Zenon
  <2>3. /\ verifying' \in [ServerSlots -> Voucher \cup {NoVoucher}]
        /\ highest' \in 0..MaxCumulative /\ signature' \in 0..MaxCumulative /\ served' \in Nat
        /\ UNCHANGED <<cumulative, signing, mixed, vouchers, crossed, closing, onChain>>
    BY <1>0, <1>5, <2>2 DEF FinishVerify, client
  <2> QED BY <1>0, <2>3 DEF ChannelTyped, TypeOK
<1>6. CASE StartClose \/ BuildClose \/ SendClose \/ CloseFails
  <2>1. /\ closing' \in {"open", "building", "sending", "closed"}
        /\ UNCHANGED <<cumulative, signing, mixed, vouchers, highest, signature, verifying, crossed, served>>
    BY <1>6 DEF StartClose, BuildClose, SendClose, CloseFails, client
  <2>2. 0 \in 0..MaxCumulative
    BY <1>0
  <2>3. onChain' \in [total : 0..MaxCumulative, signature : 0..MaxCumulative]
    BY <1>0, <1>6, <2>2 DEF StartClose, BuildClose, SendClose, CloseFails
  <2> QED BY <1>0, <2>1, <2>3 DEF ChannelTyped, TypeOK
<1>7. CASE UNCHANGED vars
  BY <1>7 DEF vars, client, server, ChannelTyped, TypeOK
<1> QED BY <1>1, <1>2, <1>3, <1>4, <1>5, <1>6, <1>7 DEF Next

\* The demands a window holds are counted.
LEMMA WindowsCounted ==
    ASSUME toolNow \in 0..MaxToolTime, NEW w \in [0..MaxToolTime -> Nat]
    PROVE  /\ Demanded(w) \in [0..MaxToolTime -> Nat]
           /\ SumFunction(Demanded(w)) \in Nat
<1>1. \A t \in 0..MaxToolTime : w[t] \in Nat
  OBVIOUS
<1>2. \A t \in 0..MaxToolTime : (IF toolNow - t < DemandWindow THEN w[t] ELSE 0)
                                   + (IF t = toolNow THEN 1 ELSE 0) \in Nat
  BY <1>1
<1>3. Demanded(w) \in [0..MaxToolTime -> Nat]
  BY <1>2 DEF Demanded
<1>4. PICK d \in [0..MaxToolTime -> Nat] : d = Demanded(w)
  BY <1>3
<1>5. IsFiniteSet(0..MaxToolTime)
  <2>1. 0 \in Int /\ MaxToolTime \in Int
    BY ProviderAssumption
  <2> QED BY ONLY <2>1, FS_Interval, Zenon
<1>6. SumFunctionOnSet(d, 0..MaxToolTime) \in Nat
  <2>1. \A t \in 0..MaxToolTime : d[t] \in Nat
    OBVIOUS
  <2> QED BY <1>5, <2>1, SumGrows
<1>7. DOMAIN d = 0..MaxToolTime
  OBVIOUS
<1> QED BY <1>3, <1>4, <1>6, <1>7, Zenon DEF SumFunction

\* What a tool call is.
ToolCallRecords ==
    [at : {"idle", "running", "200", "402", "500"}, session : ToolSessions \cup {NoSession},
     price : Nat, among : Nat]

\* Every operation on tool calls keeps their types.
LEMMA ProviderTypedStep == ProviderTypeOK /\ [ProviderNext]_providerVars => ProviderTypeOK'
<1> SUFFICES ASSUME ProviderTypeOK, [ProviderNext]_providerVars PROVE ProviderTypeOK'
  OBVIOUS
<1> DEFINE Sessions == [status : Statuses \cup {"none"}, spent : Nat, until : Nat]
<1>0. /\ toolNow \in 0..MaxToolTime /\ demand \in [0..MaxToolTime -> Nat] /\ toolNow \in Nat
      /\ toolSessions \in [ToolSessions -> Sessions] /\ toolCalls \in [ToolCalls -> ToolCallRecords]
      /\ lateCharges \subseteq ToolCalls /\ SessionTtl \in Nat /\ MaxToolTime \in Nat
      /\ BasePrice \in Nat /\ SurgePrice \in Nat
  BY ProviderAssumption DEF ProviderTypeOK, ToolCallRecords
<1>1. \A s \in ToolSessions : Looked(s) \in Sessions
  BY <1>0 DEF Looked, Statuses
<1>2. \A w \in [0..MaxToolTime -> Nat] :
         Demanded(w) \in [0..MaxToolTime -> Nat] /\ SumFunction(Demanded(w)) \in Nat
  BY <1>0, WindowsCounted
<1>3. \A s \in ToolSessions \cup {NoSession} :
         /\ AfterRefusal(s).window \in [0..MaxToolTime -> Nat]
         /\ AfterRefusal(s).sessions \in [ToolSessions -> Sessions]
  BY <1>0, <1>1, <1>2 DEF AfterRefusal
<1>4. ASSUME NEW c \in ToolCalls, NEW place \in {"running", "200", "402", "500"}
      PROVE  [toolCalls EXCEPT ![c].at = place] \in [ToolCalls -> ToolCallRecords]
  BY <1>0 DEF ToolCallRecords
<1> HIDE DEF Sessions
<1>5. ASSUME NEW s \in ToolSessions, CreateSession(s) \/ SettleSession(s) \/ LookAtSession(s)
      PROVE  ProviderTypeOK'
  <2>1. toolSessions' \in [ToolSessions -> Sessions]
    <3>1. CASE CreateSession(s)
      <4>1. PICK until \in Nat : until = toolNow + SessionTtl
        BY <1>0
      <4>2. \A r \in Sessions : [[r EXCEPT !.status = "active"] EXCEPT !.until = until] \in Sessions
        BY DEF Sessions, Statuses
      <4>3. toolSessions' = [toolSessions EXCEPT ![s] =
               [[toolSessions[s] EXCEPT !.status = "active"] EXCEPT !.until = until]]
        BY <1>0, <3>1, <4>1 DEF CreateSession, Sessions
      <4> QED BY <1>0, <4>2, <4>3
    <3>2. CASE SettleSession(s)
      <4>1. \A r \in Sessions : [r EXCEPT !.status = "settled"] \in Sessions
        BY DEF Sessions, Statuses
      <4> QED BY <1>0, <3>2, <4>1 DEF SettleSession
    <3>3. CASE LookAtSession(s)
      BY <1>0, <1>1, <3>3 DEF LookAtSession
    <3> QED BY <1>5, <3>1, <3>2, <3>3
  <2>2. UNCHANGED <<toolNow, demand, toolCalls, lateCharges>>
    BY <1>5 DEF CreateSession, SettleSession, LookAtSession
  <2> QED BY <1>0, <2>1, <2>2 DEF ProviderTypeOK, ToolCallRecords, Sessions
<1>6. ASSUME NEW c \in ToolCalls, NEW s \in ToolSessions, ChargeSession(c, s) PROVE ProviderTypeOK'
  <2>1. PICK n \in Nat : n = SumFunction(Demanded(demand))
    BY <1>0, <1>2
  <2>2. PICK price \in Nat : price = PriceAmong(n)
    BY <1>0 DEF PriceAmong
  <2>3. PICK r \in Sessions : r = Looked(s)
    BY <1>1
  <2>4. PICK sum \in Nat : sum = r.spent + price
    BY DEF Sessions
  <2>5. [r EXCEPT !.spent = @ + price] = [r EXCEPT !.spent = sum] /\ [r EXCEPT !.spent = sum] \in Sessions
    BY <2>4 DEF Sessions
  <2>6. toolSessions' = [toolSessions EXCEPT ![s] = [r EXCEPT !.spent = @ + price]]
    BY <1>6, <2>1, <2>2, <2>3 DEF ChargeSession
  <2>7. toolSessions' \in [ToolSessions -> Sessions]
    BY <1>0, <2>5, <2>6
  <2>8. toolCalls' = [toolCalls EXCEPT ![c] = [at |-> "running", session |-> s, price |-> price, among |-> n]]
    BY <1>6, <2>1, <2>2 DEF ChargeSession
  <2>9. [at |-> "running", session |-> s, price |-> price, among |-> n] \in ToolCallRecords
    BY DEF ToolCallRecords
  <2>10. toolCalls' \in [ToolCalls -> ToolCallRecords]
    BY <1>0, <2>8, <2>9
  <2>11. /\ demand' \in [0..MaxToolTime -> Nat] /\ toolNow' = toolNow
         /\ lateCharges' \subseteq ToolCalls
    BY <1>0, <1>2, <1>6 DEF ChargeSession
  <2> QED BY <1>0, <2>7, <2>10, <2>11 DEF ProviderTypeOK, ToolCallRecords, Sessions
<1>7. ASSUME NEW c \in ToolCalls, NEW s \in ToolSessions \cup {NoSession}, TakeProof(c, s) \/ Challenge402(c, s)
      PROVE  ProviderTypeOK'
  <2>1. toolCalls' \in [ToolCalls -> ToolCallRecords]
    BY <1>4, <1>7 DEF TakeProof, Challenge402
  <2>2. demand' \in [0..MaxToolTime -> Nat] /\ toolSessions' \in [ToolSessions -> Sessions]
    BY <1>2, <1>3, <1>7 DEF TakeProof, Challenge402
  <2>3. UNCHANGED <<toolNow, lateCharges>>
    BY <1>7 DEF TakeProof, Challenge402
  <2> QED BY <1>0, <2>1, <2>2, <2>3 DEF ProviderTypeOK, ToolCallRecords, Sessions
<1>8. ASSUME NEW c \in ToolCalls, ToolEnds(c) PROVE ProviderTypeOK'
  <2>1. toolCalls' \in [ToolCalls -> ToolCallRecords] /\ UNCHANGED <<toolNow, demand, toolSessions, lateCharges>>
    <3>1. PICK place \in {"200", "500"} : toolCalls' = [toolCalls EXCEPT ![c].at = place]
      BY <1>8 DEF ToolEnds
    <3>2. place \in {"running", "200", "402", "500"}
      OBVIOUS
    <3>3. [toolCalls EXCEPT ![c].at = place] \in [ToolCalls -> ToolCallRecords]
      BY <1>4, <3>2
    <3> QED BY <1>8, <3>1, <3>3 DEF ToolEnds
  <2> QED BY <1>0, <2>1 DEF ProviderTypeOK, ToolCallRecords, Sessions
<1>9. CASE ToolTick
  BY <1>0, <1>9 DEF ToolTick, ProviderTypeOK
<1>10. CASE UNCHANGED providerVars
  BY <1>10 DEF providerVars, ProviderTypeOK
<1> QED BY <1>5, <1>6, <1>7, <1>8, <1>9, <1>10 DEF ProviderNext

\* Before any call the window is empty.
LEMMA ProviderInitially == ProviderInit => ProviderTypeOK
<1> SUFFICES ASSUME ProviderInit PROVE ProviderTypeOK
  OBVIOUS
<1>1. 0 \in 0..MaxToolTime /\ 0 \in Nat
  BY ProviderAssumption
<1>2. toolNow \in 0..MaxToolTime /\ demand \in [0..MaxToolTime -> Nat] /\ lateCharges \subseteq ToolCalls
  BY <1>1 DEF ProviderInit
<1>3. toolSessions \in [ToolSessions -> [status : Statuses \cup {"none"}, spent : Nat, until : Nat]]
  BY <1>1 DEF ProviderInit
<1>4. toolCalls \in [ToolCalls -> [at : {"idle", "running", "200", "402", "500"},
                                session : ToolSessions \cup {NoSession}, price : Nat, among : Nat]]
  BY <1>1 DEF ProviderInit
<1> QED BY <1>2, <1>3, <1>4 DEF ProviderTypeOK

\* What is sorted is typed.
LEMMA AuditTyped == AuditInv => ResearchTypeOK
<1> SUFFICES ASSUME AuditInv PROVE ResearchTypeOK
  OBVIOUS
<1>1. SortingInv /\ audit \in Audited /\ adapters \in [Lenders -> Chains \cup {"none"}]
  BY DEF AuditInv
<1>2. /\ sorting.degree \in [Ids -> Nat] /\ sorting.queue \subseteq Ids
      /\ sorting.graph \in Causal /\ sorting.visited = Cardinality(Taken)
  BY <1>1 DEF SortingInv
<1>3. IsFiniteSet(ToSet(sorting.graph.nodes))
  BY <1>2, IdsCounted
<1>4. IsFiniteSet(Taken)
  <2>1. Taken \in SUBSET ToSet(sorting.graph.nodes)
    BY DEF Taken, Ids
  <2> QED BY <1>3, <2>1, FS_Subset, Zenon
<1>5. sorting.visited \in Nat
  BY <1>2, <1>4, FS_CardinalityType
<1>6. /\ audit.at \in {"idle", "reading", "read", "sorting", "reported", "refused", "threw"}
      /\ audit.score \in 0..100
      /\ audit.action \in {"none", "HOLD", "REBALANCE_TO_PT", "DEFEND_KINK", "EMERGENCY_DELEVERAGE"}
  BY <1>1 DEF Audited
<1> QED BY <1>1, <1>2, <1>5, <1>6 DEF ResearchTypeOK, Ids

-------------------------------------------------------------------------------
(* All of them, beside one another.                                        *)

\* A step of the sessions is a step of every component, or leaves it.
LEMMA SessionSteps ==
  [MCNext]_<<running, vars, jobVars, agentVars>> =>
      /\ [Next]_vars /\ [JobNext]_jobVars /\ [AgentEscrowNext]_agentEscrowVars
      /\ [DelegationNext]_delegationVars /\ [SettlementNext]_settlementVars
      /\ [MandatesNext]_mandateVars /\ [ProviderNext]_providerVars /\ [VaultNext]_vaultVars
      /\ [OfframpNext]_offrampVars /\ [ResearchNext]_researchVars
BY DEF MCNext, agentVars, budgetVars, lendingVars

\* What the managers of budgets hand out always adds up: down a tree of
\* delegations (agent/delegation.ts), over vouchers and intervals
\* (agent/settlement.ts), under a user's mandate (ap2/mandates.ts), in the
\* sessions of tool calls (agent/session.ts) and in the allocation vault.
THEOREM BudgetsAlwaysHold == MCSpec => []BudgetsHold
<1>1. MCInit => NestInv /\ SettledInv /\ CoveredByCart /\ ProvidedInv /\ VaultInv
  BY NestInitially, SettledInitially, CartInitially, ProvidedInitially, VaultInitially DEF MCInit
<1>2. /\ NestInv /\ SettledInv /\ CoveredByCart /\ ProvidedInv /\ VaultInv
      /\ [MCNext]_<<running, vars, jobVars, agentVars>>
      => NestInv' /\ SettledInv' /\ CoveredByCart' /\ ProvidedInv' /\ VaultInv'
  BY SessionSteps, NestStep, SettledStep, CartStep, ProvidedStep, VaultStep
<1>3. NestInv /\ SettledInv /\ CoveredByCart /\ ProvidedInv /\ VaultInv => BudgetsHold
  BY NestInvNests, VaultInvHolds DEF SettledInv, CoveredByCart, ProvidedInv, BudgetsHold
<1> QED BY <1>1, <1>2, <1>3, PTL DEF MCSpec

\* What the invariants of the components say of types.
LEMMA InvariantsTyped ==
  /\ ChannelTyped /\ EscrowInv /\ ProviderTypeOK /\ VerdictInv /\ NestInv /\ SettledInv
  /\ CoveredByCart /\ OfframpInv /\ VaultInv /\ AuditInv
  => TypesOK
BY AuditTyped DEF ChannelTyped, EscrowInv, IInv, VerdictInv, NestInv, SettledInv, CoveredByCart,
   OfframpInv, VaultInv, TypesOK

\* Whatever runs, all variables keep their types: no total of the channel leaves what
\* the client signed up to (stellar/session.ts), no spending, budget or share becomes
\* negative or a fraction (agent/session.ts, agent/delegation.ts, agent/settlement.ts,
\* AllocationVault.sol), and no job, call or audit is in a state the code does not name.
THEOREM SessionsTyped == MCSpec => []TypesOK
<1>1. MCInit => /\ ChannelTyped /\ EscrowInv /\ ProviderTypeOK /\ VerdictInv /\ NestInv /\ SettledInv
                /\ CoveredByCart /\ OfframpInv /\ VaultInv /\ AuditInv
  BY ChannelInitially, EscrowInit, ProviderInitially, VerdictInitially, NestInitially, SettledInitially,
     CartInitially, OfframpInitially, VaultInitially, AuditInitially DEF MCInit
<1>2. /\ ChannelTyped /\ EscrowInv /\ ProviderTypeOK /\ VerdictInv /\ NestInv /\ SettledInv
      /\ CoveredByCart /\ OfframpInv /\ VaultInv /\ AuditInv
      /\ [MCNext]_<<running, vars, jobVars, agentVars>>
      => /\ ChannelTyped' /\ EscrowInv' /\ ProviderTypeOK' /\ VerdictInv' /\ NestInv' /\ SettledInv'
         /\ CoveredByCart' /\ OfframpInv' /\ VaultInv' /\ AuditInv'
  BY SessionSteps, ChannelStep, EscrowStep, ProviderTypedStep, VerdictStep, NestStep, SettledStep,
     CartStep, OfframpStep, VaultStep, AuditStep
<1> QED BY <1>1, <1>2, InvariantsTyped, PTL DEF MCSpec
===============================================================================
