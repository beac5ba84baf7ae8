---------------------------- MODULE TrustlessEscrow ----------------------------
(***************************************************************************)
(* TrustlessEscrowManager of src/stellar/escrow-manager.ts on one job.     *)
(* Every operation looks at the job's status, awaits a transaction on the  *)
(* escrow contract, and only then changes the job; a slot is one operation *)
(* under way.  The contract is external: a submission has no effect, or    *)
(* has its effect and is answered, or has its effect and the answer is     *)
(* lost, so that the operation rejects.                                    *)
(***************************************************************************)
EXTENDS Naturals

CONSTANTS
    Milestones,
    Slots,          \* operations under way together
    MaxFunds,       \* bound on the fundings that land
    None

ASSUME EscrowAssumption ==
    /\ MaxFunds \in Nat
    /\ None \notin Milestones

VARIABLES
    multi,          \* is job.type 'multi'?
    status,         \* job.status
    milestones,     \* job.milestones[m].status
    calls,          \* calls[s]: the operation in slot s
    funded,         \* external: fundings that have landed
    approved,       \* external: milestones approved on the contract
    released,       \* external: milestones paid out
    disputed,       \* external: has a dispute landed?
    resolved,       \* external: has a resolution landed?
    contended,      \* history: have two operations been under way together?
    unreleased      \* history: milestones whose release failed

job == <<multi, status, milestones>>
contract == <<funded, approved, released, disputed, resolved>>
history == <<contended, unreleased>>
jobVars == <<job, calls, contract, history>>

Status == {"created", "funded", "in-progress", "submitted", "released", "disputed", "resolved"}
Ops == {"fund", "submit", "approve", "release", "dispute", "resolve"}
Idle == [op |-> "idle", milestone |-> None, landed |-> FALSE]
Call == {Idle} \cup [op : Ops, milestone : Milestones \cup {None}, landed : BOOLEAN]

JobTypeOK ==
    /\ status \in Status
    /\ milestones \in [Milestones -> {"pending", "completed", "approved"}]
    /\ calls \in [Slots -> Call]
    /\ funded \in Nat
    /\ approved \subseteq Milestones /\ released \subseteq Milestones
    /\ {multi, disputed, resolved, contended} \subseteq BOOLEAN
    /\ unreleased \subseteq Milestones

\* The job right after createJob().
JobInit ==
    /\ multi \in BOOLEAN
    /\ status = "created"
    /\ milestones = [m \in Milestones |-> "pending"]
    /\ calls = [s \in Slots |-> Idle]
    /\ funded = 0
    /\ approved = {} /\ released = {}
    /\ disputed = FALSE /\ resolved = FALSE
    /\ contended = FALSE /\ unreleased = {}

\* getJobOrThrow() found the job in one of the valid states, and the first
\* transaction is on its way.
Begin(s, op, m, valid) ==
    /\ calls[s] = Idle
    /\ status \in valid
    /\ calls' = [calls EXCEPT ![s] = [op |-> op, milestone |-> m, landed |-> FALSE]]
    /\ contended' = (contended \/ \E r \in Slots : calls[r] # Idle)
    /\ UNCHANGED <<job, contract, unreleased>>

FundJob(s) == Begin(s, "fund", None, {"created"})
SubmitMilestone(s, m) == Begin(s, "submit", m, {"funded", "in-progress"})

ApproveAndRelease(s, m) == Begin(s, "approve", m, {"submitted", "in-progress", "funded"})
Dispute(s) == Begin(s, "dispute", None, {"funded", "submitted", "in-progress"})
Resolve(s) == Begin(s, "resolve", None, {"disputed"})

-------------------------------------------------------------------------------
(* The contract.                                                           *)

\* The transaction of slot s takes effect.  Releasing a single-release
\* escrow pays everything.
Land(s) ==
    LET c == calls[s] IN
    /\ c # Idle /\ ~c.landed
    /\ c.op = "fund" => funded < MaxFunds
    /\ calls' = [calls EXCEPT ![s].landed = TRUE]
    /\ funded' = IF c.op = "fund" THEN funded + 1 ELSE funded
    /\ approved' = IF c.op = "approve" THEN approved \cup {c.milestone} ELSE approved
    /\ released' = IF c.op # "release" THEN released
                   ELSE IF multi THEN released \cup {c.milestone} ELSE Milestones
    /\ disputed' = (disputed \/ c.op = "dispute")
    /\ resolved' = (resolved \/ c.op = "resolve")
    /\ UNCHANGED <<job, history>>

\* A request or a submission fails, before or after it took effect: the
\* operation rejects and leaves the job as it is.
Fail(s) ==
    /\ calls[s] # Idle
    /\ calls' = [calls EXCEPT ![s] = Idle]
    /\ unreleased' = unreleased \cup {m \in Milestones : calls[s].op = "release" /\ m = calls[s].milestone}
    /\ UNCHANGED <<job, contract, contended>>

-------------------------------------------------------------------------------
(* The operations after their await.                                       *)

\* The submission of slot s has been answered.
Answered(s, op) == calls[s].op = op /\ calls[s].landed

\* A slip the code avoids: clearing the operation but not its milestone.
Bug_EndKeepsMilestone(s) == calls' = [calls EXCEPT ![s].op = "idle", ![s].landed = FALSE]

End(s) == calls' = [calls EXCEPT ![s] = Idle]

FinishFund(s) ==
    /\ Answered(s, "fund")
    /\ status' = "funded"
    /\ End(s)
    /\ UNCHANGED <<multi, milestones, contract, history>>

FinishSubmit(s) ==
    /\ Answered(s, "submit")
    /\ milestones' = [milestones EXCEPT ![calls[s].milestone] = "completed"]
    /\ status' = "submitted"
    /\ End(s)
    /\ UNCHANGED <<multi, contract, history>>

AllApproved(ms) == \A m \in Milestones : ms[m] = "approved"

\* A slip the code avoids: counting on the approval to release the funds.
Bug_FinishApproveSkipsRelease(s) ==
    LET m == calls[s].milestone IN
    /\ Answered(s, "approve")
    /\ milestones' = [milestones EXCEPT ![m] = "approved"]
    /\ status' = IF AllApproved(milestones') THEN "released" ELSE "in-progress"
    /\ End(s)
    /\ UNCHANGED <<multi, contract, history>>

\* The approval is in.  A multi-release job releases the milestone, a
\* single-release one everything once all milestones are approved.
FinishApprove(s) ==
    LET m == calls[s].milestone IN
    /\ Answered(s, "approve")
    /\ milestones' = [milestones EXCEPT ![m] = "approved"]
    /\ IF multi \/ AllApproved(milestones')
       THEN /\ calls' = [calls EXCEPT ![s] = [op |-> "release", milestone |-> m,
                                              landed |-> FALSE]]
            /\ UNCHANGED status
       ELSE status' = "in-progress" /\ End(s)
    /\ UNCHANGED <<multi, contract, history>>

FinishRelease(s) ==
    /\ Answered(s, "release")
    /\ status' = IF AllApproved(milestones) THEN "released" ELSE "in-progress"
    /\ End(s)
    /\ UNCHANGED <<multi, milestones, contract, history>>

FinishDispute(s) ==
    /\ Answered(s, "dispute")
    /\ status' = "disputed"
    /\ End(s)
    /\ UNCHANGED <<multi, milestones, contract, history>>

\* A slip the code avoids: putting a resolved job back to work.
Bug_FinishResolveReopens(s) ==
    /\ Answered(s, "resolve")
    /\ status' = "in-progress"
    /\ End(s)
    /\ UNCHANGED <<multi, milestones, contract, history>>

FinishResolve(s) ==
    /\ Answered(s, "resolve")
    /\ status' = "resolved"
    /\ End(s)
    /\ UNCHANGED <<multi, milestones, contract, history>>

JobNext ==
    \E s \in Slots :
        \/ FundJob(s) \/ Dispute(s) \/ Resolve(s)
        \/ \E m \in Milestones : SubmitMilestone(s, m) \/ ApproveAndRelease(s, m)
        \/ Land(s) \/ Fail(s)
        \/ FinishFund(s) \/ FinishSubmit(s) \/ FinishApprove(s) \/ FinishRelease(s)
        \/ FinishDispute(s) \/ FinishResolve(s)

JobSpec == JobInit /\ [][JobNext]_jobVars

-------------------------------------------------------------------------------
(* Properties.                                                             *)

\* The job never claims what has not happened on the contract: past
\* 'created' it has been funded, and disputes, resolutions and approvals it
\* shows have landed.  It holds however operations overlap or fail.
NeverAheadOfContract ==
    /\ status # "created" => funded > 0
    /\ status = "disputed" => disputed
    /\ status = "resolved" => resolved
    /\ \A m \in Milestones : milestones[m] = "approved" => m \in approved
    /\ status = "released" => \A m \in Milestones : m \in approved

\* A released or resolved job stays so, and a disputed one is only ever
\* resolved, unless two operations overlapped: then the one that ends last
\* has the last word.
OutcomesStick ==
    [][~contended =>
          /\ status \in {"released", "resolved"} => status' = status
          /\ status = "disputed" => status' \in {"disputed", "resolved"}]_jobVars

\* "Approver approves milestone and releases funds": a job that says
\* released has paid every milestone.  A multi-release one counts on the
\* approvals, so a milestone whose release failed, or is still under way in
\* another operation, may be missing; a single-release one misses none.
ReleasedMeansPaid ==
    status = "released" =>
        \A m \in Milestones \ released :
            /\ multi
            /\ \/ m \in unreleased
               \/ \E s \in Slots : calls[s].op = "release" /\ calls[s].milestone = m
===============================================================================
