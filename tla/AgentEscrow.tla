------------------------------ MODULE AgentEscrow ------------------------------
(***************************************************************************)
(* EscrowManager of src/agent/escrow.ts: jobs between a client, a provider *)
(* and an evaluator.  complete() and reject() test the local status, sign  *)
(* a transaction over an await, and set the status after it, so calls for  *)
(* one job may overlap.  The contract, external, obeys the first verdict   *)
(* it mines and reverts the others; the wallet does not look at that.      *)
(***************************************************************************)
EXTENDS Integers

CONSTANTS
    Jobs,       \* jobs, each created once
    Verdicts,   \* calls of complete() and reject()
    NoJob

ASSUME AgentEscrowAssumption == NoJob \notin Jobs

VARIABLES
    jobs,       \* EscrowManager.jobs: jobs[j]: "none" until it is recorded
    creating,   \* creating[j]: where createJob stands
    verdicts,   \* verdicts[v]: the call, its job, its verdict and where it stands
    onchain,    \* external: onchain[j]: the contract's escrow
    overlapped  \* history: jobs that had two calls at once, or lost an answer

agentEscrowVars == <<jobs, creating, verdicts, onchain, overlapped>>

\* One type invariant.
AgentEscrowTypeOK ==
    /\ jobs \in [Jobs -> {"none", "funded", "submitted", "completed", "rejected"}]
    /\ creating \in [Jobs -> {"idle", "signing", "mined", "created", "threw"}]
    /\ verdicts \in [Verdicts -> [at : {"idle", "signing", "mined", "done", "threw"},
                                  job : Jobs \cup {NoJob}, is : {"none", "completed", "rejected"}]]
    /\ onchain \in [Jobs -> {"none", "funded", "completed", "rejected"}]
    /\ overlapped \subseteq Jobs

AgentEscrowInit ==
    /\ jobs = [j \in Jobs |-> "none"] /\ creating = [j \in Jobs |-> "idle"]
    /\ verdicts = [v \in Verdicts |-> [at |-> "idle", job |-> NoJob, is |-> "none"]]
    /\ onchain = [j \in Jobs |-> "none"] /\ overlapped = {}

-------------------------------------------------------------------------------
(* createJob and submitDeliverable.                                        *)

CreateJob(j) ==
    /\ creating[j] = "idle"
    /\ creating' = [creating EXCEPT ![j] = "signing"]
    /\ UNCHANGED <<jobs, verdicts, onchain, overlapped>>

\* The contract takes the money, and the answer may be lost; or nothing is sent.
FundAgentJob(j) ==
    /\ creating[j] = "signing"
    /\ \/ /\ onchain' = [onchain EXCEPT ![j] = "funded"]
          /\ \E at \in {"mined", "threw"} : creating' = [creating EXCEPT ![j] = at]
       \/ creating' = [creating EXCEPT ![j] = "threw"] /\ UNCHANGED onchain
    /\ UNCHANGED <<jobs, verdicts, overlapped>>

\* The job is recorded when the client's address has come, or not at all.
RecordJob(j) ==
    /\ creating[j] = "mined"
    /\ \/ creating' = [creating EXCEPT ![j] = "created"] /\ jobs' = [jobs EXCEPT ![j] = "funded"]
       \/ creating' = [creating EXCEPT ![j] = "threw"] /\ UNCHANGED jobs
    /\ UNCHANGED <<verdicts, onchain, overlapped>>

SubmitDeliverable(j) ==
    /\ jobs[j] = "funded"
    /\ jobs' = [jobs EXCEPT ![j] = "submitted"]
    /\ UNCHANGED <<creating, verdicts, onchain, overlapped>>

-------------------------------------------------------------------------------
(* complete and reject.                                                    *)

Deciding(j) == \E v \in Verdicts : verdicts[v].job = j /\ verdicts[v].at \in {"signing", "mined"}

\* A slip the code avoids: a verdict on a job that has had one.
Bug_DecideAgain(v, j, is) ==
    /\ verdicts[v].at = "idle" /\ jobs[j] \in {"submitted", "completed", "rejected"}
    /\ verdicts' = [verdicts EXCEPT ![v] = [at |-> "signing", job |-> j, is |-> is]]
    /\ overlapped' = IF Deciding(j) THEN overlapped \cup {j} ELSE overlapped
    /\ UNCHANGED <<jobs, creating, onchain>>

Decide(v, j, is) ==
    /\ verdicts[v].at = "idle" /\ jobs[j] = "submitted"
    /\ verdicts' = [verdicts EXCEPT ![v] = [at |-> "signing", job |-> j, is |-> is]]
    /\ overlapped' = IF Deciding(j) THEN overlapped \cup {j} ELSE overlapped
    /\ UNCHANGED <<jobs, creating, onchain>>

\* The contract obeys the first verdict; the answer may be lost, or nothing sent.
MineVerdict(v) ==
    LET j == verdicts[v].job
    IN  /\ verdicts[v].at = "signing"
        /\ \/ /\ onchain' = [onchain EXCEPT ![j] = IF @ = "funded" THEN verdicts[v].is ELSE @]
              /\ \E at \in {"mined", "threw"} :
                    /\ verdicts' = [verdicts EXCEPT ![v].at = at]
                    /\ overlapped' = IF at = "threw" THEN overlapped \cup {j} ELSE overlapped
           \/ verdicts' = [verdicts EXCEPT ![v].at = "threw"] /\ UNCHANGED <<onchain, overlapped>>
        /\ UNCHANGED <<jobs, creating>>

EndVerdict(v) ==
    /\ verdicts[v].at = "mined"
    /\ jobs' = [jobs EXCEPT ![verdicts[v].job] = verdicts[v].is]
    /\ verdicts' = [verdicts EXCEPT ![v].at = "done"]
    /\ UNCHANGED <<creating, onchain, overlapped>>

AgentEscrowNext ==
    \/ \E j \in Jobs : CreateJob(j) \/ FundAgentJob(j) \/ RecordJob(j) \/ SubmitDeliverable(j)
    \/ \E v \in Verdicts, j \in Jobs, is \in {"completed", "rejected"} : Decide(v, j, is)
    \/ \E v \in Verdicts : MineVerdict(v) \/ EndVerdict(v)

AgentEscrowSpec == AgentEscrowInit /\ [][AgentEscrowNext]_agentEscrowVars

-------------------------------------------------------------------------------
(* Properties.                                                             *)

\* What the manager says of a job is what the contract did with its money,
\* unless two verdicts overlapped or the answer to one was lost; even then
\* money that left the escrow left on a verdict somebody asked for, and a job
\* that stands recorded is one the contract has the money of.
VerdictIsTheContracts ==
    \A j \in Jobs :
        /\ jobs[j] \in {"completed", "rejected"} /\ j \notin overlapped => onchain[j] = jobs[j]
        /\ jobs[j] # "none" => onchain[j] # "none"
        /\ onchain[j] \in {"completed", "rejected"} =>
              \E v \in Verdicts : verdicts[v].job = j /\ verdicts[v].is = onchain[j]
===============================================================================
