------------------------------ MODULE FlareBridge ------------------------------
(***************************************************************************)
(* FlareBridgeClient of src/flare/bridge.ts: minting FXRP by one XRPL      *)
(* payment, which overlapping calls of one wallet queue for, and redeeming *)
(* it, with the polling of a redemption.  The fee arithmetic is that of    *)
(* src/flare/direct-minting.ts.  The XRP Ledger, the asset manager and its *)
(* agents are external.                                                    *)
(***************************************************************************)
EXTENDS Integers, FiniteSets

CONSTANTS
    Mints,          \* overlapping calls of mintFXRP for one XRPL address
    Redeems,        \* calls of redeemXRP, and the requests they make
    NoMint,
    AmountOf,       \* AmountOf[c]: the amount a call asks for, in UBA
    MintFees,       \* [bips, min, executor]: what the asset manager takes
    RedeemFees,
    Denominator,    \* BIPS_DENOMINATOR
    Lot,            \* lotSize; 0 when the protocol has none
    StartXrp,
    StartFxrp,      \* bound on the caller's FXRP
    Window,         \* the blocks getRedemptionStatus looks back over
    PollBlocks,     \* timeoutMs, in blocks
    MaxHeight,      \* bound on blocks
    MaxMintDrops    \* bound on answers of the XRP Ledger that are lost

ASSUME BridgeAssumption ==
    /\ NoMint \notin Mints /\ IsFiniteSet(Mints)
    /\ AmountOf \in [Mints \cup Redeems -> Nat \ {0}]
    /\ {MintFees, RedeemFees} \subseteq [bips : Nat, min : Nat, executor : Nat]
    /\ Denominator \in Nat \ {0} /\ Lot \in Nat /\ StartXrp \in Nat /\ StartFxrp \in Nat
    /\ Window \in Nat /\ PollBlocks \in Nat /\ MaxHeight \in Nat /\ MaxMintDrops \in Nat

VARIABLES
    xrpSeq,     \* external: the next sequence number of the wallet's XRPL account
    xrp,        \* external: what that account holds
    mintLock,   \* locks: the call whose work ends the chain, or NoMint
    mints,      \* mints[m]: where call m stands, whom it waits for, its sequence
    looseMints,      \* external: payments nobody waits for
    mintDrops,
    pastSeq,    \* history: payments refused because their sequence was used
    height,     \* external: the Flare block number
    fxrp,       \* external: the caller's FXRP
    redeems,    \* redeems[r]: where call r stands
    requests,   \* external: requests[r]: its state at the asset manager, and since when
    polls       \* polls[r]: the poll for r, when it began and when it last looked

mintVars == <<xrpSeq, xrp, mintLock, mints, looseMints, mintDrops, pastSeq>>
redeemVars == <<height, fxrp, redeems, requests, polls>>
bridgeVars == <<mintVars, redeemVars>>

Sequences == 1..(Cardinality(Mints) + 1)
MintStates == {"idle", "queued", "reads", "quoted", "prepared", "sent", "validated", "receipt",
               "threw"}
RedeemStates == {"idle", "quoted", "sent", "burned", "reverted", "receipt", "threw"}
Verdicts == {"performed", "failed", "timeout", "aborted"}

\* One type invariant, in its two parts.
MintTypeOK ==
    /\ xrpSeq \in Sequences /\ xrp \in 0..StartXrp /\ mintLock \in Mints \cup {NoMint}
    /\ mints \in [Mints -> [at : MintStates, behind : Mints \cup {NoMint}, seq : Sequences \cup {0}]]
    /\ looseMints \subseteq [of : Mints, seq : Sequences] /\ mintDrops \in 0..MaxMintDrops /\ pastSeq \in Nat
RedeemTypeOK ==
    /\ height \in 0..MaxHeight /\ fxrp \in 0..StartFxrp
    /\ redeems \in [Redeems -> RedeemStates]
    /\ requests \in [Redeems -> [is : {"none", "pending", "performed", "failed"}, since : 0..MaxHeight]]
    /\ polls \in [Redeems -> [at : {"idle", "looking", "asleep"} \cup Verdicts,
                              from : 0..MaxHeight, looked : -1..MaxHeight]]
BridgeTypeOK == MintTypeOK /\ RedeemTypeOK

MintInit ==
    /\ xrpSeq = 1 /\ xrp = StartXrp /\ mintLock = NoMint /\ looseMints = {} /\ mintDrops = 0 /\ pastSeq = 0
    /\ mints = [m \in Mints |-> [at |-> "idle", behind |-> NoMint, seq |-> 0]]

RedeemInit ==
    /\ height = 0 /\ fxrp \in 0..StartFxrp
    /\ redeems = [r \in Redeems |-> "idle"]
    /\ requests = [r \in Redeems |-> [is |-> "none", since |-> 0]]
    /\ polls = [r \in Redeems |-> [at |-> "idle", from |-> 0, looked |-> -1]]

-------------------------------------------------------------------------------
(* The quotes.                                                             *)

\* The proportional fee or the floor, whichever is more, and the executor's.
FeeOn(amount, fees) ==
    LET proportional == (amount * fees.bips) \div Denominator
    IN  (IF proportional > fees.min THEN proportional ELSE fees.min) + fees.executor

\* Minting pays the fee on top.
MintTotal(net) == net + FeeOn(net, MintFees)

\* Redeeming takes it off what is burned, and refuses when nothing is left.
RedeemLeaves(burned) == burned - FeeOn(burned, RedeemFees)

-------------------------------------------------------------------------------
(* mintFXRP: queueing for the wallet.                                      *)

GoMint(m, at) == mints' = [mints EXCEPT ![m].at = at]

\* The address has been resolved: the work is chained behind the last one's.
Enqueue(m) ==
    /\ mints[m].at = "idle"
    /\ mints' = [mints EXCEPT ![m].at = "queued", ![m].behind = mintLock]
    /\ mintLock' = m
    /\ UNCHANGED <<xrpSeq, xrp, looseMints, mintDrops, pastSeq>>

Settled(m) == mints[m].at \in {"receipt", "threw"}

\* It starts whether the one before it succeeded or failed.
StartMint(m) ==
    /\ mints[m].at = "queued"
    /\ mints[m].behind # NoMint => Settled(mints[m].behind)
    /\ GoMint(m, "reads")
    /\ UNCHANGED <<xrpSeq, xrp, mintLock, looseMints, mintDrops, pastSeq>>

\* A slip the code avoids: the finally block deletes whatever lock there is.
Bug_EndMintForgetsQueue(m, at) ==
    /\ GoMint(m, at)
    /\ mintLock' = NoMint

\* The work settles, and the finally block of its call gives up its own lock.
EndMint(m, at) ==
    /\ GoMint(m, at)
    /\ mintLock' = IF mintLock = m THEN NoMint ELSE mintLock

-------------------------------------------------------------------------------
(* mintLocked and submitXrplPayment.                                       *)

\* The personal account, the fees and the core vault are read together and the
\* quote is computed; the look at the limits after it never stops a mint.
ReadMintTerms(m) ==
    /\ mints[m].at = "reads"
    /\ GoMint(m, "quoted")
    /\ UNCHANGED <<xrpSeq, xrp, mintLock, looseMints, mintDrops, pastSeq>>

\* autofill takes the account's next sequence.
Prepare(m) ==
    /\ mints[m].at = "quoted"
    /\ mints' = [mints EXCEPT ![m].at = "prepared", ![m].seq = xrpSeq]
    /\ UNCHANGED <<xrpSeq, xrp, mintLock, looseMints, mintDrops, pastSeq>>

\* A bad amount, a failing read, autofill or the signer: nothing is sent.
MintFails(m) ==
    /\ mints[m].at \in {"reads", "quoted", "prepared"}
    /\ EndMint(m, "threw")
    /\ UNCHANGED <<xrpSeq, xrp, looseMints, mintDrops, pastSeq>>

SubmitMint(m) ==
    /\ mints[m].at = "prepared"
    /\ GoMint(m, "sent")
    /\ UNCHANGED <<xrpSeq, xrp, mintLock, looseMints, mintDrops, pastSeq>>

\* External: the ledger applies the payment of the quoted total, or a tec code
\* uses up its sequence without it, or its sequence is past: both of these are
\* FLARE_BRIDGE_SUBMIT_FAILED.
ApplyMint(m) ==
    /\ mints[m].at = "sent"
    /\ IF mints[m].seq = xrpSeq
       THEN /\ xrpSeq' = xrpSeq + 1
            /\ IF xrp >= MintTotal(AmountOf[m])
               THEN /\ GoMint(m, "validated")
                    /\ xrp' = xrp - MintTotal(AmountOf[m])
                    /\ UNCHANGED mintLock
               ELSE EndMint(m, "threw") /\ UNCHANGED xrp
            /\ UNCHANGED pastSeq
       ELSE /\ EndMint(m, "threw")
            /\ pastSeq' = pastSeq + 1
            /\ UNCHANGED <<xrpSeq, xrp>>
    /\ UNCHANGED <<looseMints, mintDrops>>

MintReceipt(m) ==
    /\ mints[m].at = "validated"
    /\ EndMint(m, "receipt")
    /\ UNCHANGED <<xrpSeq, xrp, looseMints, mintDrops, pastSeq>>

\* The connection drops before the answer; the payment may still be applied.
LoseMintAnswer(m) ==
    /\ mints[m].at \in {"sent", "validated"} /\ mintDrops < MaxMintDrops
    /\ mintDrops' = mintDrops + 1
    /\ looseMints' = IF mints[m].at = "sent" THEN looseMints \cup {[of |-> m, seq |-> mints[m].seq]} ELSE looseMints
    /\ EndMint(m, "threw")
    /\ UNCHANGED <<xrpSeq, xrp, pastSeq>>

\* It is applied, or dropped when its sequence is past.
LooseMintLands ==
    /\ \E l \in looseMints :
          /\ looseMints' = looseMints \ {l}
          /\ \/ l.seq < xrpSeq /\ UNCHANGED <<xrpSeq, xrp>>
             \/ /\ l.seq = xrpSeq /\ xrpSeq' = xrpSeq + 1
                /\ xrp' = IF xrp >= MintTotal(AmountOf[l.of]) THEN xrp - MintTotal(AmountOf[l.of]) ELSE xrp
    /\ UNCHANGED <<mintLock, mints, mintDrops, pastSeq>>

MintNext ==
    \/ \E m \in Mints :
        \/ Enqueue(m) \/ StartMint(m) \/ ReadMintTerms(m) \/ Prepare(m) \/ MintFails(m) \/ SubmitMint(m)
        \/ ApplyMint(m) \/ MintReceipt(m) \/ LoseMintAnswer(m)
    \/ LooseMintLands

MintSpec == MintInit /\ [][MintNext]_mintVars

-------------------------------------------------------------------------------
(* redeemXRP.                                                              *)

GoRedeem(r, at) == redeems' = [redeems EXCEPT ![r] = at]

\* Whole lots only, unless the protocol has none.
WholeLots(amount) == Lot > 0 => amount % Lot = 0

\* Balance, fees and lot size are read together; an uncovered amount, one that
\* is no multiple of the lot, or one the fees eat up throws.
ReadRedeem(r) ==
    /\ redeems[r] = "idle"
    /\ LET amount == AmountOf[r]
       IN  GoRedeem(r, IF fxrp >= amount /\ WholeLots(amount) /\ RedeemLeaves(amount) > 0
                       THEN "quoted" ELSE "threw")
    /\ UNCHANGED <<height, fxrp, requests, polls>>

\* The asset manager's address and the write; either may fail.
SubmitRedeem(r) ==
    /\ redeems[r] = "quoted"
    /\ \E at \in {"sent", "threw"} : GoRedeem(r, at)
    /\ UNCHANGED <<height, fxrp, requests, polls>>

\* External: redeem burns what the caller still has, or reverts.
MineRedeem(r) ==
    /\ redeems[r] = "sent"
    /\ IF fxrp >= AmountOf[r]
       THEN /\ GoRedeem(r, "burned")
            /\ fxrp' = fxrp - AmountOf[r]
            /\ requests' = [requests EXCEPT ![r] = [is |-> "pending", since |-> height]]
       ELSE GoRedeem(r, "reverted") /\ UNCHANGED <<fxrp, requests>>
    /\ UNCHANGED <<height, polls>>

\* The receipt's status is not looked at: a reverted call has no event, so
\* parseRedemptionRequestedId throws.
ParseReceipt(r) ==
    /\ redeems[r] \in {"burned", "reverted"}
    /\ GoRedeem(r, IF redeems[r] = "burned" THEN "receipt" ELSE "threw")
    /\ UNCHANGED <<height, fxrp, requests, polls>>

-------------------------------------------------------------------------------
(* pollRedemption.                                                         *)

StartPoll(r) ==
    /\ redeems[r] = "receipt" /\ polls[r].at = "idle"
    /\ polls' = [polls EXCEPT ![r] = [at |-> "asleep", from |-> height, looked |-> -1]]
    /\ UNCHANGED <<height, fxrp, redeems, requests>>

\* The loop goes round while the time lasts and nobody aborts.
WakePoll(r) ==
    /\ polls[r].at = "asleep"
    /\ \E at \in {"looking", "aborted"} :
          polls' = [polls EXCEPT ![r].at =
              IF height - polls[r].from < PollBlocks THEN at ELSE "timeout"]
    /\ UNCHANGED <<height, fxrp, redeems, requests>>

\* An event in the last Window blocks.
InWindow(r) == requests[r].is \in {"performed", "failed"} /\ height - requests[r].since <= Window

\* getRedemptionStatus scans the window for the events of this request; a
\* pending one is polled again after a pause.
Look(r) ==
    /\ polls[r].at = "looking"
    /\ polls' = [polls EXCEPT ![r].looked = height,
          ![r].at = IF InWindow(r) THEN requests[r].is ELSE "asleep"]
    /\ UNCHANGED <<height, fxrp, redeems, requests>>

\* External: an agent pays the XRP, or reports that it could not; blocks pass.
AgentActs(r) ==
    /\ requests[r].is = "pending"
    /\ \E is \in {"performed", "failed"} :
          requests' = [requests EXCEPT ![r] = [is |-> is, since |-> height]]
    /\ UNCHANGED <<height, fxrp, redeems, polls>>

FlareBlock ==
    /\ height < MaxHeight
    /\ height' = height + 1
    /\ UNCHANGED <<fxrp, redeems, requests, polls>>

RedeemNext ==
    \/ \E r \in Redeems :
        \/ ReadRedeem(r) \/ SubmitRedeem(r) \/ MineRedeem(r) \/ ParseReceipt(r)
        \/ StartPoll(r) \/ WakePoll(r) \/ Look(r) \/ AgentActs(r)
    \/ FlareBlock

RedeemSpec == RedeemInit /\ [][RedeemNext]_redeemVars

-------------------------------------------------------------------------------
(* Properties.                                                             *)

\* No mint is refused for a used sequence unless an answer was lost on the
\* way ("Per-wallet mutex serialises concurrent calls so the XRPL sequence
\* number never races", bridge.ts:116), and no two are at work together.
SequencesNeverRace ==
    /\ mintDrops = 0 => pastSeq = 0
    /\ \A m, n \in Mints :
          {mints[m].at, mints[n].at} \subseteq {"reads", "quoted", "prepared", "sent", "validated"} => m = n

\* A redemption receipt stands for a request, even when overlapping calls were
\* quoted on the same balance, and the burns never exceed what there was.
ReceiptMeansRequest ==
    \A r \in Redeems : redeems[r] = "receipt" => requests[r].is # "none"

\* The verdict of a poll is its own request's, and a timeout means that the
\* last look found no event in its window.
PollTellsChain ==
    \A r \in Redeems :
        /\ polls[r].at \in {"performed", "failed"} => requests[r].is = polls[r].at
        /\ polls[r].at = "timeout" =>
              \/ requests[r].is = "pending"
              \/ requests[r].since >= polls[r].looked
              \/ polls[r].looked - requests[r].since > Window

\* The bridge as a whole.
BridgeHolds == SequencesNeverRace /\ ReceiptMeansRequest /\ PollTellsChain
===============================================================================
