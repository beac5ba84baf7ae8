--------------------------- MODULE MorphFacilitator ---------------------------
(***************************************************************************)
(* createMorphHoodiFacilitator of src/morph/facilitator.ts: /v2/verify and *)
(* /v2/settle, which submits a buyer's signed EIP-3009 authorization at    *)
(* the sponsor's expense.  A process-wide set of nonces guards against     *)
(* replay; every await is a step boundary, and a slot is one request under *)
(* way.  A request that fails the HMAC, path or field checks is answered   *)
(* without touching any state and is left out there.  The chain is         *)
(* external.                                                               *)
(*                                                                         *)
(* The buyer's side is a part of its own below: the adapter                *)
(* (adapters/morph-x402.ts) and its client (morph/client.ts), which signs  *)
(* its requests and gives up on them sooner than the facilitator gives up  *)
(* on the chain.                                                           *)
(***************************************************************************)
EXTENDS Integers, FiniteSets

CONSTANTS
    Auths,      \* authorizations, one nonce each
    Signed,     \* those whose signature recovers to their "from"
    Slots,      \* requests under way together
    None,
    MaxLost,    \* bound on reads and submissions that throw
    MaxLate,    \* bound on receipts that miss the timeout
    MaxRestarts,\* bound on process restarts
    MorphTries,   \* calls of pay(): 1..n
    MorphTimeout, \* timeoutMs of the client, in ticks
    SponsorWait,  \* how long the facilitator waits for a receipt
    HmacSkew,     \* hmacSkewMs of the facilitator
    AuthWindow,   \* how long an authorization is valid
    MaxMorphTime  \* bound on the clock

ASSUME FacilitatorAssumption ==
    /\ Signed \subseteq Auths /\ None \notin Auths /\ IsFiniteSet(Slots)
    /\ {MaxLost, MaxLate, MaxRestarts} \subseteq Nat
    /\ {MorphTries, MorphTimeout, SponsorWait, HmacSkew, AuthWindow, MaxMorphTime} \subseteq Nat

VARIABLES
    charged,    \* external: nonces used on the chain (authorizationState)
    expired,    \* external: authorizations past validBefore
    loose,      \* external: loose[a], transactions for a nobody waits for
    seen,       \* seenNonces
    reqs,       \* reqs[s]: the request in slot s
    served,     \* served[a]: how often success: true was answered for a
    failed,     \* history: authorizations a settle answered a failure for
    lost, late, restarts

vars == <<charged, expired, loose, seen, reqs, served, failed, lost, late, restarts>>
chain == <<charged, expired, loose>>
answers == <<served, failed>>
counters == <<lost, late, restarts>>

Idle == [at |-> "idle", auth |-> None, kind |-> "settle"]
\* Only settles, of signed authorizations, get as far as the chain.
Request == {Idle} \cup
    [at : {"recovering"}, auth : Auths, kind : {"verify", "settle"}] \cup
    [at : {"reading", "unused", "used"}, auth : Signed, kind : {"verify", "settle"}] \cup
    [at : {"submitting", "waiting", "mined", "reverted"}, auth : Signed, kind : {"settle"}]

TypeOK ==
    /\ charged \subseteq Signed /\ expired \subseteq Auths
    /\ loose \in [Auths -> Nat]
    /\ seen \subseteq Auths
    /\ reqs \in [Slots -> Request]
    /\ served \in [Auths -> Nat]
    /\ failed \subseteq Auths
    /\ lost \in 0..MaxLost /\ late \in 0..MaxLate /\ restarts \in 0..MaxRestarts

Init ==
    /\ charged = {} /\ expired = {}
    /\ loose = [a \in Auths |-> 0]
    /\ seen = {}
    /\ reqs = [s \in Slots |-> Idle]
    /\ served = [a \in Auths |-> 0]
    /\ failed = {}
    /\ lost = 0 /\ late = 0 /\ restarts = 0

\* The request in s goes from one stage to another, or ends.
Move(s, from, to) ==
    /\ reqs[s].at = from
    /\ reqs' = [reqs EXCEPT ![s].at = to]
End(s) == reqs' = [reqs EXCEPT ![s] = Idle]

Throw == lost < MaxLost /\ lost' = lost + 1 /\ UNCHANGED <<late, restarts>>

-------------------------------------------------------------------------------
(* runVerify.                                                              *)

\* The time window and the nonces seen; a request that fails either is
\* answered at once.
Arrive(s, a, kind) ==
    /\ reqs[s] = Idle
    /\ a \notin expired
    /\ a \notin seen
    /\ reqs' = [reqs EXCEPT ![s] = [at |-> "recovering", auth |-> a, kind |-> kind]]
    /\ UNCHANGED <<chain, seen, answers, counters>>

\* The signer is recovered: a wrong one ends the request.
Recover(s) ==
    /\ reqs[s].at = "recovering"
    /\ IF reqs[s].auth \in Signed THEN Move(s, "recovering", "reading") ELSE End(s)
    /\ UNCHANGED <<chain, seen, answers, counters>>

\* The chain reads authorizationState; its answer takes a while.
ReadUsed(s) ==
    /\ Move(s, "reading", IF reqs[s].auth \in charged THEN "used" ELSE "unused")
    /\ UNCHANGED <<chain, seen, answers, counters>>

\* A used nonce, or a peek, ends here.
VerifyEnds(s) ==
    /\ \/ reqs[s].at = "used"
       \/ reqs[s].at = "unused" /\ reqs[s].kind = "verify"
    /\ End(s)
    /\ UNCHANGED <<chain, seen, answers, counters>>

\* The read throws: a settle answers 502, a verify answers "valid".
ReadThrows(s) ==
    /\ reqs[s].at \in {"reading", "used", "unused"}
    /\ Throw
    /\ End(s)
    /\ UNCHANGED <<chain, seen, answers>>

\* A slip the code avoids: a peek goes on to be settled.
Bug_ConsumePeek(s) ==
    /\ Move(s, "unused", "submitting")
    /\ seen' = seen \cup {reqs[s].auth}
    /\ UNCHANGED <<chain, answers, counters>>

\* A settle registers the nonce, and submits in the same turn.
Consume(s) ==
    /\ Move(s, "unused", "submitting")
    /\ reqs[s].kind = "settle"
    /\ seen' = seen \cup {reqs[s].auth}
    /\ UNCHANGED <<chain, answers, counters>>

-------------------------------------------------------------------------------
(* submitOnChain and the answer of settle.                                 *)

Submit(s) ==
    /\ Move(s, "submitting", "waiting")
    /\ UNCHANGED <<chain, seen, answers, counters>>

\* external: the token takes an authorization once, in its time window; a
\* transaction may revert for other reasons (the buyer's balance).
Charges(a) ==
    /\ a \in Signed /\ a \notin charged /\ a \notin expired
    /\ charged' = charged \cup {a}
Reverts == UNCHANGED charged

Mine(s) ==
    /\ \/ Charges(reqs[s].auth) /\ Move(s, "waiting", "mined")
       \/ Reverts /\ Move(s, "waiting", "reverted")
    /\ UNCHANGED <<expired, loose, seen, answers, counters>>

MineLoose(a) ==
    /\ loose[a] > 0
    /\ loose' = [loose EXCEPT ![a] = loose[a] - 1]
    /\ Charges(a) \/ Reverts
    /\ UNCHANGED <<expired, seen, reqs, answers, counters>>

\* A slip the code avoids: any receipt is a success, and a finally block
\* frees the nonce.
Bug_AnswerMined(s) ==
    /\ reqs[s].at \in {"mined", "reverted"}
    /\ served' = [served EXCEPT ![reqs[s].auth] = served[reqs[s].auth] + 1]
    /\ seen' = seen \ {reqs[s].auth}
    /\ End(s)
    /\ UNCHANGED <<chain, failed, counters>>

\* The receipt says success.
Answer(s) ==
    /\ reqs[s].at = "mined"
    /\ served' = [served EXCEPT ![reqs[s].auth] = served[reqs[s].auth] + 1]
    /\ End(s)
    /\ UNCHANGED <<chain, seen, failed, counters>>

\* A slip the code avoids: the failure leaves the nonce registered.
Bug_FailKeepsNonce(s) ==
    /\ failed' = failed \cup {reqs[s].auth}
    /\ End(s)
    /\ UNCHANGED <<charged, expired, served, seen>>

\* The catch block: the nonce is freed and a failure answered.
Fail(s) ==
    /\ seen' = seen \ {reqs[s].auth}
    /\ failed' = failed \cup {reqs[s].auth}
    /\ End(s)
    /\ UNCHANGED <<charged, expired, served>>

\* The receipt says reverted.
Revert(s) ==
    /\ reqs[s].at = "reverted"
    /\ Fail(s)
    /\ UNCHANGED <<loose, counters>>

Abandon(a) == loose' = [loose EXCEPT ![a] = loose[a] + 1]

\* The submission throws, before or after it left.
SubmitThrows(s) ==
    /\ reqs[s].at = "submitting"
    /\ Throw
    /\ UNCHANGED loose \/ Abandon(reqs[s].auth)
    /\ Fail(s)

\* No receipt within the timeout, mined or not.
ReceiptLate(s) ==
    /\ late < MaxLate /\ late' = late + 1
    /\ \/ reqs[s].at = "waiting" /\ Abandon(reqs[s].auth)
       \/ reqs[s].at \in {"mined", "reverted"} /\ UNCHANGED loose
    /\ Fail(s)
    /\ UNCHANGED <<lost, restarts>>

-------------------------------------------------------------------------------
(* Surroundings.                                                           *)

Expire(a) ==
    /\ a \notin expired
    /\ expired' = expired \cup {a}
    /\ UNCHANGED <<charged, loose, seen, reqs, answers, counters>>

\* The process restarts: memory is gone, transactions under way are not.
Restart ==
    /\ restarts < MaxRestarts /\ restarts' = restarts + 1
    /\ seen' = {}
    /\ reqs' = [s \in Slots |-> Idle]
    /\ loose' = [a \in Auths |->
           loose[a] + Cardinality({s \in Slots : reqs[s].at = "waiting" /\ reqs[s].auth = a})]
    /\ UNCHANGED <<charged, expired, answers, lost, late>>

Next ==
    \/ \E s \in Slots :
        \/ \E a \in Auths, kind \in {"verify", "settle"} : Arrive(s, a, kind)
        \/ Recover(s) \/ ReadUsed(s) \/ VerifyEnds(s) \/ ReadThrows(s) \/ Consume(s)
        \/ Submit(s) \/ Mine(s) \/ Answer(s) \/ Revert(s)
        \/ SubmitThrows(s) \/ ReceiptLate(s)
    \/ \E a \in Auths : MineLoose(a) \/ Expire(a)
    \/ Restart

Spec == Init /\ [][Next]_vars

-------------------------------------------------------------------------------
(* The buyer.                                                              *)

VARIABLES
    wire,      \* how the client and the facilitator are set up
    buyer,     \* the call of pay() under way
    posts,     \* posts[n]: the settle request of the n-th call
    domain,    \* domainCache: "unknown", "right" or "wrong"
    morphTime,
    movedBy,   \* history: the calls whose transfer landed
    unsure     \* history: the calls given up on with a transfer under way

morphVars == <<wire, buyer, posts, domain, morphTime, movedBy, unsure>>

Calls == 1..MorphTries
Wires == [keys : {"none", "same", "other"}, guarded : BOOLEAN, mounted : BOOLEAN,
          fields : BOOLEAN, usual : BOOLEAN, skew : {0, 1}]
NewBuyer == [at |-> "idle", call |-> 0, since |-> 0]
NoPost == [at |-> "none", stamp |-> 0, until |-> 0, answer |-> "none"]

MorphTypeOK ==
    /\ wire \in Wires
    /\ buyer \in [at : {"idle", "verify", "settle", "done", "threw"}, call : 0..MorphTries,
                  since : 0..MaxMorphTime]
    /\ posts \in [Calls -> [at : {"none", "sent", "working", "late", "ended"}, stamp : 0..MaxMorphTime,
                            until : Nat, answer : {"none", "success", "failure"}]]
    /\ domain \in {"unknown", "right", "wrong"} /\ morphTime \in 0..MaxMorphTime
    /\ movedBy \subseteq Calls /\ unsure \subseteq Calls

MorphInit ==
    /\ wire \in Wires
    /\ buyer = NewBuyer
    /\ posts = [n \in Calls |-> NoPost]
    /\ domain = "unknown" /\ morphTime = 0
    /\ movedBy = {} /\ unsure = {}

\* The facilitator answers on its own path.
Routed == wire.mounted

\* Both sides put the same fields in the same order and sign them, each with its
\* own keys.
KeysFit == wire.keys = "same"

\* A facilitator with keys takes what was signed not too long ago by its clock.
HmacFits(stamp) == wire.guarded => KeysFit /\ morphTime + wire.skew - stamp <= HmacSkew

\* Asset, network and payee are its own, and the authorization is valid.
FieldsFit(until) == wire.fields /\ morphTime < until

\* The buyer signed for the token's name.
SignerFits == domain = "right"

Takes(stamp, until) == Routed /\ HmacFits(stamp) /\ FieldsFit(until) /\ SignerFits

\* resolveEip712Domain(): the name is read once; when that fails the usual name
\* stays for good.
ResolveDomain ==
    \/ domain = "unknown" /\ domain' \in {"right", IF wire.usual THEN "right" ELSE "wrong"}
    \/ domain # "unknown" /\ UNCHANGED domain

\* paySponsored() makes out an authorization with a nonce of its own.
MakeOut ==
    /\ buyer.at = "idle" /\ buyer.call < MorphTries
    /\ ResolveDomain
    /\ LET n == buyer.call + 1 IN
       /\ buyer' = [at |-> "verify", call |-> n, since |-> morphTime]
       /\ posts' = [posts EXCEPT ![n].stamp = morphTime, ![n].until = morphTime + AuthWindow]
    /\ UNCHANGED <<wire, morphTime, movedBy, unsure>>

\* verify() is answered in time; a payment that is valid is settled at once.
MorphVerified ==
    /\ buyer.at = "verify" /\ morphTime <= buyer.since + MorphTimeout
    /\ LET n == buyer.call IN
       IF Takes(posts[n].stamp, posts[n].until)
       THEN /\ buyer' = [buyer EXCEPT !.at = "settle", !.since = morphTime]
            /\ posts' = [posts EXCEPT ![n].at = "sent", ![n].stamp = morphTime]
       ELSE buyer' = [buyer EXCEPT !.at = "threw"] /\ UNCHANGED posts
    /\ UNCHANGED <<wire, domain, morphTime, movedBy, unsure>>

\* The settle request comes in.
Admitted(n) ==
    /\ posts[n].at = "sent"
    /\ posts' = IF Takes(posts[n].stamp, posts[n].until)
                   THEN [posts EXCEPT ![n].at = "working", ![n].stamp = morphTime]
                   ELSE [posts EXCEPT ![n].at = "ended", ![n].answer = "failure"]
    /\ UNCHANGED <<wire, buyer, domain, morphTime, movedBy, unsure>>

\* The transfer lands, is refused, or does neither while the facilitator waits.
\* (What overlapping requests of one nonce do to each other is above.)
Sponsored(n) ==
    /\ posts[n].at = "working"
    /\ \/ /\ morphTime < posts[n].until /\ movedBy' = movedBy \cup {n}
          /\ posts' = [posts EXCEPT ![n].at = "ended", ![n].answer = "success"]
          /\ UNCHANGED unsure
       \/ /\ posts' = [posts EXCEPT ![n].at = "ended", ![n].answer = "failure"]
          /\ UNCHANGED <<movedBy, unsure>>
       \/ /\ morphTime >= posts[n].stamp + SponsorWait /\ unsure' = unsure \cup {n}
          /\ posts' = [posts EXCEPT ![n].at = "late", ![n].answer = "failure"]
          /\ UNCHANGED movedBy
    /\ UNCHANGED <<wire, buyer, domain, morphTime>>

LandsLate(n) ==
    /\ posts[n].at = "late" /\ morphTime < posts[n].until
    /\ movedBy' = movedBy \cup {n} /\ posts' = [posts EXCEPT ![n].at = "ended"]
    /\ UNCHANGED <<wire, buyer, domain, morphTime, unsure>>

MorphSettled ==
    /\ buyer.at = "settle" /\ posts[buyer.call].answer # "none"
    /\ buyer' = [buyer EXCEPT !.at = IF posts[buyer.call].answer = "success" THEN "done" ELSE "threw"]
    /\ UNCHANGED <<wire, posts, domain, morphTime, movedBy, unsure>>

\* The timer of the client: the request is aborted, its work goes on.
MorphTimesOut ==
    /\ buyer.at \in {"verify", "settle"} /\ morphTime >= buyer.since + MorphTimeout
    /\ buyer' = [buyer EXCEPT !.at = "threw"]
    /\ unsure' = IF buyer.at = "settle" THEN unsure \cup {buyer.call} ELSE unsure
    /\ UNCHANGED <<wire, posts, domain, morphTime, movedBy>>

\* The buyer's code calls again, as the error tells it to.
PayAgain ==
    /\ buyer.at = "threw" /\ buyer' = [buyer EXCEPT !.at = "idle"]
    /\ UNCHANGED <<wire, posts, domain, morphTime, movedBy, unsure>>

MorphTick ==
    /\ morphTime < MaxMorphTime /\ morphTime' = morphTime + 1
    /\ UNCHANGED <<wire, buyer, posts, domain, movedBy, unsure>>

MorphNext ==
    \/ MakeOut \/ MorphVerified \/ MorphSettled \/ MorphTimesOut \/ PayAgain \/ MorphTick
    \/ \E n \in Calls : Admitted(n) \/ Sponsored(n) \/ LandsLate(n)

MorphSpec == MorphInit /\ [][MorphNext]_morphVars

-------------------------------------------------------------------------------
(* Properties.                                                             *)

\* The facilitator implements PaidAccess: however requests overlap, time out
\* or are cut by a restart, success is answered for an authorization at most
\* once, and only when its transfer is on the chain (facilitator.ts:279).
Access == INSTANCE PaidAccess WITH Payments <- Auths
SuccessMeansCharged == Access!AccessSpec

Settling(a) ==
    \E s \in Slots :
        reqs[s].auth = a /\ reqs[s].at \in {"submitting", "waiting", "mined", "reverted"}

\* A nonce is refused as used only while it is being settled or once it has
\* been used: no failure leaves a nonce blocked (facilitator.ts:120).
SeenIsBacked == \A a \in seen : a \in charged \/ Settling(a)

\* A settle that answers a failure has not moved the buyer's money: the buyer
\* is told that the "sponsor failed to submit" and to sign anew
\* (adapters/morph-x402.ts:177).  It holds however settles of one nonce
\* overlap, until a receipt comes late, a call throws or the process restarts:
\* from then on a transaction nobody waits for may still land.
FailedMeansUnpaid ==
    late + lost + restarts = 0 =>
        \A a \in failed \cap charged : served[a] > 0 \/ Settling(a)

\* A buyer who is told of a failure and signs anew pays twice only when a wait
\* ran out before, the client's or the facilitator's, with the first transfer
\* under way; it is told of a success only when its transfer landed; and nothing
\* moves for a buyer whose keys, path, asset or name of the token are not the
\* facilitator's (morph/client.ts:119, adapters/morph-x402.ts:171-180).
BuyerPaysOnce ==
    /\ movedBy \subseteq unsure \cup (IF buyer.at \in {"settle", "done"} THEN {buyer.call} ELSE {})
    /\ buyer.at = "done" => buyer.call \in movedBy
    /\ movedBy # {} => /\ wire.mounted /\ wire.fields /\ domain = "right"
                       /\ ~wire.guarded \/ wire.keys = "same"

\* The Morph facilitator tells the truth about a nonce: one it refuses as used
\* is being settled or was, and one it failed has not been paid with
\* (morph/facilitator.ts:252-300); and its buyer pays twice only after a wait ran
\* out: see BuyerPaysOnce.
MorphHolds == SeenIsBacked /\ FailedMeansUnpaid /\ BuyerPaysOnce
===============================================================================
