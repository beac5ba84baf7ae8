---------------------------- MODULE XrplTrustline ----------------------------
(***************************************************************************)
(* ensureTrustline of src/xrpl/payments.ts for one (address, issuer,       *)
(* currency): the cache of answers, the map of works under way that        *)
(* parallel callers share, and the TrustSet that creates the line when the *)
(* caller brings a signer.  The buyer adapter and the paywall of one       *)
(* process share both maps, so callers with and without a signer meet      *)
(* here.  The ledger is external: it may validate a transaction without    *)
(* success (a tec code), or the connection may drop before the answer.     *)
(***************************************************************************)
EXTENDS Integers, FiniteSets

CONSTANTS
    Callers,
    Signing,        \* callers whose signer is the owner of the address
    Foreign,        \* callers whose signer is somebody else
    LineTtl,        \* cacheTtlMs, in ticks
    NoCaller,
    MaxLineTime,    \* bound on time
    MaxDrops,       \* bound on answers the connection loses
    MaxTecs,        \* bound on TrustSets validated with a tec code
    MaxSent         \* bound on TrustSets, for LineTypeOK

ASSUME TrustlineAssumption ==
    /\ Signing \subseteq Callers /\ Foreign \subseteq Callers
    /\ Signing \cap Foreign = {}
    /\ NoCaller \notin Callers
    /\ LineTtl \in Nat /\ MaxLineTime \in Nat /\ MaxDrops \in Nat /\ MaxSent \in Nat
    /\ MaxTecs \in Nat

VARIABLES
    line,       \* external: the trust line exists on the ledger
    looseSets,  \* external: TrustSets nobody waits for that may still land
    known,      \* trustlineCache: the answer and when it expires
    lock,       \* trustlineLocks: the caller whose work is under way, or NoCaller
    calls,      \* calls[c]: where the call of c stands
    lineNow,
    drops,
    tecs,       \* external: TrustSets validated without success
    sent        \* history: TrustSets submitted

ledger == <<line, looseSets>>
lineCounters == <<lineNow, drops, tecs>>
lineVars == <<ledger, known, lock, calls, lineCounters, sent>>

\* Answers of a call: { ok: true }, { ok: false, reason: 'missing' }, an error.
Answers == {"ok", "missing", "threw"}
Idle == [at |-> "idle"]
Empty == [answer |-> "none", until |-> 0]

Calls == {Idle}
    \cup [at : {"waiting"}, on : Callers]
    \cup [at : {"lines", "submitted", "validated"}]
    \cup [at : {"read"}, seen : BOOLEAN]
    \cup [at : {"done"}, answer : Answers]

\* A call that runs the work itself and has not settled it.
Working(c) == calls[c].at \in {"lines", "read", "submitted", "validated"}

\* One type invariant.
LineTypeOK ==
    /\ line \in BOOLEAN
    /\ looseSets \in 0..MaxDrops
    /\ known \in {Empty} \cup [answer : {"ok", "missing"}, until : 0..(MaxLineTime + LineTtl)]
    /\ lock \in Callers \cup {NoCaller}
    /\ calls \in [Callers -> Calls]
    /\ lineNow \in 0..MaxLineTime
    /\ drops \in 0..MaxDrops
    /\ tecs \in 0..MaxTecs
    /\ sent \in 0..MaxSent

LineInit ==
    /\ line \in BOOLEAN
    /\ looseSets = 0
    /\ known = Empty
    /\ lock = NoCaller
    /\ calls = [c \in Callers |-> Idle]
    /\ lineNow = 0 /\ drops = 0 /\ tecs = 0 /\ sent = 0

LineFresh == known.answer # "none" /\ known.until > lineNow

-------------------------------------------------------------------------------
(* The call up to its first await.                                         *)

\* A fresh cached answer, whatever it is, is returned at once.
Hit(c) ==
    /\ calls[c] = Idle /\ LineFresh
    /\ calls' = [calls EXCEPT ![c] = [at |-> "done", answer |-> known.answer]]
    /\ UNCHANGED <<ledger, known, lock, lineCounters, sent>>

\* Otherwise the promise of the work under way is returned.
Join(c) ==
    /\ calls[c] = Idle /\ ~LineFresh /\ lock # NoCaller
    /\ calls' = [calls EXCEPT ![c] = [at |-> "waiting", on |-> lock]]
    /\ UNCHANGED <<ledger, known, lock, lineCounters, sent>>

\* A slip the code avoids: a call starts its own work while one is under way.
Bug_BeginUnshared(c) ==
    /\ calls[c] = Idle /\ ~LineFresh
    /\ lock' = c
    /\ calls' = [calls EXCEPT ![c] = [at |-> "lines"]]
    /\ UNCHANGED <<ledger, known, lineCounters, sent>>

\* Otherwise the call starts the work and stores its promise.
Begin(c) ==
    /\ calls[c] = Idle /\ ~LineFresh /\ lock = NoCaller
    /\ lock' = c
    /\ calls' = [calls EXCEPT ![c] = [at |-> "lines"]]
    /\ UNCHANGED <<ledger, known, lineCounters, sent>>

-------------------------------------------------------------------------------
(* The work.                                                               *)

\* The promise of c's work settles: its own call and every call that joined
\* it get the answer, and the finally block of c gives the lock back.
Settle(c, answer) ==
    /\ calls' = [d \in Callers |->
          IF d = c \/ calls[d] = [at |-> "waiting", on |-> c]
          THEN [at |-> "done", answer |-> answer] ELSE calls[d]]
    /\ lock' = IF lock = c THEN NoCaller ELSE lock

Remember(answer) == known' = [answer |-> answer, until |-> lineNow + LineTtl]

\* The ledger evaluates account_lines.
ReadLines(c) ==
    /\ calls[c].at = "lines"
    /\ calls' = [calls EXCEPT ![c] = [at |-> "read", seen |-> line]]
    /\ UNCHANGED <<ledger, known, lock, lineCounters, sent>>

\* account_lines fails.
LinesFail(c) ==
    /\ calls[c].at = "lines"
    /\ Settle(c, "threw")
    /\ UNCHANGED <<ledger, known, lineCounters, sent>>

\* The line was there.
Exists(c) ==
    /\ calls[c].at = "read" /\ calls[c].seen
    /\ Settle(c, "ok") /\ Remember("ok")
    /\ UNCHANGED <<ledger, lineCounters, sent>>

\* No line and no signer: the negative answer is cached as well.
Missing(c) ==
    /\ calls[c] = [at |-> "read", seen |-> FALSE] /\ c \notin Signing \cup Foreign
    /\ Settle(c, "missing") /\ Remember("missing")
    /\ UNCHANGED <<ledger, lineCounters, sent>>

\* XRPL_TRUSTLINE_SIGNER_MISMATCH, or XRPL_TRUSTLINE_SIGN_FAILED for a signer
\* that returns no blob, or autofill fails.
CannotSign(c) ==
    /\ calls[c] = [at |-> "read", seen |-> FALSE] /\ c \in Signing \cup Foreign
    /\ Settle(c, "threw")
    /\ UNCHANGED <<ledger, known, lineCounters, sent>>

\* The owner signs a TrustSet and submits it.
SubmitTrustSet(c) ==
    /\ calls[c] = [at |-> "read", seen |-> FALSE] /\ c \in Signing
    /\ sent < MaxSent
    /\ sent' = sent + 1
    /\ calls' = [calls EXCEPT ![c] = [at |-> "submitted"]]
    /\ UNCHANGED <<ledger, known, lock, lineCounters>>

\* submitAndWait returned: the code takes any validated result for success.
Created(c) ==
    /\ calls[c].at = "validated"
    /\ Settle(c, "ok") /\ Remember("ok")
    /\ UNCHANGED <<ledger, lineCounters, sent>>

\* The connection drops while the call waits; a transaction that has been
\* submitted and not validated may still land.
LoseAnswer(c) ==
    /\ calls[c].at \in {"submitted", "validated"} /\ drops < MaxDrops
    /\ drops' = drops + 1
    /\ looseSets' = IF calls[c].at = "submitted" THEN looseSets + 1 ELSE looseSets
    /\ Settle(c, "threw")
    /\ UNCHANGED <<line, known, lineNow, tecs, sent>>

\* The caller takes its answer and may call again.
Return(c) ==
    /\ calls[c].at = "done"
    /\ calls' = [calls EXCEPT ![c] = Idle]
    /\ UNCHANGED <<ledger, known, lock, lineCounters, sent>>

\* clearTrustlineCache.
ClearCache ==
    /\ known # Empty
    /\ known' = Empty
    /\ UNCHANGED <<ledger, lock, calls, lineCounters, sent>>

-------------------------------------------------------------------------------
(* The ledger and the clock.                                               *)

\* A TrustSet somebody waits for is validated, with or without success.
Validate(c) ==
    /\ calls[c].at = "submitted"
    /\ \/ line' = TRUE /\ UNCHANGED tecs
       \/ tecs < MaxTecs /\ tecs' = tecs + 1 /\ UNCHANGED line
    /\ calls' = [calls EXCEPT ![c] = [at |-> "validated"]]
    /\ UNCHANGED <<looseSets, known, lock, lineNow, drops, sent>>

\* One nobody waits for lands, or expires.
LooseEnds ==
    /\ looseSets > 0
    /\ looseSets' = looseSets - 1
    /\ line' \in {line, TRUE}
    /\ UNCHANGED <<known, lock, calls, lineCounters, sent>>

\* The operator creates the line by hand, as the hint advises.
CreateByHand ==
    /\ ~line
    /\ line' = TRUE
    /\ UNCHANGED <<looseSets, known, lock, calls, lineCounters, sent>>

LineTick ==
    /\ lineNow < MaxLineTime
    /\ lineNow' = lineNow + 1
    /\ UNCHANGED <<ledger, known, lock, calls, drops, tecs, sent>>

LineNext ==
    \/ \E c \in Callers :
        \/ Hit(c) \/ Join(c) \/ Begin(c)
        \/ ReadLines(c) \/ LinesFail(c) \/ Exists(c) \/ Missing(c)
        \/ CannotSign(c) \/ SubmitTrustSet(c) \/ Created(c) \/ LoseAnswer(c)
        \/ Return(c) \/ Validate(c)
    \/ ClearCache \/ LooseEnds \/ CreateByHand \/ LineTick

LineSpec == LineInit /\ [][LineNext]_lineVars

-------------------------------------------------------------------------------
(* Properties.                                                             *)

\* An ok answer, given or cached, stands for a line that is on the ledger,
\* even when another caller's TrustSet made it or an answer was lost ("True
\* when the trustline exists on the configured network", payments.ts:31).  A
\* TrustSet that is validated with a tec code is taken for success, so the
\* promise ends there.
OkMeansLine ==
    \/ line
    \/ tecs > 0
    \/ known.answer # "ok" /\ \A c \in Callers : calls[c] # [at |-> "done", answer |-> "ok"]

\* Parallel and repeated calls submit one TrustSet, whatever the cache
\* forgets ("never submit two TrustSet txs", payments.ts:87), and one more for
\* each answer the connection loses or the ledger refuses.
TrustSetOnce == sent <= 1 + drops + tecs
===============================================================================
