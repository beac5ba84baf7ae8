--------------------------- MODULE AcquisitionRouter ---------------------------
(***************************************************************************)
(* UsdcAcquisitionRouter of src/goat/acquisition.ts: several acquire() and *)
(* estimate() calls of one wallet at once.  A call looks its idempotency   *)
(* key up at once, then queues on the promise chain this.mutex:            *)
(*                                                                         *)
(*   idle --> queued --head--> reading --cap, path--> executing --> idle   *)
(*                                                                         *)
(* this.mutex = this.mutex.then(...): when one run rejects, the chain is   *)
(* rejected, and every later callback is skipped with the same error.      *)
(***************************************************************************)
EXTENDS AuditLog, Sequences

CONSTANTS
    Callers,                    \* calls that can be outstanding together
    Keys, NoKey,                \* idempotency keys
    Targets,                    \* values of targetUsdcWei (0 returns at once)
    AcquireMaxHour, AcquireMaxDay,      \* config.maxPerHour, config.maxPerDay
    Window,                     \* DEFAULT_IDEMP_WINDOW_MS, in ticks
    MaxBalance,                 \* bound on what an outside deposit can reach
    MaxTime                     \* bound on the clock

ASSUME RouterAssumption ==
    /\ NoKey \notin Keys
    /\ Targets \subseteq Nat \ {0}
    /\ {AcquireMaxHour, AcquireMaxDay, MaxBalance, MaxTime} \subseteq Nat
    /\ Window \in Nat \ {0}

VARIABLES
    now,        \* Date.now()
    acqLog,     \* audit entries of type 'acquisition', total per tick
    idemCache,  \* idemCache[k]: expiresAt of the receipt cached for k, 0 if none
    call,       \* call[c]: the outstanding call of slot c
    mutex,      \* callers in the promise chain, in order
    poisoned,   \* the promise chain is rejected
    balance,    \* USDC on GOAT
    transit,    \* USDC that execute() sent and that has not landed
    blind       \* history: a balance was read with USDC in transit or read wrong,
                \* or was raised by somebody else

vars == <<now, acqLog, idemCache, call, mutex, poisoned, balance, transit, blind>>

Ticks == 0..MaxTime

\* twin is history: a call with the same key was outstanding when it was made.
NoCall == [pc |-> "idle", key |-> NoKey, target |-> 0, dryRun |-> FALSE, delta |-> 0,
           twin |-> FALSE]

Call == [pc : {"idle", "queued", "reading", "executing"}, key : Keys \cup {NoKey}, target : Nat,
         dryRun : BOOLEAN, delta : Nat, twin : BOOLEAN]

TypeOK ==
    /\ now \in Ticks
    /\ acqLog \in [Ticks -> Nat]
    /\ idemCache \in [Keys -> Nat]
    /\ call \in [Callers -> Call]
    /\ mutex \in Seq(Callers)
    /\ poisoned \in BOOLEAN
    /\ balance \in Nat /\ transit \in Nat
    /\ blind \in BOOLEAN

Init ==
    /\ now = 0
    /\ acqLog = [s \in Ticks |-> 0]
    /\ idemCache = [k \in Keys |-> 0]
    /\ call = [c \in Callers |-> NoCall]
    /\ mutex = << >>
    /\ poisoned = FALSE
    /\ balance = 0 /\ transit = 0
    /\ blind = FALSE

-------------------------------------------------------------------------------
(* The environment: time, landing funds, spending and outside deposits.    *)

Tick ==
    /\ now < MaxTime
    /\ now' = now + 1
    /\ UNCHANGED <<acqLog, idemCache, call, mutex, poisoned, balance, transit, blind>>

Lands ==
    /\ transit > 0
    /\ balance' = balance + transit
    /\ transit' = 0
    /\ UNCHANGED <<now, acqLog, idemCache, call, mutex, poisoned, blind>>

\* The agent pays with what it holds.
Spends ==
    /\ balance > 0
    /\ balance' = 0
    /\ UNCHANGED <<now, acqLog, idemCache, call, mutex, poisoned, transit, blind>>

Deposit ==
    /\ balance < MaxBalance
    /\ balance' = balance + 1
    /\ blind' = TRUE
    /\ UNCHANGED <<now, acqLog, idemCache, call, mutex, poisoned, transit>>

-------------------------------------------------------------------------------
(* One call.                                                               *)

\* Only a receipt that has not expired is returned from the cache.
Cached(key) == key # NoKey /\ idemCache[key] > now

Outstanding(key) == key # NoKey /\ \E d \in Callers : call[d].key = key

\* A slip the code avoids: joining the chain without looking in the cache.
Bug_RequestUncached(c, key, target, dryRun) ==
    /\ call[c].pc = "idle"
    /\ call' = [call EXCEPT ![c] = [pc |-> "queued", key |-> key, target |-> target,
                                    dryRun |-> dryRun, delta |-> 0,
                                    twin |-> Outstanding(key)]]
    /\ mutex' = Append(mutex, c)
    /\ UNCHANGED <<now, acqLog, idemCache, poisoned, balance, transit, blind>>

\* acquireInternal(): a cached receipt answers at once, anything else joins
\* the chain (dry runs too, and although the chain may be rejected already).
Request(c, key, target, dryRun) ==
    /\ call[c].pc = "idle"
    /\ IF Cached(key)
       THEN UNCHANGED <<call, mutex>>
       ELSE /\ call' = [call EXCEPT ![c] =
                          [pc |-> "queued", key |-> key, target |-> target,
                           dryRun |-> dryRun, delta |-> 0, twin |-> Outstanding(key)]]
            /\ mutex' = Append(mutex, c)
    /\ UNCHANGED <<now, acqLog, idemCache, poisoned, balance, transit, blind>>

AtHead(c) == mutex # << >> /\ Head(mutex) = c

Leaves(c) ==
    /\ call' = [call EXCEPT ![c] = NoCall]
    /\ mutex' = Tail(mutex)

\* runOnce() starts when the previous link of the chain has resolved ...
Begin(c) ==
    /\ call[c].pc = "queued" /\ AtHead(c) /\ ~poisoned
    /\ call' = [call EXCEPT ![c].pc = "reading"]
    /\ UNCHANGED <<now, acqLog, idemCache, mutex, poisoned, balance, transit, blind>>

\* ... and is skipped when it has rejected: c gets the error of another call.
RejectsWithChain(c) ==
    /\ call[c].pc = "queued" /\ AtHead(c) /\ poisoned
    /\ Leaves(c)
    /\ UNCHANGED <<now, acqLog, idemCache, poisoned, balance, transit, blind>>

\* What GoatBalances may answer: a read that fails counts as nothing held.
Reads == {balance, 0}

\* A slip the code avoids: a difference that is not clamped at zero.
Bug_DeltaUnclamped(c, seen) == call[c].target - seen

Delta(c, seen) == IF call[c].target > seen THEN call[c].target - seen ELSE 0

\* The balance is read: nothing to do.
NothingToDo(c, seen) ==
    /\ call[c].pc = "reading" /\ Delta(c, seen) = 0
    /\ Leaves(c)
    /\ UNCHANGED <<now, acqLog, idemCache, poisoned, balance, transit, blind>>

\* A slip the code avoids: asking for the whole target again.
Bug_CapAllowsWholeTarget(c, seen) ==
    /\ call[c].pc = "reading" /\ Delta(c, seen) # 0
    /\ AcquisitionAllows(acqLog, Delta(c, seen), AcquireMaxHour, AcquireMaxDay, now)
    /\ call' = [call EXCEPT ![c].pc = "executing", ![c].delta = call[c].target]
    /\ blind' = (blind \/ transit > 0 \/ seen # balance)
    /\ UNCHANGED <<now, acqLog, idemCache, mutex, poisoned, balance, transit>>

\* The balance is read, the missing part is within the caps.
CapAllows(c, seen) ==
    /\ call[c].pc = "reading" /\ Delta(c, seen) # 0
    /\ AcquisitionAllows(acqLog, Delta(c, seen), AcquireMaxHour, AcquireMaxDay, now)
    /\ call' = [call EXCEPT ![c].pc = "executing", ![c].delta = Delta(c, seen)]
    /\ blind' = (blind \/ transit > 0 \/ seen # balance)
    /\ UNCHANGED <<now, acqLog, idemCache, mutex, poisoned, balance, transit>>

\* A slip the code avoids: an error path that keeps the mutex.
Bug_RunRejectsKeepsMutex(c, sent) ==
    /\ call[c].pc \in {"reading", "executing"}
    /\ sent => call[c].pc = "executing" /\ ~call[c].dryRun
    /\ call' = [call EXCEPT ![c] = NoCall]
    /\ transit' = IF sent THEN transit + call[c].delta ELSE transit
    /\ UNCHANGED <<now, acqLog, idemCache, mutex, poisoned, balance, blind>>

\* An RPC failed, the cap refused, no path was viable, or execute() threw
\* (sent says whether its transaction went out first): the run rejects.
RunRejects(c, sent) ==
    /\ call[c].pc \in {"reading", "executing"}
    /\ sent => call[c].pc = "executing" /\ ~call[c].dryRun
    /\ Leaves(c)
    /\ poisoned' = TRUE
    /\ transit' = IF sent THEN transit + call[c].delta ELSE transit
    /\ UNCHANGED <<now, acqLog, idemCache, balance, blind>>

DryRunReturns(c) ==
    /\ call[c].pc = "executing" /\ call[c].dryRun
    /\ Leaves(c)
    /\ UNCHANGED <<now, acqLog, idemCache, poisoned, balance, transit, blind>>

\* What came of an executed path: the USDC is on GOAT (a swap), under way to it
\* (a bridge), or nowhere: the wallet does not look at a receipt's status.
Arrives(amount, outcome) ==
    CASE outcome = "landed" -> balance' = balance + amount /\ UNCHANGED transit
      [] outcome = "under way" -> transit' = transit + amount /\ UNCHANGED balance
      [] outcome = "reverted" -> UNCHANGED <<balance, transit>>

\* execute() returned: the amount is audited, the receipt cached under the
\* key, and the next link of the chain may run.
Executed(c, outcome) ==
    /\ call[c].pc = "executing" /\ ~call[c].dryRun
    /\ Arrives(call[c].delta, outcome)
    /\ acqLog' = Logged(acqLog, now, call[c].delta)
    /\ idemCache' = IF call[c].key = NoKey THEN idemCache
                    ELSE [idemCache EXCEPT ![call[c].key] = now + Window]
    /\ Leaves(c)
    /\ UNCHANGED <<now, poisoned, blind>>

Advance(c) ==
    \/ Begin(c)
    \/ RejectsWithChain(c)
    \/ \E seen \in Reads : NothingToDo(c, seen) \/ CapAllows(c, seen)
    \/ \E sent \in BOOLEAN : RunRejects(c, sent)
    \/ DryRunReturns(c)
    \/ \E outcome \in {"landed", "under way", "reverted"} : Executed(c, outcome)

Next ==
    \/ Tick
    \/ Lands
    \/ Spends
    \/ Deposit
    \/ \E c \in Callers :
        \/ \E key \in Keys \cup {NoKey}, target \in Targets, dry \in BOOLEAN :
             Request(c, key, target, dry)
        \/ Advance(c)

Spec == Init /\ [][Next]_vars

\* Fairness: every promise a run awaits settles in the end.
FairSpec == Spec /\ \A c \in Callers : WF_vars(Advance(c))

-------------------------------------------------------------------------------
(* Properties that hold.                                                   *)

\* checkAcquisition() and recordAcquisition() are separated by quotes and a
\* transaction, yet the rolling caps are exact, at every moment and for every
\* interleaving of acquires: no check is made between another run's check and
\* its record.
AcquisitionCapsExact ==
    /\ SpentSince(acqLog, now, HourLen) <= AcquireMaxHour
    /\ SpentSince(acqLog, now, DayLen) <= AcquireMaxDay

\* The wallet is never filled beyond the largest target, although a balance
\* is read long before the funds arrive, unless somebody else raised it, the
\* read failed, or the funds of an earlier run were still under way.
NeverOverfills ==
    ~blind => \A t \in Targets : (\A u \in Targets : u <= t) => balance <= t

\* Serial execution keeps the limits of the router (goat/acquisition.ts:249-330).
AcquisitionHolds == AcquisitionCapsExact /\ NeverOverfills

\* Whoever queues on the mutex gets an answer, as long as the promises of the
\* runs before it settle: a rejected run does not strand its successors.
EveryAcquireSettles == \A c \in Callers : call[c].pc # "idle" ~> call[c].pc = "idle"

Executes(c) == call[c].pc = "executing" /\ acqLog' # acqLog /\ call'[c].pc = "idle"

\* While a receipt is cached under a key, no run with that key executes,
\* unless its call was made while another one with the key was outstanding:
\* the cache is read when the call is made, not when its turn comes.
OneExecutionPerKey ==
    [][\A c \in Callers : Executes(c) /\ call[c].key # NoKey /\ ~call[c].twin =>
         idemCache[call[c].key] <= now]_vars

-------------------------------------------------------------------------------
(* What the doc comment says; see the findings.                            *)

\* "Atomic per-call (no fallback between paths within one acquire — caller
\* can re-call with a different allowedPaths to retry)": a queued call is
\* answered by its own run only, so it never ends without having run.
OwnFailuresOnly ==
    [][\A c \in Callers : call[c].pc = "queued" => call'[c].pc # "idle"]_vars
===============================================================================
