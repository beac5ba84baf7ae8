------------------------------ MODULE XrplProofs ------------------------------
(***************************************************************************)
(* Proofs about an XRPL payment: the buyer that reads its balance, rescues *)
(* and swaps one pay at a time; the trust line it needs; and the funds     *)
(* behind it: the swap, the challenge and the treasury's vault.  They keep *)
(* separate state, and each has an invariant of its own.  The module of    *)
(* their runs is extended for FundsHold alone; the values it gives the     *)
(* constants are not used.                                                 *)
(***************************************************************************)
EXTENDS MCXrpl, DataLemmas

-------------------------------------------------------------------------------
(* The buyer: what a pay believes.                                         *)

\* What a process is, and an answer of the ledger.
Entries == [have : Nat, asOf : Nat, until : Nat]
\* What a process is.
Runs == [at : Stages, have : Nat, asOf : Nat, amt : Nat, prev : Pays \cup {None}]
\* Where a sweep can be.
SweepStages == {"idle", "sweep", "depositing", "deposited"}

\* A balance of h, read after d of the e debits so far, is there still unless
\* something was debited since; b is the balance there is.
TrueSince(h, d, b, e) == d <= e /\ (d = e => b >= h)

\* What process x may believe and be about.
SoundRun(x, r, b, e) ==
    /\ r \in Runs /\ TrueSince(r.have, r.asOf, b, e)
    /\ x \in Sweepers => r.at \in SweepStages
    /\ x \in Pays =>
        /\ r.at \notin SweepStages \ {"idle"}
        /\ r.at \in {"signing", "swapped"} => TrueSince(Need[x], r.asOf, b, e)
        /\ r.at = "swapping" => r.have + r.amt >= Need[x]

\* The same of a balance that is cached or on its way.
SoundEntry(c, b, e) == c \in Entries /\ TrueSince(c.have, c.asOf, b, e)

\* Every process, every answer and the cache believe what was true when it was read.
BeliefsInv ==
    /\ bal \in Nat /\ vault \in Nat /\ debits \in Nat /\ now \in Nat
    /\ DOMAIN run = Pays \cup Sweepers /\ DOMAIN asked = Pays \cup Sweepers
    /\ run \in [Pays \cup Sweepers -> Runs]
    /\ asked \in [Pays \cup Sweepers -> Entries \cup {None}]
    /\ tail \in Pays \cup {None}
    /\ SoundEntry(cache, bal, debits)
    /\ \A x \in Pays \cup Sweepers : asked[x] # None => SoundEntry(asked[x], bal, debits)
    /\ \A x \in Pays \cup Sweepers : SoundRun(x, run[x], bal, debits)

\* The ledger is asked by who reads.
AskedReads == \A x \in Pays \cup Sweepers : asked[x] # None => run[x].at \in Reading

\* Money comes, or something is debited.
Moved == /\ bal' \in Nat /\ debits' \in Nat
         /\ (bal' >= bal /\ debits' = debits) \/ debits' > debits

\* A belief outlives what happens to the money.
LEMMA BeliefStays ==
  ASSUME BeliefsInv, Moved, NEW h \in Nat, NEW d \in Nat, TrueSince(h, d, bal, debits)
  PROVE  TrueSince(h, d, bal', debits')
<1>1. bal \in Nat /\ debits \in Nat
  BY DEF BeliefsInv
<1> QED BY <1>1 DEF TrueSince, Moved

\* So does a cached balance, or one on its way.
LEMMA EntryStays ==
  ASSUME BeliefsInv, Moved, NEW c, SoundEntry(c, bal, debits)
  PROVE  SoundEntry(c, bal', debits')
<1>1. c \in Entries /\ c.have \in Nat /\ c.asOf \in Nat
  BY DEF SoundEntry, Entries
<1> QED BY <1>1, BeliefStays DEF SoundEntry

\* So does a process.
LEMMA RunStays ==
  ASSUME BeliefsInv, Moved, NEW x \in Pays \cup Sweepers, NEW r, SoundRun(x, r, bal, debits)
  PROVE  SoundRun(x, r, bal', debits')
<1>1. r \in Runs /\ r.have \in Nat /\ r.asOf \in Nat
  BY DEF SoundRun, Runs
<1>2. x \in Pays => Need[x] \in Nat
  BY BuyerAssumption
<1>3. TrueSince(r.have, r.asOf, bal', debits')
  BY <1>1, BeliefStays DEF SoundRun
<1>4. x \in Pays /\ r.at \in {"signing", "swapped"} => TrueSince(Need[x], r.asOf, bal', debits')
  BY <1>1, <1>2, BeliefStays DEF SoundRun
<1> QED BY <1>3, <1>4 DEF SoundRun

\* Process x becomes r, with nothing more in the account's books than before.
LEMMA BeliefsGoOn ==
  ASSUME BeliefsInv, Moved, NEW x \in Pays \cup Sweepers, NEW r, run' = [run EXCEPT ![x] = r],
         SoundRun(x, r, bal', debits'), vault' \in Nat, now' \in Nat, tail' \in Pays \cup {None},
         SoundEntry(cache', bal', debits'),
         asked' \in [Pays \cup Sweepers -> Entries \cup {None}],
         \A y \in Pays \cup Sweepers : asked'[y] # None /\ asked'[y] # asked[y] => SoundEntry(asked'[y], bal', debits')
  PROVE  BeliefsInv'
<1>1. r \in Runs /\ run \in [Pays \cup Sweepers -> Runs]
  BY DEF SoundRun, BeliefsInv
<1>2. run' \in [Pays \cup Sweepers -> Runs] /\ run'[x] = r /\ \A y \in Pays \cup Sweepers : y # x => run'[y] = run[y]
  BY <1>1
<1>3. \A y \in Pays \cup Sweepers : SoundRun(y, run[y], bal', debits')
  BY RunStays DEF BeliefsInv
<1>4. \A y \in Pays \cup Sweepers : SoundRun(y, run'[y], bal', debits')
  BY <1>2, <1>3
<1>5. \A y \in Pays \cup Sweepers : asked'[y] # None => SoundEntry(asked'[y], bal', debits')
  BY EntryStays DEF BeliefsInv
<1> QED BY <1>2, <1>4, <1>5 DEF BeliefsInv, Moved

\* The runs the code makes, field by field.
LEMMA MadeAt ==
  \A st \in Stages : At(st) \in Runs /\ At(st).at = st /\ At(st).have = 0 /\ At(st).asOf = 0
  BY DEF At, Runs

\* A sweep that deposits is such a run.
LEMMA MadeDeposit ==
  \A st \in Stages : \A a \in Nat :
    LET w == [At(st) EXCEPT !.amt = a] IN
    w \in Runs /\ w.at = st /\ w.have = 0 /\ w.asOf = 0
  BY DEF At, Runs

\* What follows a balance is sound when the balance is.
LEMMA CoverSound ==
  ASSUME NEW p \in Pays, NEW h \in Nat, NEW d \in Nat, NEW b \in Nat, NEW e \in Nat, TrueSince(h, d, b, e),
         p \notin Sweepers
  PROVE  SoundRun(p, Cover(p, h, d), b, e)
<1>1. Need[p] \in Nat /\ {"signing", "swapping", "rejected"} \subseteq Stages
  BY BuyerAssumption DEF Stages, Submitting
<1>2. CASE h >= Need[p]
  <2> DEFINE r == [At("signing") EXCEPT !.have = h, !.asOf = d]
  <2>1. r \in Runs /\ r.at = "signing" /\ r.have = h /\ r.asOf = d
    <3>1. "signing" \in Stages
      BY <1>1
    <3> QED BY <3>1 DEF At, Runs
  <2>2. TrueSince(Need[p], d, b, e)
    BY <1>1, <1>2 DEF TrueSince
  <2>3. Cover(p, h, d) = r
    BY <1>2 DEF Cover
  <2> HIDE DEF r
  <2> QED BY <2>1, <2>2, <2>3 DEF SoundRun, SweepStages
<1>3. CASE h < Need[p] /\ autoSwap
  <2> DEFINE r == [At("swapping") EXCEPT !.have = h, !.asOf = d, !.amt = Need[p] - h]
  <2>1. Need[p] - h \in Nat /\ h + (Need[p] - h) >= Need[p]
    BY <1>1, <1>3
  <2>2. r \in Runs /\ r.at = "swapping" /\ r.have = h /\ r.asOf = d /\ r.amt = Need[p] - h
    <3>1. "swapping" \in Stages
      BY <1>1
    <3> DEFINE a == Need[p] - h
    <3> HIDE DEF a
    <3>2. a \in Nat
      BY <2>1 DEF a
    <3>3. LET q == [At("swapping") EXCEPT !.have = h, !.asOf = d, !.amt = a] IN
          q \in Runs /\ q.at = "swapping" /\ q.have = h /\ q.asOf = d /\ q.amt = a
      BY <3>1, <3>2 DEF At, Runs
    <3> QED BY <3>3 DEF a
  <2>3. Cover(p, h, d) = r
    BY <1>1, <1>3 DEF Cover
  <2> HIDE DEF r
  <2> QED BY <2>1, <2>2, <2>3 DEF SoundRun, SweepStages
<1>4. CASE h < Need[p] /\ ~autoSwap
  <2>1. At("rejected") \in Runs /\ At("rejected").at = "rejected" /\ At("rejected").have = 0 /\ At("rejected").asOf = 0
    BY <1>1, MadeAt
  <2>2. TrueSince(0, 0, b, e)
    BY DEF TrueSince
  <2>3. Cover(p, h, d) = At("rejected")
    BY <1>1, <1>4 DEF Cover
  <2> QED BY <2>1, <2>2, <2>3 DEF SoundRun, SweepStages
<1> QED BY <1>1, <1>2, <1>3, <1>4

\* A process that is done with, or that begins, believes in nothing.
LEMMA RestSound ==
  ASSUME NEW x, NEW b \in Nat, NEW e \in Nat, NEW st \in {"idle", "queued", "resolved", "rejected", "first"},
         x \in Sweepers => st = "idle"
  PROVE  SoundRun(x, At(st), b, e)
<1>1. At(st) \in Runs /\ TrueSince(0, 0, b, e) /\ At(st).at = st /\ At(st).have = 0 /\ At(st).asOf = 0
  <2>1. st \in Stages
    BY DEF Stages, Reading
  <2> QED BY <2>1, MadeAt DEF TrueSince
<1> QED BY <1>1 DEF SoundRun, SweepStages

\* Where a read balance leads is sound.
LEMMA ReadSound ==
  ASSUME BeliefsInv, NEW x \in Pays \cup Sweepers, NEW c, SoundEntry(c, bal, debits), run[x].at \in Reading
  PROVE  SoundRun(x, AfterRead(x, c.have, c.asOf), bal, debits)
<1> DEFINE h == c.have
           d == c.asOf
           r == run[x]
<1>1. /\ h \in Nat /\ d \in Nat /\ bal \in Nat /\ debits \in Nat /\ TrueSince(h, d, bal, debits)
      /\ SoundRun(x, r, bal, debits) /\ r \in Runs
  BY DEF SoundEntry, Entries, BeliefsInv, SoundRun
<1>2. Pays \cap Sweepers = {} /\ MinIdle \in Nat /\ (x \in Pays => Need[x] \in Nat)
  BY BuyerAssumption
<1>8. {"rescue", "fresh", "withdrawing", "depositing"} \subseteq Stages
  BY DEF Stages, Reading, Submitting
<1>3. r.at = "sweep" <=> x \in Sweepers
  BY <1>1, <1>2 DEF SoundRun, SweepStages, Reading
<1> HIDE DEF h, d
<1>4. CASE r.at = "first"
  <2>1. x \in Pays /\ x \notin Sweepers /\ AfterRead(x, h, d) = AfterFirst(x, h, d)
    BY <1>2, <1>3, <1>4 DEF AfterRead
  <2>2. CASE treasury /\ h < Need[x]
    <3> DEFINE w == [At("rescue") EXCEPT !.have = h, !.asOf = d]
    <3>1. w \in Runs /\ w.at = "rescue" /\ w.have = h /\ w.asOf = d
      <4>1. "rescue" \in Stages /\ h \in Nat /\ d \in Nat
        BY <1>1, <1>8
      <4> QED BY <4>1 DEF At, Runs
    <3>2. AfterRead(x, h, d) = w
      BY <2>1, <2>2 DEF AfterFirst
    <3> HIDE DEF w
    <3> QED BY <1>1, <2>1, <3>1, <3>2 DEF SoundRun, SweepStages, h, d
  <2> QED BY <1>1, <2>1, <2>2, CoverSound DEF AfterFirst, h, d
<1>5. CASE r.at = "rescue"
  <2>1. x \in Pays /\ x \notin Sweepers /\ AfterRead(x, h, d) = AfterRescue(x, h)
    BY <1>2, <1>3, <1>5 DEF AfterRead
  <2> DEFINE a == Need[x] - h
             v == [r EXCEPT !.at = "fresh"]
             w == [r EXCEPT !.at = "withdrawing", !.amt = a]
  <2>4. h < Need[x] => a \in Nat
    BY <1>1, <1>2, <2>1
  <2>5. r \in Runs /\ "fresh" \in Stages /\ "withdrawing" \in Stages
    BY <1>1, <1>8
  <2> HIDE DEF a, r
  <2>2. /\ v \in Runs /\ v.at = "fresh" /\ v.have = r.have /\ v.asOf = r.asOf
        /\ a \in Nat => w \in Runs /\ w.at = "withdrawing" /\ w.have = r.have /\ w.asOf = r.asOf
    BY <2>5 DEF Runs
  <2>3. AfterRescue(x, h) = v \/ (h < Need[x] /\ AfterRescue(x, h) = w)
    BY <1>1, <1>2, <2>1 DEF AfterRescue, a, r
  <2> HIDE DEF v, w
  <2> QED BY <1>1, <2>1, <2>2, <2>3, <2>4 DEF SoundRun, SweepStages, h, d
<1>6. CASE r.at = "fresh"
  <2>1. x \in Pays /\ x \notin Sweepers /\ AfterRead(x, h, d) = Cover(x, h, d)
    BY <1>2, <1>3, <1>6 DEF AfterRead
  <2> QED BY <1>1, <2>1, CoverSound DEF h, d
<1>7. CASE r.at = "sweep"
  <2>1. x \in Sweepers /\ x \notin Pays /\ AfterRead(x, h, d) = AfterSweep(h)
    BY <1>2, <1>3, <1>7 DEF AfterRead
  <2>2. CASE h > MinIdle
    <3> DEFINE w == [At("depositing") EXCEPT !.amt = h - MinIdle]
    <3>1. h - MinIdle \in Nat
      BY <1>1, <1>2, <2>2
    <3>2. w \in Runs /\ w.at = "depositing" /\ w.have = 0 /\ w.asOf = 0
      BY <1>1, <1>8, <3>1, MadeDeposit
    <3>3. TrueSince(0, 0, bal, debits)
      BY <1>1 DEF TrueSince
    <3>4. AfterRead(x, h, d) = w
      BY <2>1, <2>2 DEF AfterSweep
    <3> HIDE DEF w
    <3> QED BY <2>1, <3>2, <3>3, <3>4 DEF SoundRun, SweepStages, h, d
  <2> QED BY <1>1, <2>1, <2>2, RestSound DEF AfterSweep, h, d
<1> QED BY <1>4, <1>5, <1>6, <1>7 DEF Reading, h, d

\* Process x goes to another stage.
LEMMA Reached ==
  ASSUME BeliefsInv, NEW x \in Pays \cup Sweepers, NEW st \in Stages, Reach(x, st)
  PROVE  LET r == [run[x] EXCEPT !.at = st] IN
         /\ run' = [run EXCEPT ![x] = r] /\ r \in Runs /\ r.at = st
         /\ r.have = run[x].have /\ r.asOf = run[x].asOf /\ r.amt = run[x].amt
<1>1. run[x] \in Runs /\ run' = [run EXCEPT ![x].at = st] /\ run \in [Pays \cup Sweepers -> Runs]
  BY DEF BeliefsInv, Reach
<1>2. LET r == [run[x] EXCEPT !.at = st] IN
      r \in Runs /\ r.at = st /\ r.have = run[x].have /\ r.asOf = run[x].asOf /\ r.amt = run[x].amt
  BY <1>1 DEF Runs
<1> QED BY <1>1, <1>2

\* A pay reaches a stage that claims nothing but what it believes.
PlainStages == {"rescue", "fresh", "withdrawing", "withdrew", "unswapped", "sent", "answered"}

\* Such a step keeps what is believed true.
LEMMA ReachSound ==
  ASSUME BeliefsInv, NEW p \in Pays, NEW st \in PlainStages, Reach(p, st), Moved,
         vault' \in Nat, UNCHANGED <<cache, tail, asked, now>>
  PROVE  BeliefsInv'
<1> DEFINE r == [run[p] EXCEPT !.at = st]
<1>1. st \in Stages
  BY DEF PlainStages, Stages, Reading, Submitting
<1>2. run' = [run EXCEPT ![p] = r] /\ r \in Runs /\ r.at = st /\ r.have = run[p].have /\ r.asOf = run[p].asOf
  BY <1>1, Reached
<1>3. SoundRun(p, run[p], bal', debits')
  BY RunStays DEF BeliefsInv
<1>4. p \notin Sweepers
  BY BuyerAssumption
<1> HIDE DEF r
<1>5. SoundRun(p, r, bal', debits')
  BY <1>2, <1>3, <1>4 DEF SoundRun, PlainStages, SweepStages
<1>6. SoundEntry(cache', bal', debits')
  BY EntryStays DEF BeliefsInv
<1>7. /\ now' \in Nat /\ tail' \in Pays \cup {None}
      /\ asked' \in [Pays \cup Sweepers -> Entries \cup {None}]
      /\ \A y \in Pays \cup Sweepers : asked'[y] # None /\ asked'[y] # asked[y] => SoundEntry(asked'[y], bal', debits')
  BY DEF BeliefsInv
<1> QED BY <1>2, <1>5, <1>6, <1>7, BeliefsGoOn

\* Nobody moves.
LEMMA BeliefsRest ==
  ASSUME BeliefsInv, Moved, UNCHANGED <<run, cache>>, vault' \in Nat, now' \in Nat,
         tail' \in Pays \cup {None},
         asked' \in [Pays \cup Sweepers -> Entries \cup {None}],
         \A y \in Pays \cup Sweepers : asked'[y] # None /\ asked'[y] # asked[y] => SoundEntry(asked'[y], bal', debits')
  PROVE  BeliefsInv'
<1>1. \A y \in Pays \cup Sweepers : SoundRun(y, run'[y], bal', debits')
  BY RunStays DEF BeliefsInv
<1>2. \A y \in Pays \cup Sweepers : asked'[y] # None => SoundEntry(asked'[y], bal', debits')
  BY EntryStays DEF BeliefsInv
<1>3. SoundEntry(cache', bal', debits')
  BY EntryStays DEF BeliefsInv
<1> QED BY <1>1, <1>2, <1>3 DEF BeliefsInv, Moved

\* A process is done, or begins; the cache and what was asked may be as before
\* or forgotten.
LEMMA RestNext ==
  ASSUME BeliefsInv, NEW x \in Pays \cup Sweepers, NEW r, run' = [run EXCEPT ![x] = r],
         SoundRun(x, r, bal, debits), UNCHANGED <<bal, vault, debits, now, tail>>,
         cache' \in {cache, NoEntry},
         asked' = asked \/ asked' = [asked EXCEPT ![x] = None]
  PROVE  BeliefsInv'
<1>1. Moved /\ bal \in Nat /\ debits \in Nat /\ vault \in Nat /\ now \in Nat /\ tail \in Pays \cup {None}
  BY DEF BeliefsInv, Moved
<1>2. SoundEntry(NoEntry, bal, debits)
  BY <1>1 DEF SoundEntry, NoEntry, Entries, TrueSince
<1>3. /\ asked' \in [Pays \cup Sweepers -> Entries \cup {None}]
      /\ \A y \in Pays \cup Sweepers : asked'[y] # None => asked'[y] = asked[y]
  BY DEF BeliefsInv
<1>4. SoundEntry(cache', bal', debits')
  BY <1>2 DEF BeliefsInv
<1>5. SoundRun(x, r, bal', debits') /\ vault' \in Nat /\ now' \in Nat /\ tail' \in Pays \cup {None}
  BY <1>1
<1>6. \A y \in Pays \cup Sweepers : asked'[y] # None /\ asked'[y] # asked[y] => SoundEntry(asked'[y], bal', debits')
  BY <1>3
<1> HIDE DEF Moved
<1> QED BY <1>1, <1>3, <1>4, <1>5, <1>6, BeliefsGoOn

\* A step of the buyer keeps what is believed true.
LEMMA BeliefsStep == BeliefsInv /\ AskedReads /\ [Next]_vars => BeliefsInv'
<1> SUFFICES ASSUME BeliefsInv, AskedReads, [Next]_vars PROVE BeliefsInv'
  OBVIOUS
<1>1. /\ bal \in Nat /\ vault \in Nat /\ debits \in Nat /\ now \in Nat /\ tail \in Pays \cup {None}
      /\ run \in [Pays \cup Sweepers -> Runs]
      /\ asked \in [Pays \cup Sweepers -> Entries \cup {None}]
      /\ \A x \in Pays \cup Sweepers : run[x] \in Runs /\ run[x].amt \in Nat /\ SoundRun(x, run[x], bal, debits)
  BY DEF BeliefsInv, Runs
<1>2. Pays \cap Sweepers = {} /\ CacheTtl \in Nat /\ \A p \in Pays : Need[p] \in Nat
  BY BuyerAssumption
<1>3. UNCHANGED <<bal, debits>> => Moved
  BY <1>1 DEF Moved
<1>4. CASE UNCHANGED vars
  <2>1. Moved
    BY <1>3, <1>4 DEF vars, money
  <2> QED BY <1>1, <1>4, <2>1, BeliefsRest DEF vars, money, counters
<1>5. CASE Tick
  <2>1. Moved /\ now' \in Nat
    BY <1>1, <1>3, <1>5 DEF Tick, money
  <2> QED BY <1>1, <1>5, <2>1, BeliefsRest DEF Tick, money
<1>6. ASSUME NEW p \in Pays, Pay(p) PROVE BeliefsInv'
  <2> DEFINE r == [At("queued") EXCEPT !.prev = tail]
  <2>1. "queued" \in Stages
    BY DEF Stages
  <2>2. r \in Runs /\ r.at = "queued" /\ r.have = 0 /\ r.asOf = 0
    BY <1>1, <2>1 DEF At, Runs
  <2>3. SoundRun(p, r, bal, debits)
    <3> HIDE DEF r
    <3> QED BY <1>1, <1>2, <2>2 DEF SoundRun, TrueSince, SweepStages
  <2>4. Moved /\ run' = [run EXCEPT ![p] = r] /\ tail' = p
    BY <1>3, <1>6 DEF Pay, Become, money
  <2>5. SoundRun(p, r, bal', debits') /\ SoundEntry(cache', bal', debits')
    BY <1>6, <2>3 DEF Pay, money, BeliefsInv
  <2> HIDE DEF r
  <2> QED BY <1>1, <1>6, <2>4, <2>5, BeliefsGoOn DEF Pay, money, counters
<1>7. ASSUME NEW p \in Pays, Start(p) PROVE BeliefsInv'
  BY <1>1, <1>2, <1>7, RestSound, RestNext DEF Start, Become, money, counters
<1>8. ASSUME NEW p \in Pays, Release(p) PROVE BeliefsInv'
  <2>1. Moved
    BY <1>3, <1>8 DEF Release, money
  <2> QED BY <1>1, <1>8, <2>1, BeliefsRest DEF Release, money, counters
<1>9. ASSUME NEW p \in Pays, WithdrawLands(p) PROVE BeliefsInv'
  <2>1. bal' \in Nat /\ vault' \in Nat /\ bal' >= bal /\ debits' = debits
    BY <1>1, <1>9 DEF WithdrawLands
  <2> QED BY <1>1, <1>9, <2>1, ReachSound DEF WithdrawLands, Moved, PlainStages, counters
<1>10. ASSUME NEW p \in Pays, WithdrawReturns(p) \/ Send(p) PROVE BeliefsInv'
  <2>1. Moved
    BY <1>3, <1>10 DEF WithdrawReturns, Send, money
  <2> QED BY <1>1, <1>10, <2>1, ReachSound DEF WithdrawReturns, Send, PlainStages, money, counters
<1>11. ASSUME NEW p \in Pays PROVE SoundRun(p, AfterFailedRescue(p), bal, debits)
  <2>1. TrueSince(run[p].have, run[p].asOf, bal, debits) /\ run[p].have \in Nat /\ run[p].asOf \in Nat /\ p \notin Sweepers
    BY <1>1, <1>2 DEF SoundRun, Runs
  <2> QED BY <1>1, <2>1, CoverSound, RestSound DEF AfterFailedRescue
<1>12. ASSUME NEW p \in Pays, WithdrawThrows(p) PROVE BeliefsInv'
  BY <1>11, <1>12, RestNext DEF WithdrawThrows, Throw, Become, money
<1>13. ASSUME NEW p \in Pays, SwapLands(p) PROVE BeliefsInv'
  <2>1. CASE bal' = bal + run[p].amt /\ Reach(p, "swapped")
    <3> DEFINE r == [run[p] EXCEPT !.at = "swapped"]
    <3>1. run' = [run EXCEPT ![p] = r] /\ r \in Runs /\ r.at = "swapped" /\ r.have = run[p].have /\ r.asOf = run[p].asOf
      <4>1. "swapped" \in Stages
        BY DEF Stages
      <4> QED BY <2>1, <4>1, Reached
    <3>2. run[p].at = "swapping" /\ debits' = debits /\ vault' = vault
      BY <1>13 DEF SwapLands
    <3>3. Moved
      BY <1>1, <2>1, <3>2 DEF Moved
    <3>4. run[p].have + run[p].amt >= Need[p] /\ TrueSince(run[p].have, run[p].asOf, bal, debits) /\ p \notin Sweepers
      BY <1>1, <1>2, <3>2 DEF SoundRun
    <3>5. TrueSince(Need[p], run[p].asOf, bal', debits') /\ TrueSince(run[p].have, run[p].asOf, bal', debits')
      <4>1. run[p].have \in Nat /\ run[p].asOf \in Nat /\ run[p].amt \in Nat
        BY <1>1 DEF Runs
      <4> QED BY <1>1, <1>2, <2>1, <3>2, <3>4, <4>1 DEF TrueSince
    <3> HIDE DEF r
    <3>6. SoundRun(p, r, bal', debits')
      BY <3>1, <3>4, <3>5 DEF SoundRun, SweepStages
    <3>7. SoundEntry(cache', bal', debits')
      BY <1>13, <3>3, EntryStays DEF SwapLands, BeliefsInv
    <3> QED BY <1>1, <1>13, <3>1, <3>2, <3>3, <3>6, <3>7, BeliefsGoOn DEF SwapLands, counters
  <2>2. CASE UNCHANGED bal /\ Reach(p, "unswapped")
    BY <1>1, <1>3, <1>13, <2>2, ReachSound DEF SwapLands, PlainStages, counters
  <2> QED BY <1>13, <2>1, <2>2 DEF SwapLands
<1>14. ASSUME NEW p \in Pays, SwapReturns(p) PROVE BeliefsInv'
  <2>1. CASE run[p].at = "swapped" /\ Reach(p, "signing")
    <3> DEFINE r == [run[p] EXCEPT !.at = "signing"]
    <3>1. run' = [run EXCEPT ![p] = r] /\ r \in Runs /\ r.at = "signing" /\ r.have = run[p].have /\ r.asOf = run[p].asOf
      <4>1. "signing" \in Stages
        BY DEF Stages
      <4> QED BY <2>1, <4>1, Reached
    <3> HIDE DEF r
    <3>2. SoundRun(p, run[p], bal, debits) /\ p \notin Sweepers
      BY <1>1, <1>2
    <3>3. SoundRun(p, r, bal, debits)
      BY <2>1, <3>1, <3>2 DEF SoundRun, SweepStages
    <3> QED BY <1>14, <3>1, <3>3, RestNext DEF SwapReturns, money, counters
  <2>2. CASE Become(p, At("rejected"))
    BY <1>1, <1>2, <1>14, <2>2, RestSound, RestNext DEF SwapReturns, Become, money, counters
  <2> QED BY <1>14, <2>1, <2>2 DEF SwapReturns
<1>15. ASSUME NEW p \in Pays, SwapThrows(p) \/ SendFails(p) \/ Response(p) \/ FetchThrows(p) PROVE BeliefsInv'
  BY <1>1, <1>2, <1>15, RestSound, RestNext DEF SwapThrows, SendFails, Response, FetchThrows, Throw,
     Become, money, counters
<1>16. ASSUME NEW p \in Pays, Facilitator(p) PROVE BeliefsInv'
  <2>1. Moved
    BY <1>1, <1>2, <1>16 DEF Facilitator, Moved
  <2> QED BY <1>1, <1>16, <2>1, ReachSound DEF Facilitator, PlainStages, counters
<1>17. ASSUME NEW p \in Pays, LooseSettles(p) PROVE BeliefsInv'
  <2>1. Moved
    BY <1>1, <1>2, <1>17 DEF LooseSettles, Moved
  <2> QED BY <1>1, <1>17, <2>1, BeliefsRest DEF LooseSettles, counters
<1>18. ASSUME NEW x \in Pays \cup Sweepers, ReadHit(x) PROVE BeliefsInv'
  <2>1. SoundEntry(cache, bal, debits) /\ run[x].at \in Reading
    BY <1>18 DEF ReadHit, Reading, BeliefsInv
  <2>2. SoundRun(x, AfterRead(x, cache.have, cache.asOf), bal, debits)
    BY <2>1, ReadSound
  <2> QED BY <1>18, <2>2, RestNext DEF ReadHit, Become, money, counters
<1>19. ASSUME NEW x \in Pays \cup Sweepers, ReadAsk(x) PROVE BeliefsInv'
  <2> DEFINE c == [have |-> bal, asOf |-> debits, until |-> now + CacheTtl]
  <2>1. SoundEntry(c, bal, debits) /\ c \in Entries
    BY <1>1, <1>2 DEF SoundEntry, Entries, TrueSince
  <2>2. asked' = [asked EXCEPT ![x] = c] /\ UNCHANGED <<bal, vault, debits, cache, tail, run, now>> /\ Moved
    BY <1>3, <1>19 DEF ReadAsk, money, counters
  <2> HIDE DEF c
  <2>3. /\ asked' \in [Pays \cup Sweepers -> Entries \cup {None}]
        /\ \A y \in Pays \cup Sweepers : asked'[y] # asked[y] => asked'[y] = c
    BY <1>1, <2>1, <2>2
  <2> QED BY <1>1, <2>1, <2>2, <2>3, BeliefsRest
<1>20. ASSUME NEW x \in Pays \cup Sweepers, ReadAnswer(x) PROVE BeliefsInv'
  <2> DEFINE c == asked[x]
             r == AfterRead(x, c.have, c.asOf)
  <2>1. SoundEntry(c, bal, debits)
    BY <1>20 DEF ReadAnswer, BeliefsInv
  <2>2. /\ run' = [run EXCEPT ![x] = r] /\ asked' = [asked EXCEPT ![x] = None] /\ cache' = c
        /\ UNCHANGED <<bal, vault, debits, tail, now>> /\ Moved
    BY <1>3, <1>20 DEF ReadAnswer, Become, money, counters
  <2> HIDE DEF c, r
  <2>3. CASE run[x].at \in Reading
    <3>1. SoundRun(x, r, bal, debits)
      BY <2>1, <2>3, ReadSound DEF r
    <3>2. /\ asked' \in [Pays \cup Sweepers -> Entries \cup {None}]
          /\ \A y \in Pays \cup Sweepers : asked'[y] # None => asked'[y] = asked[y]
      BY <1>1, <2>2
    <3> QED BY <1>1, <2>1, <2>2, <3>1, <3>2, BeliefsGoOn
  <2> QED BY <1>20, <2>3 DEF ReadAnswer, AskedReads
<1>21. ASSUME NEW x \in Pays \cup Sweepers, ReadFails(x) PROVE BeliefsInv'
  <2>1. run[x].at \in Reading /\ SoundRun(x, run[x], bal, debits)
    BY <1>1, <1>21 DEF ReadFails, AskedReads
  <2>2. CASE run[x].at = "sweep"
    <3>1. run' = [run EXCEPT ![x] = At("idle")]
      BY <1>21, <2>2 DEF ReadFails, Become
    <3>2. SoundRun(x, At("idle"), bal, debits)
      BY <1>1, RestSound
    <3> QED BY <1>21, <3>1, <3>2, RestNext DEF ReadFails, Throw, money
  <2>3. CASE run[x].at = "first"
    <3>1. run' = [run EXCEPT ![x] = At("rejected")]
      BY <1>21, <2>3 DEF ReadFails, Become
    <3>2. x \notin Sweepers
      BY <1>2, <2>1, <2>3 DEF SoundRun, SweepStages
    <3>3. SoundRun(x, At("rejected"), bal, debits)
      BY <1>1, <3>2, RestSound
    <3> QED BY <1>21, <3>1, <3>3, RestNext DEF ReadFails, Throw, money
  <2>4. CASE run[x].at \in {"rescue", "fresh"}
    <3>1. run' = [run EXCEPT ![x] = AfterFailedRescue(x)]
      BY <1>21, <2>4 DEF ReadFails, Become
    <3>2. x \in Pays
      BY <1>2, <2>1, <2>4 DEF SoundRun, SweepStages
    <3> QED BY <1>11, <1>21, <3>1, <3>2, RestNext DEF ReadFails, Throw, money
  <2> QED BY <2>1, <2>2, <2>3, <2>4 DEF Reading
<1>22. ASSUME NEW w \in Sweepers, Sweep(w) \/ DepositLands(w) \/ SweepEnds(w) PROVE BeliefsInv'
  <2>1. w \notin Pays /\ SoundRun(w, run[w], bal, debits)
    BY <1>1, <1>2
  <2>2. ASSUME NEW st \in {"sweep", "deposited"}, Reach(w, st), Moved, vault' \in Nat,
               UNCHANGED <<cache, tail, asked, now>>
        PROVE BeliefsInv'
    <3> DEFINE r == [run[w] EXCEPT !.at = st]
    <3>1. st \in Stages
      BY DEF Stages, Reading
    <3>2. run' = [run EXCEPT ![w] = r] /\ r \in Runs /\ r.at = st /\ r.have = run[w].have /\ r.asOf = run[w].asOf
      BY <2>2, <3>1, Reached
    <3> HIDE DEF r
    <3>3. SoundRun(w, run[w], bal', debits')
      BY <2>1, <2>2, RunStays
    <3>4. SoundRun(w, r, bal', debits')
      BY <2>1, <3>2, <3>3 DEF SoundRun, SweepStages
    <3>5. SoundEntry(cache', bal', debits')
      BY <2>2, EntryStays DEF BeliefsInv
    <3> QED BY <1>1, <2>2, <3>2, <3>4, <3>5, BeliefsGoOn
  <2>3. CASE Sweep(w)
    BY <1>1, <1>3, <2>2, <2>3 DEF Sweep, money, counters
  <2>4. CASE DepositLands(w)
    <3>1. Moved /\ vault' \in Nat
      BY <1>1, <2>4 DEF DepositLands, Moved
    <3> QED BY <2>2, <2>4, <3>1 DEF DepositLands, counters
  <2>5. CASE SweepEnds(w)
    <3>1. SoundRun(w, At("idle"), bal, debits)
      BY <1>1, RestSound
    <3> QED BY <2>5, <3>1, RestNext DEF SweepEnds, Become, Throw, money, counters
  <2> QED BY <1>22, <2>3, <2>4, <2>5
<1> QED BY <1>4, <1>5, <1>6, <1>7, <1>8, <1>9, <1>10, <1>12, <1>13, <1>14, <1>15, <1>16, <1>17, <1>18,
     <1>19, <1>20, <1>21, <1>22 DEF Next

\* Who is asking goes on reading until the answer is there.
LEMMA AskedStep == BeliefsInv /\ AskedReads /\ [Next]_vars => AskedReads'
<1> SUFFICES ASSUME BeliefsInv, AskedReads, [Next]_vars PROVE AskedReads'
  OBVIOUS
<1>1. run \in [Pays \cup Sweepers -> Runs] /\ asked \in [Pays \cup Sweepers -> Entries \cup {None}]
  BY DEF BeliefsInv
<1>2. ASSUME NEW x \in Pays \cup Sweepers, UNCHANGED asked, run[x].at \notin Reading \/ asked[x] = None,
             (\E r : Become(x, r)) \/ (\E st : Reach(x, st))
      PROVE AskedReads'
  BY <1>1, <1>2 DEF Become, Reach, AskedReads
<1>3. ASSUME NEW x \in Pays \cup Sweepers, asked' = [asked EXCEPT ![x] = None],
             \E r : Become(x, r) PROVE AskedReads'
  BY <1>1, <1>3 DEF Become, AskedReads
<1>4. CASE UNCHANGED <<run, asked>>
  BY <1>4 DEF AskedReads
<1>5. ASSUME NEW x \in Pays \cup Sweepers, ReadAsk(x) PROVE AskedReads'
  <2>1. run[x].at \in Reading /\ run' = run /\ \A y \in Pays \cup Sweepers : y # x => asked'[y] = asked[y]
    BY <1>1, <1>5 DEF ReadAsk, Reading
  <2> QED BY <2>1 DEF AskedReads
<1>6. ASSUME NEW x \in Pays \cup Sweepers, ReadHit(x) \/ ReadAnswer(x) \/ ReadFails(x) PROVE AskedReads'
  BY <1>2, <1>3, <1>6 DEF ReadHit, ReadAnswer, ReadFails
<1>7. ASSUME NEW p \in Pays,
             Pay(p) \/ Start(p) \/ WithdrawLands(p) \/ WithdrawReturns(p) \/ WithdrawThrows(p) PROVE AskedReads'
  BY <1>2, <1>7 DEF Pay, Start, WithdrawLands, WithdrawReturns, WithdrawThrows, Reading
<1>8. ASSUME NEW p \in Pays, SwapLands(p) \/ SwapReturns(p) \/ SwapThrows(p) PROVE AskedReads'
  BY <1>2, <1>8 DEF SwapLands, SwapReturns, SwapThrows, Reading
<1>9. ASSUME NEW p \in Pays,
             Send(p) \/ SendFails(p) \/ Facilitator(p) \/ Response(p) \/ FetchThrows(p) PROVE AskedReads'
  BY <1>2, <1>9 DEF Send, SendFails, Facilitator, Response, FetchThrows, Reading
<1>10. ASSUME NEW w \in Sweepers, Sweep(w) \/ DepositLands(w) \/ SweepEnds(w) PROVE AskedReads'
  BY <1>2, <1>10 DEF Sweep, DepositLands, SweepEnds, Reading
<1>11. ASSUME NEW p \in Pays, Release(p) \/ LooseSettles(p) PROVE AskedReads'
  BY <1>4, <1>11 DEF Release, LooseSettles
<1>12. CASE Tick
  BY <1>4, <1>12 DEF Tick
<1> QED BY <1>4, <1>5, <1>6, <1>7, <1>8, <1>9, <1>10, <1>11, <1>12 DEF Next, vars

\* At the start nothing is believed.
LEMMA BeliefsInitially == Init => BeliefsInv /\ AskedReads
<1> SUFFICES ASSUME Init PROVE BeliefsInv /\ AskedReads
  OBVIOUS
<1>1. bal \in Nat /\ vault \in Nat /\ debits = 0 /\ now = 0 /\ tail = None /\ cache = NoEntry
  BY BuyerAssumption DEF Init
<1>2. SoundEntry(NoEntry, bal, debits)
  BY <1>1 DEF SoundEntry, NoEntry, Entries, TrueSince
<1>3. /\ \A x \in Pays \cup Sweepers : asked[x] = None /\ run[x] = At("idle")
      /\ asked \in [Pays \cup Sweepers -> Entries \cup {None}] /\ run = [x \in Pays \cup Sweepers |-> At("idle")]
  BY DEF Init
<1>4. "idle" \in Stages
  BY DEF Stages
<1>5. run \in [Pays \cup Sweepers -> Runs]
  BY <1>3, <1>4, MadeAt
<1>6. \A x \in Pays \cup Sweepers : SoundRun(x, run[x], bal, debits)
  BY <1>1, <1>3, RestSound
<1> QED BY <1>1, <1>2, <1>3, <1>5, <1>6 DEF BeliefsInv, AskedReads

\* For any number of pays and sweeps, any needs and balances: a payment the account
\* does not cover is sent only because money left the account after the balance was
\* read, through rescues that fail, swaps and overlapping pays (adapters/xrpl.ts:129).
THEOREM UncoveredAlwaysByDebit == Spec => []UncoveredOnlyByDebit
<1>1. BeliefsInv => UncoveredOnlyByDebit
  <2> SUFFICES ASSUME BeliefsInv, NEW p \in Pays, run[p].at = "signing",
                      bal < Need[p] PROVE debits > run[p].asOf
    BY DEF UncoveredOnlyByDebit
  <2>1. SoundRun(p, run[p], bal, debits) /\ bal \in Nat /\ debits \in Nat /\ run[p].asOf \in Nat /\ Need[p] \in Nat
    BY BuyerAssumption DEF BeliefsInv, Runs
  <2> QED BY <2>1 DEF SoundRun, TrueSince
<1> QED BY <1>1, BeliefsInitially, BeliefsStep, AskedStep, PTL DEF Spec

-------------------------------------------------------------------------------
(* The buyer: one pay at a time.                                           *)

\* The pays under way.
Active == {p \in Pays : run[p].at \notin {"idle", "resolved", "rejected"}}

\* The promises of the pays under way are a queue: each but the first waits for
\* the one before it, and the last is where the next one joins.
Chained(q) ==
    /\ q \in Seq(Pays) /\ Queues(q, Active)
    /\ \A i \in 2..Len(q) : run[q[i]].at = "queued" /\ run[q[i]].prev = q[i - 1]
    /\ IF q = << >> THEN tail = None \/ Settled(tail) ELSE tail = q[Len(q)]

\* There is such a queue.
ChainHolds == \E q \in Seq(Pays) : Chained(q)

\* What is left of a sequence without its first.
LEMMA TheRest ==
  ASSUME NEW S, NEW q \in Seq(S), q # << >>
  PROVE  /\ Len(Tail(q)) = Len(q) - 1 /\ (Tail(q) = << >> <=> Len(q) = 1)
         /\ \A i \in 1..Len(Tail(q)) : Tail(q)[i] = q[i + 1] /\ i + 1 \in 2..Len(q)
<1>1. Len(q) \in Nat \ {0} /\ Len(Tail(q)) = Len(q) - 1 /\ Tail(q) \in Seq(S)
  OBVIOUS
<1>2. \A i \in 1..Len(Tail(q)) : Tail(q)[i] = q[i + 1] /\ i + 1 \in 2..Len(q)
  BY <1>1
<1>3. \A t \in Seq(S) : t = << >> <=> Len(t) = 0
  OBVIOUS
<1> QED BY <1>1, <1>2, <1>3

\* What a sequence is with one more at its end.
LEMMA TheLonger ==
  ASSUME NEW S, NEW q \in Seq(S), NEW e \in S
  PROVE  /\ Len(q) \in Nat /\ Len(Append(q, e)) = Len(q) + 1 /\ Append(q, e)[Len(Append(q, e))] = e
         /\ Append(q, e) # << >> /\ \A i \in 1..Len(q) : Append(q, e)[i] = q[i] /\ q[i] \in S
OBVIOUS

\* Who is in the section is the first of the chain, and alone there.
LEMMA FirstOfChain ==
  ASSUME NEW q, Chained(q), NEW p \in Pays, p \in Active,
         run[p].at # "queued" \/ run[p].prev = None \/ Settled(run[p].prev)
  PROVE  q # << >> /\ p = Head(q) /\ p = q[1]
<1>1. PICK i \in 1..Len(q) : q[i] = p
  BY DEF Chained, Queues
<1>2. q \in Seq(Pays) /\ Len(q) \in Nat
  BY DEF Chained
<1>3. i = 1
  <2> SUFFICES ASSUME i # 1 PROVE FALSE
    OBVIOUS
  <2>1. i \in 2..Len(q) /\ i - 1 \in 1..Len(q)
    BY <1>1, <1>2
  <2>2. run[p].at = "queued" /\ run[p].prev = q[i - 1] /\ q[i - 1] \in Active
    BY <1>1, <2>1 DEF Chained, Queues
  <2>3. run[p].prev \in Pays /\ run[p].prev # None /\ ~Settled(run[p].prev)
    BY <2>2, BuyerAssumption DEF Active, Settled
  <2> QED BY <2>2, <2>3
<1> QED BY <1>1, <1>2, <1>3

\* Who waits for nobody is the only one past the wait.
LEMMA AloneInSection ==
  ASSUME ChainHolds, NEW p \in Pays, NEW r \in Pays, InSection(p), InSection(r)
  PROVE  p = r
<1>1. PICK q : Chained(q)
  BY DEF ChainHolds
<1>2. p \in Active /\ r \in Active /\ run[p].at # "queued" /\ run[r].at # "queued"
  BY DEF Active, InSection
<1>3. p = q[1]
  BY <1>1, <1>2, FirstOfChain
<1>4. r = q[1]
  BY <1>1, <1>2, FirstOfChain
<1> QED BY <1>3, <1>4

\* The first of the chain goes on, or is done.
LEMMA ChainGoesOn ==
  ASSUME BeliefsInv, ChainHolds, NEW p \in Pays, p \in Active, tail' = tail,
         run[p].at # "queued" \/ run[p].prev = None \/ Settled(run[p].prev),
         NEW r, run' = [run EXCEPT ![p] = r], r.at \notin {"idle", "queued"}
  PROVE  ChainHolds'
<1>1. PICK q : Chained(q)
  BY DEF ChainHolds
<1>2. q # << >> /\ p = Head(q) /\ p = q[1] /\ q \in Seq(Pays) /\ Queues(q, Active) /\ Len(q) \in Nat \ {0}
  BY <1>1, FirstOfChain DEF Chained
<1>3. run'[p] = r /\ \A x \in Pays : x # p => run'[x] = run[x]
  BY DEF BeliefsInv
<1>4. \A i \in 2..Len(q) : q[i] \in Pays /\ q[i] # p /\ run'[q[i]].at = "queued" /\ run'[q[i]].prev = q[i - 1]
  <2>1. \A i \in 2..Len(q) : i \in 1..Len(q) /\ 1 \in 1..Len(q) /\ i # 1
    BY <1>2
  <2>2. \A i \in 2..Len(q) : q[i] \in Pays /\ q[i] # p
    BY <1>2, <2>1 DEF Queues, Active
  <2> QED BY <1>1, <1>3, <2>2 DEF Chained
<1>5. CASE r.at \notin {"resolved", "rejected"}
  <2>1. Active' = Active
    BY <1>3, <1>5 DEF Active
  <2>2. Chained(q)'
    BY <1>1, <1>2, <1>4, <2>1 DEF Chained
  <2> QED BY <1>2, <2>2 DEF ChainHolds
<1>6. CASE r.at \in {"resolved", "rejected"}
  <2> DEFINE t == Tail(q)
  <2>1. Active' = Active \ {p} /\ Settled(p)'
    BY <1>3, <1>6 DEF Active, Settled
  <2>2. t \in Seq(Pays) /\ Queues(t, Active')
    BY <1>2, <2>1, QueueLeft
  <2>3. /\ Len(t) = Len(q) - 1 /\ (t = << >> <=> Len(q) = 1)
        /\ \A i \in 1..Len(t) : t[i] = q[i + 1] /\ i + 1 \in 2..Len(q)
    BY <1>2, TheRest
  <2>4. \A i \in 2..Len(t) : run'[t[i]].at = "queued" /\ run'[t[i]].prev = t[i - 1]
    <3> SUFFICES ASSUME NEW i \in 2..Len(t) PROVE run'[t[i]].at = "queued" /\ run'[t[i]].prev = t[i - 1]
      OBVIOUS
    <3>1. i \in 1..Len(t) /\ i - 1 \in 1..Len(t) /\ (i - 1) + 1 = i /\ (i + 1) - 1 = i
      BY <1>2, <2>3
    <3>2. t[i] = q[i + 1] /\ t[i - 1] = q[i] /\ i + 1 \in 2..Len(q)
      BY <2>3, <3>1
    <3> QED BY <1>4, <3>1, <3>2
  <2>5. tail = q[Len(q)]
    BY <1>1, <1>2 DEF Chained
  <2>6. t # << >> => tail' = t[Len(t)]
    BY <1>2, <2>3, <2>5
  <2>7. t = << >> => tail' = p
    BY <1>2, <2>3, <2>5
  <2> HIDE DEF t
  <2>8. Chained(t)'
    BY <2>1, <2>2, <2>4, <2>6, <2>7 DEF Chained, Settled
  <2> QED BY <2>2, <2>8 DEF ChainHolds
<1> QED BY <1>5, <1>6

\* The pays rest.
LEMMA ChainRests ==
  ASSUME ChainHolds, tail' = tail, tail \in Pays \cup {None}, \A p \in Pays : run'[p] = run[p]
  PROVE  ChainHolds'
<1>1. PICK q \in Seq(Pays) : Chained(q)
  BY DEF ChainHolds
<1>2. Active' = Active /\ \A i \in 1..Len(q) : q[i] \in Pays
  BY DEF Active
<1>3. \A i \in 2..Len(q) : run'[q[i]] = run[q[i]]
  BY <1>2
<1>4. tail \in Pays /\ Settled(tail) => Settled(tail)'
  BY DEF Settled
<1>5. Chained(q)'
  BY <1>1, <1>2, <1>3, <1>4 DEF Chained
<1> QED BY <1>5 DEF ChainHolds

\* A step of the buyer keeps the queue.
LEMMA ChainStep == BeliefsInv /\ AskedReads /\ ChainHolds /\ [Next]_vars => ChainHolds'
<1> SUFFICES ASSUME BeliefsInv, AskedReads, ChainHolds, [Next]_vars PROVE ChainHolds'
  OBVIOUS
<1>1. /\ run \in [Pays \cup Sweepers -> Runs] /\ tail \in Pays \cup {None} /\ Pays \cap Sweepers = {}
      /\ None \notin Pays
  BY BuyerAssumption DEF BeliefsInv
<1>2. ASSUME NEW p \in Pays, tail' = tail, run[p].at \notin {"idle", "queued", "resolved", "rejected"},
             NEW r, run' = [run EXCEPT ![p] = r], r.at \notin {"idle", "queued"}
      PROVE ChainHolds'
  BY <1>2, ChainGoesOn DEF Active
<1>3. ASSUME NEW p \in Pays, tail' = tail, run[p].at \notin {"idle", "queued", "resolved", "rejected"},
             NEW st \in Stages, Reach(p, st), st \notin {"idle", "queued"}
      PROVE ChainHolds'
  <2> DEFINE r == [run[p] EXCEPT !.at = st]
  <2>1. run' = [run EXCEPT ![p] = r] /\ r.at = st
    <3>1. p \in Pays \cup Sweepers /\ st \in Stages /\ Reach(p, st)
      BY <1>3
    <3> QED BY ONLY BeliefsInv, <3>1, Reached
  <2> HIDE DEF r
  <2> QED BY <1>2, <1>3, <2>1
<1>4. ASSUME NEW p \in Pays, tail' = tail, run[p].at \notin {"idle", "queued", "resolved", "rejected"},
             Become(p, At("rejected")) \/ Become(p, At("resolved"))
      PROVE ChainHolds'
  <2>1. At("rejected").at = "rejected" /\ At("resolved").at = "resolved"
    BY DEF At
  <2> QED BY <1>2, <1>4, <2>1 DEF Become
<1>5. \A p \in Pays : \A h, d : Cover(p, h, d).at \in {"signing", "swapping", "rejected"}
  BY DEF Cover, At
<1>6. \A p \in Pays : AfterFailedRescue(p).at \in {"signing", "swapping", "rejected"}
  BY <1>5 DEF AfterFailedRescue, At
<1>7. CASE UNCHANGED <<run, tail>>
  BY <1>1, <1>7, ChainRests
<1>8. ASSUME NEW p \in Pays, Pay(p) PROVE ChainHolds'
  <2> DEFINE r == [At("queued") EXCEPT !.prev = tail]
  <2>1. PICK q \in Seq(Pays) : Chained(q)
    BY DEF ChainHolds
  <2>2. /\ p \notin Active /\ run' = [run EXCEPT ![p] = r] /\ r.at = "queued" /\ r.prev = tail /\ tail' = p
    BY <1>8 DEF Pay, Become, Active, At
  <2> HIDE DEF r
  <2>3. run'[p] = r /\ Active' = Active \cup {p} /\ \A x \in Pays : x # p => run'[x] = run[x]
    BY <1>1, <2>2 DEF Active
  <2> DEFINE t == Append(q, p)
  <2>4. t \in Seq(Pays) /\ Queues(t, Active')
    BY <2>1, <2>2, <2>3, QueueJoined DEF Chained
  <2>5. /\ Len(q) \in Nat /\ Len(t) = Len(q) + 1 /\ t[Len(t)] = p /\ t # << >>
        /\ \A i \in 1..Len(q) : t[i] = q[i] /\ q[i] \in Pays /\ q[i] \in Active
    BY <2>1, TheLonger DEF Chained, Queues
  <2>6. \A i \in 2..Len(t) : run'[t[i]].at = "queued" /\ run'[t[i]].prev = t[i - 1]
    <3> SUFFICES ASSUME NEW i \in 2..Len(t) PROVE run'[t[i]].at = "queued" /\ run'[t[i]].prev = t[i - 1]
      OBVIOUS
    <3> HIDE DEF t
    <3>1. CASE i = Len(t)
      <4>1. i - 1 = Len(q) /\ Len(q) \in 1..Len(q) /\ q # << >>
        BY <2>1, <2>5, <3>1
      <4>2. tail = q[Len(q)]
        BY <2>1, <4>1 DEF Chained
      <4> QED BY <2>2, <2>3, <2>5, <3>1, <4>1, <4>2
    <3>2. CASE i # Len(t)
      <4>1. i \in 1..Len(q) /\ i - 1 \in 1..Len(q) /\ i \in 2..Len(q)
        BY <2>5, <3>2
      <4>2. t[i] = q[i] /\ t[i - 1] = q[i - 1] /\ q[i] # p /\ q[i] \in Pays
        BY <2>2, <2>5, <4>1
      <4> QED BY <2>1, <2>3, <4>1, <4>2 DEF Chained
    <3> QED BY <3>1, <3>2
  <2> HIDE DEF t
  <2>7. Chained(t)'
    BY <2>2, <2>4, <2>5, <2>6 DEF Chained
  <2> QED BY <2>4, <2>7 DEF ChainHolds
<1>9. ASSUME NEW p \in Pays, Start(p) PROVE ChainHolds'
  <2>1. /\ p \in Active /\ run' = [run EXCEPT ![p] = At("first")] /\ tail' = tail
        /\ (run[p].prev = None \/ Settled(run[p].prev)) /\ At("first").at = "first"
    BY <1>9 DEF Start, Become, Active, At
  <2> QED BY <2>1, ChainGoesOn
<1>10. ASSUME NEW p \in Pays, Release(p) PROVE ChainHolds'
  <2>1. PICK q \in Seq(Pays) : Chained(q)
    BY DEF ChainHolds
  <2>2. p \notin Active /\ tail = p /\ tail' = None /\ run' = run
    BY <1>10 DEF Release, Settled, Active
  <2>3. q = << >>
    <3>1. q # << >> => Len(q) \in 1..Len(q)
      BY <2>1
    <3> QED BY <2>1, <2>2, <3>1 DEF Chained, Queues
  <2>4. Active' = Active
    BY <2>2 DEF Active
  <2>5. Chained(q)'
    BY <2>1, <2>2, <2>3, <2>4 DEF Chained
  <2> QED BY <2>1, <2>5 DEF ChainHolds
<1>11. ASSUME NEW p \in Pays,
              WithdrawLands(p) \/ WithdrawReturns(p) \/ SwapLands(p) \/ Send(p) \/ Facilitator(p) PROVE ChainHolds'
  <2>1. {"withdrew", "fresh", "swapped", "unswapped", "sent", "answered"} \subseteq Stages
    BY DEF Stages, Reading
  <2> QED BY <1>3, <1>11, <2>1 DEF WithdrawLands, WithdrawReturns, SwapLands, Send, Facilitator
<1>12. ASSUME NEW p \in Pays, WithdrawThrows(p) PROVE ChainHolds'
  <2>1. AfterFailedRescue(p).at \notin {"idle", "queued"}
    BY <1>6
  <2> QED BY <1>2, <1>12, <2>1 DEF WithdrawThrows, Become
<1>13. ASSUME NEW p \in Pays, SwapReturns(p) PROVE ChainHolds'
  <2>1. "signing" \in Stages
    BY DEF Stages
  <2> QED BY <1>3, <1>4, <1>13, <2>1 DEF SwapReturns
<1>14. ASSUME NEW p \in Pays, SwapThrows(p) \/ SendFails(p) \/ Response(p) \/ FetchThrows(p) PROVE ChainHolds'
  BY <1>4, <1>14 DEF SwapThrows, SendFails, Response, FetchThrows
<1>15. ASSUME NEW x \in Sweepers, \E r : run' = [run EXCEPT ![x] = r], tail' = tail PROVE ChainHolds'
  BY <1>1, <1>15, ChainRests
<1>16. ASSUME NEW p \in Pays, run[p].at \in Reading PROVE run[p].at \in {"first", "rescue", "fresh"}
  BY <1>1, <1>16 DEF BeliefsInv, SoundRun, SweepStages, Reading
<1>17. ASSUME NEW p \in Pays, NEW h, NEW d, run[p].at \in {"first", "rescue", "fresh"}
       PROVE AfterRead(p, h, d).at \notin {"idle", "queued"}
  <2>1. run[p] \in Runs
    BY <1>1
  <2>2. [run[p] EXCEPT !.at = "fresh"].at = "fresh"
    BY <2>1 DEF Runs
  <2>3. \A a : [run[p] EXCEPT !.at = "withdrawing", !.amt = a].at = "withdrawing"
    BY <2>1 DEF Runs
  <2>4. AfterRescue(p, h).at \in {"fresh", "withdrawing"}
    BY <2>2, <2>3 DEF AfterRescue
  <2>5. AfterFirst(p, h, d).at \in {"rescue", "signing", "swapping", "rejected"}
    BY <1>5 DEF AfterFirst, At
  <2> QED BY <1>5, <1>17, <2>4, <2>5 DEF AfterRead
<1>18. ASSUME NEW x \in Pays \cup Sweepers, ReadHit(x) PROVE ChainHolds'
  <2>1. CASE x \in Sweepers
    BY <1>15, <1>18, <2>1 DEF ReadHit, Become
  <2>2. CASE x \in Pays
    <3> DEFINE r == AfterRead(x, cache.have, cache.asOf)
    <3>1. run[x].at \in {"first", "rescue", "fresh"} /\ run' = [run EXCEPT ![x] = r] /\ tail' = tail
      BY <1>18 DEF ReadHit, Become
    <3>2. r.at \notin {"idle", "queued"}
      BY <1>17, <2>2, <3>1
    <3> HIDE DEF r
    <3> QED BY <1>2, <2>2, <3>1, <3>2
  <2> QED BY <2>1, <2>2
<1>19. ASSUME NEW x \in Pays \cup Sweepers, ReadAnswer(x) PROVE ChainHolds'
  <2>1. CASE x \in Sweepers
    BY <1>15, <1>19, <2>1 DEF ReadAnswer, Become
  <2>2. CASE x \in Pays
    <3> DEFINE r == AfterRead(x, asked[x].have, asked[x].asOf)
    <3>1. run[x].at \in {"first", "rescue", "fresh"} /\ run' = [run EXCEPT ![x] = r] /\ tail' = tail
      BY <1>16, <1>19, <2>2 DEF ReadAnswer, Become, AskedReads
    <3>2. r.at \notin {"idle", "queued"}
      BY <1>17, <2>2, <3>1
    <3> HIDE DEF r
    <3> QED BY <1>2, <2>2, <3>1, <3>2
  <2> QED BY <2>1, <2>2
<1>20. ASSUME NEW x \in Pays \cup Sweepers, ReadFails(x) PROVE ChainHolds'
  <2>1. CASE x \in Sweepers
    BY <1>15, <1>20, <2>1 DEF ReadFails, Become
  <2>2. CASE x \in Pays
    <3>1. run[x].at \in {"first", "rescue", "fresh"} /\ tail' = tail /\ x \notin Sweepers
      BY <1>1, <1>16, <1>20, <2>2 DEF ReadFails, AskedReads
    <3>2. CASE run[x].at = "first"
      BY <1>4, <1>20, <2>2, <3>1, <3>2 DEF ReadFails
    <3>3. CASE run[x].at # "first"
      <4>1. run' = [run EXCEPT ![x] = AfterFailedRescue(x)]
        BY <1>20, <3>1, <3>3 DEF ReadFails, Become
      <4>2. AfterFailedRescue(x).at \notin {"idle", "queued"}
        BY <1>6, <2>2
      <4> QED BY <1>2, <2>2, <3>1, <4>1, <4>2
    <3> QED BY <3>2, <3>3
  <2> QED BY <2>1, <2>2
<1>21. ASSUME NEW w \in Sweepers, Sweep(w) \/ DepositLands(w) \/ SweepEnds(w) PROVE ChainHolds'
  <2>1. {"sweep", "deposited"} \subseteq Stages
    BY DEF Stages, Reading
  <2>2. CASE Sweep(w) \/ DepositLands(w)
    BY <1>15, <2>1, <2>2, Reached, ZenonT(30) DEF Sweep, DepositLands
  <2>3. CASE SweepEnds(w)
    BY <1>15, <2>3 DEF SweepEnds, Become
  <2> QED BY <1>21, <2>2, <2>3
<1>22. ASSUME NEW x \in Pays \cup Sweepers, ReadAsk(x) PROVE ChainHolds'
  BY <1>7, <1>22 DEF ReadAsk
<1>23. ASSUME NEW p \in Pays, LooseSettles(p) PROVE ChainHolds'
  BY <1>7, <1>23 DEF LooseSettles
<1>24. CASE Tick \/ UNCHANGED vars
  BY <1>7, <1>24 DEF Tick, vars
<1> QED BY <1>8, <1>9, <1>10, <1>11, <1>12, <1>13, <1>14, <1>18, <1>19, <1>20, <1>21, <1>22, <1>23,
     <1>24 DEF Next

\* At the start nobody waits.
LEMMA ChainInitially == Init => ChainHolds
<1> SUFFICES ASSUME Init PROVE ChainHolds
  OBVIOUS
<1>1. \A p \in Pays : run[p].at = "idle"
  BY DEF Init, At
<1>2. Active = {} /\ tail = None
  BY <1>1 DEF Active, Init
<1>3. << >> \in Seq(Pays)
  OBVIOUS
<1>4. Chained(<< >>)
  BY <1>2, <1>3 DEF Chained, Queues
<1> QED BY <1>3, <1>4 DEF ChainHolds

-------------------------------------------------------------------------------
(* The buyer: a swap buys no more than what is missing.                     *)

\* Where a pay is while the treasury rescues it.
Rescuing == {"rescue", "withdrawing", "withdrew", "fresh"}

\* Without a treasury nothing is rescued or swept.
TreasuryInv ==
    ~treasury => /\ timer = None
                 /\ \A w \in Sweepers : run[w].at = "idle"
                 /\ \A p \in Pays : run[p].at \notin Rescuing

\* The account holds no more than the answer on its way to a pay says: only that
\* pay could make it hold more.
AnswersHold == \A p \in Pays : asked[p] # None => bal <= asked[p].have

\* Nor more than the cache says while it may be used, unless a swap has just landed.
CacheHolds ==
    /\ lost \in Nat
    /\ (/\ lost = 0 /\ ~treasury /\ Fresh
        /\ \A p \in Pays : run[p].at # "swapped") => bal <= cache.have

\* What the buyer never breaks.
BuyerInv == BeliefsInv /\ AskedReads /\ ChainHolds /\ TreasuryInv /\ AnswersHold /\ CacheHolds

\* Where a pay goes after a balance, and with what.
LEMMA CoverGoes ==
  ASSUME NEW p \in Pays, NEW h, NEW d
  PROVE  /\ Cover(p, h, d).at \in {"signing", "swapping", "rejected"}
         /\ Cover(p, h, d).at = "swapping" => Cover(p, h, d).amt = Need[p] - h /\ ~(h >= Need[p])
BY DEF Cover, At

\* Where a pay goes with the balance it reads.
LEMMA ReadGoes ==
  ASSUME NEW p \in Pays, run[p] \in Runs, NEW h, NEW d, run[p].at \in {"first", "rescue", "fresh"}
  PROVE  /\ AfterRead(p, h, d).at \in Rescuing \cup {"signing", "swapping", "rejected"}
         /\ run[p].at = "first" /\ ~treasury => AfterRead(p, h, d).at \notin Rescuing
         /\ AfterRead(p, h, d).at = "swapping" =>
               /\ AfterRead(p, h, d).amt = Need[p] - h /\ ~(h >= Need[p])
               /\ run[p].at = "fresh" \/ run[p].at = "first"
               /\ run[p].at = "first" /\ treasury => ~(h < Need[p])
<1> DEFINE r == AfterRead(p, h, d)
<1>1. CASE run[p].at = "first"
  <2>1. r = AfterFirst(p, h, d)
    BY <1>1 DEF AfterRead
  <2>2. CASE treasury /\ h < Need[p]
    <3>1. r = [At("rescue") EXCEPT !.have = h, !.asOf = d]
      BY <2>1, <2>2 DEF AfterFirst
    <3>2. r.at = "rescue"
      BY <3>1 DEF At
    <3> QED BY <1>1, <2>2, <3>2 DEF Rescuing
  <2>3. CASE ~(treasury /\ h < Need[p])
    <3>1. r = Cover(p, h, d)
      BY <2>1, <2>3 DEF AfterFirst
    <3> QED BY <1>1, <2>3, <3>1, CoverGoes DEF Rescuing
  <2> QED BY <2>2, <2>3
<1>2. CASE run[p].at = "rescue"
  <2>1. r = AfterRescue(p, h)
    BY <1>2 DEF AfterRead
  <2>2. [run[p] EXCEPT !.at = "fresh"].at = "fresh"
    BY DEF Runs
  <2>3. \A a : [run[p] EXCEPT !.at = "withdrawing", !.amt = a].at = "withdrawing"
    BY DEF Runs
  <2>4. r.at \in {"fresh", "withdrawing"}
    BY <2>1, <2>2, <2>3 DEF AfterRescue
  <2> QED BY <1>2, <2>4 DEF Rescuing
<1>3. CASE run[p].at = "fresh"
  <2>1. r = Cover(p, h, d)
    BY <1>3 DEF AfterRead
  <2> QED BY <1>3, <2>1, CoverGoes
<1> QED BY <1>1, <1>2, <1>3

\* A pay whose read throws goes on with the balance it has, or gives up.
LEMMA FailedRescueGoes ==
  ASSUME NEW p \in Pays
  PROVE  AfterFailedRescue(p).at \in {"signing", "swapping", "rejected"}
BY CoverGoes DEF AfterFailedRescue, At

\* A pay in the section is a reader, or is not asking.
LEMMA PaysAsk ==
  ASSUME BeliefsInv, AskedReads, NEW p \in Pays, asked[p] # None
  PROVE  run[p].at \in {"first", "rescue", "fresh"} /\ InSection(p)
<1>1. run[p].at \in Reading /\ run[p].at \notin SweepStages \ {"idle"}
  BY DEF AskedReads, BeliefsInv, SoundRun
<1> QED BY <1>1 DEF Reading, SweepStages, InSection

\* Nothing is rescued or swept without a treasury, after any step.
LEMMA TreasuryStep == BuyerInv /\ [Next]_vars => TreasuryInv'
<1> SUFFICES ASSUME BuyerInv, [Next]_vars, ~treasury' PROVE TreasuryInv'
  BY DEF TreasuryInv
<1>1. ~treasury /\ treasury' = treasury
  BY DEF Next, vars, options
<1>2. timer = None /\ (\A w \in Sweepers : run[w].at = "idle") /\ (\A p \in Pays : run[p].at \notin Rescuing)
  BY <1>1 DEF BuyerInv, TreasuryInv
<1>3. run \in [Pays \cup Sweepers -> Runs] /\ Pays \cap Sweepers = {} /\ BeliefsInv /\ AskedReads
  BY BuyerAssumption DEF BuyerInv, BeliefsInv
<1>4. ASSUME NEW p \in Pays, NEW r, run' = [run EXCEPT ![p] = r], r.at \notin Rescuing,
             timer' = None PROVE TreasuryInv'
  BY <1>2, <1>3, <1>4 DEF TreasuryInv
<1>5. ASSUME NEW p \in Pays, NEW st \in Stages \ Rescuing, Reach(p, st), timer' = None PROVE TreasuryInv'
  <2> DEFINE r == [run[p] EXCEPT !.at = st]
  <2>1. run' = [run EXCEPT ![p] = r] /\ r.at = st
    <3>1. p \in Pays \cup Sweepers /\ st \in Stages /\ Reach(p, st)
      BY <1>5
    <3> QED BY ONLY <1>3, <3>1, Reached
  <2> HIDE DEF r
  <2> QED BY <1>4, <1>5, <2>1
<1>6. CASE run' = run /\ timer' = timer
  BY <1>2, <1>6 DEF TreasuryInv
<1>7. \A st \in Stages : At(st).at = st
  BY MadeAt
<1>8. {"queued", "first", "rejected", "resolved", "signing", "sent", "answered", "swapped", "unswapped"} \subseteq Stages \ Rescuing
  BY DEF Stages, Reading, Rescuing
<1>9. ASSUME NEW p \in Pays, Pay(p) PROVE TreasuryInv'
  <2>1. [At("queued") EXCEPT !.prev = tail].at = "queued"
    BY DEF At
  <2> QED BY <1>2, <1>4, <1>8, <1>9, <2>1 DEF Pay, Become
<1>10. ASSUME NEW p \in Pays, NEW st \in {"first", "rejected", "resolved"}, Become(p, At(st)),
              timer' = None PROVE TreasuryInv'
  <2>1. At(st).at \notin Rescuing
    BY <1>7, <1>8
  <2> QED BY <1>4, <1>10, <2>1 DEF Become
<1>11. ASSUME NEW p \in Pays,
              Start(p) \/ SwapThrows(p) \/ SendFails(p) \/ Response(p) \/ FetchThrows(p) PROVE TreasuryInv'
  BY <1>1, <1>2, <1>10, <1>11 DEF Start, SwapThrows, SendFails, Response, FetchThrows
<1>12. ASSUME NEW p \in Pays, SwapLands(p) \/ SwapReturns(p) \/ Send(p) \/ Facilitator(p) PROVE TreasuryInv'
  BY <1>2, <1>5, <1>8, <1>10, <1>12 DEF SwapLands, SwapReturns, Send, Facilitator
<1>13. ASSUME NEW p \in Pays PROVE ~WithdrawLands(p) /\ ~WithdrawReturns(p) /\ ~WithdrawThrows(p)
  BY <1>2 DEF WithdrawLands, WithdrawReturns, WithdrawThrows, Rescuing
<1>14. ASSUME NEW p \in Pays, Release(p) \/ LooseSettles(p) PROVE TreasuryInv'
  BY <1>6, <1>14 DEF Release, LooseSettles
<1>15. ASSUME NEW w \in Sweepers PROVE ~Sweep(w) /\ ~DepositLands(w) /\ ~SweepEnds(w) /\ asked[w] = None
  BY <1>2, <1>3 DEF Sweep, DepositLands, SweepEnds, AskedReads, Reading
<1>16. ASSUME NEW x \in Pays \cup Sweepers, ReadHit(x) PROVE TreasuryInv'
  <2>1. x \in Pays /\ run[x].at = "first"
    BY <1>2, <1>16 DEF ReadHit, Rescuing
  <2>2. run' = [run EXCEPT ![x] = AfterRead(x, cache.have, cache.asOf)] /\ timer' = None
    BY <1>2, <1>16 DEF ReadHit, Become
  <2>3. AfterRead(x, cache.have, cache.asOf).at \notin Rescuing
    BY <1>1, <1>3, <2>1, ReadGoes
  <2> QED BY <1>4, <2>1, <2>2, <2>3
<1>17. ASSUME NEW x \in Pays \cup Sweepers, ReadAnswer(x) PROVE TreasuryInv'
  <2>1. x \in Pays /\ run[x].at = "first"
    <3>1. asked[x] # None
      BY <1>17 DEF ReadAnswer
    <3> QED BY <1>2, <1>3, <1>15, <3>1, PaysAsk DEF Rescuing
  <2>2. run' = [run EXCEPT ![x] = AfterRead(x, asked[x].have, asked[x].asOf)] /\ timer' = None
    BY <1>2, <1>17 DEF ReadAnswer, Become
  <2>3. AfterRead(x, asked[x].have, asked[x].asOf).at \notin Rescuing
    BY <1>1, <1>3, <2>1, ReadGoes
  <2> QED BY <1>4, <2>1, <2>2, <2>3
<1>18. ASSUME NEW x \in Pays \cup Sweepers, ReadFails(x) PROVE TreasuryInv'
  <2>1. x \in Pays /\ run[x].at = "first"
    <3>1. asked[x] # None
      BY <1>18 DEF ReadFails
    <3> QED BY <1>2, <1>3, <1>15, <3>1, PaysAsk DEF Rescuing
  <2> QED BY <1>2, <1>10, <1>18, <2>1 DEF ReadFails
<1>19. CASE Tick \/ UNCHANGED vars \/ \E x \in Pays \cup Sweepers : ReadAsk(x)
  BY <1>6, <1>19 DEF Tick, ReadAsk, vars
<1> QED BY <1>9, <1>11, <1>12, <1>13, <1>14, <1>15, <1>16, <1>17, <1>18, <1>19 DEF Next

\* Who makes the account hold more is alone in the section, and asks for nothing.
LEMMA GainsAlone ==
  ASSUME BuyerInv, NEW p \in Pays, run[p].at \in {"withdrawing", "swapping"}, NEW r \in Pays
  PROVE  asked[r] = None
<1> SUFFICES ASSUME asked[r] # None PROVE FALSE
  OBVIOUS
<1>1. BeliefsInv /\ AskedReads /\ ChainHolds
  BY DEF BuyerInv
<1>2. run[r].at \in {"first", "rescue", "fresh"} /\ InSection(r) /\ InSection(p)
  BY <1>1, PaysAsk DEF InSection
<1> QED BY <1>1, <1>2, AloneInSection

\* What a step of the buyer does to the balance.
LEMMA BalanceFalls ==
  ASSUME BuyerInv, [Next]_vars, \A p \in Pays : ~WithdrawLands(p) /\ ~SwapLands(p)
  PROVE  bal' <= bal
<1>1. bal \in Nat /\ (\A p \in Pays : Need[p] \in Nat) /\ \A x \in Pays \cup Sweepers : run[x].amt \in Nat
  BY BuyerAssumption DEF BuyerInv, BeliefsInv, Runs
<1>2. CASE bal' = bal
  BY <1>1, <1>2
<1>3. ASSUME NEW p \in Pays, Facilitator(p) \/ LooseSettles(p) PROVE bal' <= bal
  BY <1>1, <1>3 DEF Facilitator, LooseSettles
<1>4. ASSUME NEW w \in Sweepers, DepositLands(w) PROVE bal' <= bal
  BY <1>1, <1>4 DEF DepositLands
<1>5. ASSUME NEW p \in Pays,
             \/ Pay(p) \/ Start(p) \/ Release(p) \/ WithdrawReturns(p) \/ WithdrawThrows(p)
             \/ SwapReturns(p) \/ SwapThrows(p) \/ Send(p) \/ SendFails(p) \/ Response(p) \/ FetchThrows(p)
      PROVE bal' <= bal
  BY <1>2, <1>5 DEF Pay, Start, Release, WithdrawReturns, WithdrawThrows, SwapReturns, SwapThrows,
                    Send, SendFails, Response, FetchThrows, money
<1>6. ASSUME NEW x \in Pays \cup Sweepers,
             ReadHit(x) \/ ReadAsk(x) \/ ReadAnswer(x) \/ ReadFails(x) PROVE bal' <= bal
  BY <1>2, <1>6 DEF ReadHit, ReadAsk, ReadAnswer, ReadFails, money
<1>7. ASSUME NEW w \in Sweepers, Sweep(w) \/ SweepEnds(w) PROVE bal' <= bal
  BY <1>2, <1>7 DEF Sweep, SweepEnds, money
<1>8. CASE Tick \/ UNCHANGED vars
  BY <1>2, <1>8 DEF Tick, vars, money
<1> QED BY <1>3, <1>4, <1>5, <1>6, <1>7, <1>8 DEF Next

\* What a step does to the answers on their way.
LEMMA AskedMoves ==
  ASSUME BuyerInv, [Next]_vars
  PROVE  \/ asked' = asked
         \/ \E x \in Pays \cup Sweepers : asked' = [asked EXCEPT ![x] = None]
         \/ \E x \in Pays \cup Sweepers :
               asked' = [asked EXCEPT ![x] = [have |-> bal, asOf |-> debits, until |-> now + CacheTtl]]
<1>1. ASSUME NEW p \in Pays,
             \/ Pay(p) \/ Start(p) \/ Release(p) \/ WithdrawLands(p) \/ WithdrawReturns(p) \/ WithdrawThrows(p)
             \/ SwapLands(p) \/ SwapReturns(p) \/ SwapThrows(p) \/ Send(p) \/ SendFails(p) \/ Facilitator(p)
             \/ Response(p) \/ FetchThrows(p) \/ LooseSettles(p)
      PROVE asked' = asked
  BY <1>1 DEF Pay, Start, Release, WithdrawLands, WithdrawReturns, WithdrawThrows, SwapLands, SwapReturns,
     SwapThrows,
              Send, SendFails, Facilitator, Response, FetchThrows, LooseSettles
<1>2. ASSUME NEW w \in Sweepers, Sweep(w) \/ DepositLands(w) \/ SweepEnds(w) PROVE asked' = asked
  BY <1>2 DEF Sweep, DepositLands, SweepEnds
<1>3. ASSUME NEW x \in Pays \cup Sweepers, ReadHit(x) PROVE asked' = asked
  BY <1>3 DEF ReadHit
<1>4. ASSUME NEW x \in Pays \cup Sweepers,
             ReadAnswer(x) \/ ReadFails(x) PROVE asked' = [asked EXCEPT ![x] = None]
  BY <1>4 DEF ReadAnswer, ReadFails
<1>5. ASSUME NEW x \in Pays \cup Sweepers, ReadAsk(x)
      PROVE asked' = [asked EXCEPT ![x] = [have |-> bal, asOf |-> debits, until |-> now + CacheTtl]]
  BY <1>5 DEF ReadAsk
<1>6. CASE Tick \/ UNCHANGED vars
  BY <1>6 DEF Tick, vars
<1> QED BY <1>1, <1>2, <1>3, <1>4, <1>5, <1>6 DEF Next

\* No step makes the account hold more than the answers on their way say.
LEMMA AnswersStep == BuyerInv /\ [Next]_vars => AnswersHold'
<1> SUFFICES ASSUME BuyerInv, [Next]_vars, NEW p \in Pays, asked'[p] # None PROVE bal' <= asked'[p].have
  BY DEF AnswersHold
<1>1. asked \in [Pays \cup Sweepers -> Entries \cup {None}] /\ bal \in Nat /\ bal' \in Nat
      /\ (asked[p] # None => bal <= asked[p].have)
  BY BeliefsStep DEF BuyerInv, BeliefsInv, AnswersHold
<1>2. CASE \E x \in Pays : WithdrawLands(x) \/ SwapLands(x)
  <2>1. PICK x \in Pays : WithdrawLands(x) \/ SwapLands(x)
    BY <1>2
  <2>2. run[x].at \in {"withdrawing", "swapping"} /\ asked' = asked
    BY <2>1 DEF WithdrawLands, SwapLands
  <2> QED BY <2>2, GainsAlone
<1>3. CASE \A x \in Pays : ~WithdrawLands(x) /\ ~SwapLands(x)
  <2>1. bal' <= bal
    BY <1>3, BalanceFalls
  <2>2. CASE asked'[p] = asked[p]
    <3>1. asked[p].have \in Nat
      BY <1>1, <2>2 DEF Entries
    <3> QED BY <1>1, <2>1, <2>2, <3>1
  <2>3. CASE asked'[p] # asked[p]
    <3>1. asked'[p].have = bal
      BY <1>1, <2>3, AskedMoves
    <3> QED BY <1>1, <2>1, <3>1
  <2> QED BY <2>2, <2>3
<1> QED BY <1>2, <1>3

\* What the cache says holds after any step.
LEMMA CacheStep == BuyerInv /\ [Next]_vars => CacheHolds'
<1> SUFFICES ASSUME BuyerInv, [Next]_vars PROVE CacheHolds'
  OBVIOUS
<1>1. /\ BeliefsInv /\ BeliefsInv' /\ AskedReads /\ lost \in Nat /\ now \in Nat /\ bal \in Nat /\ bal' \in Nat
      /\ run \in [Pays \cup Sweepers -> Runs] /\ Pays \cap Sweepers = {} /\ cache \in Entries /\ cache' \in Entries
  BY BeliefsStep, BuyerAssumption DEF BuyerInv, BeliefsInv, CacheHolds, SoundEntry
<1>2. treasury' = treasury
  BY DEF Next, vars, options
<1>3. cache.until \in Nat /\ cache.have \in Nat
  BY <1>1 DEF Entries
<1>4. ASSUME cache' = cache, now' \in Nat, now' >= now, bal' <= bal, lost' \in Nat, lost' >= lost,
             lost' = 0 => \A p \in Pays : run[p].at = "swapped" => run'[p].at = "swapped"
      PROVE CacheHolds'
  <2>1. SUFFICES ASSUME lost' = 0, ~treasury', Fresh',
                        \A p \in Pays : run'[p].at # "swapped" PROVE bal' <= cache'.have
    BY <1>4 DEF CacheHolds
  <2>2. lost = 0 /\ ~treasury /\ Fresh /\ \A p \in Pays : run[p].at # "swapped"
    BY <1>1, <1>2, <1>3, <1>4, <2>1 DEF Fresh
  <2>3. bal <= cache.have
    BY <2>2 DEF BuyerInv, CacheHolds
  <2> QED BY <1>1, <1>3, <1>4, <2>3
<1>5. ASSUME NEW x \in Pays \cup Sweepers, run[x].at # "swapped" \/ x \in Sweepers,
             \E r : run' = [run EXCEPT ![x] = r],
             UNCHANGED <<cache, now>>, bal' <= bal, lost' \in Nat, lost' >= lost
      PROVE CacheHolds'
  <2>1. \A p \in Pays : run[p].at = "swapped" => run'[p].at = "swapped"
    BY <1>1, <1>5
  <2> QED BY <1>1, <1>4, <1>5, <2>1
<1>6. UNCHANGED counters \/ Throw => lost' \in Nat /\ lost' >= lost /\ now' = now
  BY <1>1 DEF counters, Throw
<1>7. CASE \E p \in Pays : WithdrawLands(p)
  <2>1. treasury
    BY <1>7 DEF BuyerInv, TreasuryInv, WithdrawLands, Rescuing
  <2>2. lost' = lost
    BY <1>7 DEF WithdrawLands, counters
  <2> QED BY <1>1, <1>2, <2>1, <2>2 DEF CacheHolds
<1>8. ASSUME NEW p \in Pays, SwapLands(p) PROVE CacheHolds'
  <2>1. CASE UNCHANGED bal /\ Reach(p, "unswapped")
    <3>1. \E r : run' = [run EXCEPT ![p] = r]
      BY <2>1 DEF Reach
    <3>2. run[p].at # "swapped" /\ UNCHANGED cache /\ UNCHANGED counters
      BY <1>8 DEF SwapLands
    <3>3. bal' <= bal
      BY <1>1, <2>1
    <3> QED BY <1>5, <1>6, <3>1, <3>2, <3>3
  <2>2. CASE Reach(p, "swapped")
    <3>1. run'[p].at = "swapped" /\ lost' = lost
      BY <1>1, <1>8, <2>2 DEF Reach, SwapLands, counters
    <3> QED BY <1>1, <3>1 DEF CacheHolds
  <2> QED BY <1>8, <2>1, <2>2 DEF SwapLands
<1>9. CASE \A p \in Pays : ~WithdrawLands(p) /\ ~SwapLands(p)
  <2>1. bal' <= bal
    BY <1>9, BalanceFalls
  <2>2. ASSUME NEW p \in Pays, SwapReturns(p) PROVE CacheHolds'
    <3>1. cache' = NoEntry /\ lost' = lost /\ now' = now
      BY <2>2 DEF SwapReturns, counters
    <3>2. ~Fresh'
      BY <1>1, <3>1 DEF Fresh, NoEntry
    <3> QED BY <1>1, <3>1, <3>2 DEF CacheHolds
  <2>3. ASSUME NEW p \in Pays, SwapThrows(p) PROVE CacheHolds'
    <3>1. lost' \in Nat /\ lost' # 0
      BY <1>1, <2>3 DEF SwapThrows, Throw
    <3> QED BY <3>1 DEF CacheHolds
  <2>4. ASSUME NEW p \in Pays, Pay(p) \/ Start(p) \/ WithdrawReturns(p) \/ WithdrawThrows(p) PROVE CacheHolds'
    <3>1. run[p].at # "swapped" /\ (UNCHANGED counters \/ Throw) /\ cache' = cache /\ \E r : run' = [run EXCEPT ![p] = r]
      BY <2>4 DEF Pay, Start, WithdrawReturns, WithdrawThrows, Become, Reach
    <3> QED BY <1>5, <1>6, <2>1, <3>1
  <2>5. ASSUME NEW p \in Pays,
               Send(p) \/ SendFails(p) \/ Facilitator(p) \/ Response(p) \/ FetchThrows(p) PROVE CacheHolds'
    <3>1. run[p].at # "swapped" /\ (UNCHANGED counters \/ Throw) /\ cache' = cache /\ \E r : run' = [run EXCEPT ![p] = r]
      BY <2>5 DEF Send, SendFails, Facilitator, Response, FetchThrows, Become, Reach
    <3> QED BY <1>5, <1>6, <2>1, <3>1
  <2>6. ASSUME NEW w \in Sweepers, Sweep(w) \/ DepositLands(w) \/ SweepEnds(w) PROVE CacheHolds'
    <3>1. (UNCHANGED counters \/ Throw) /\ cache' = cache /\ \E r : run' = [run EXCEPT ![w] = r]
      BY <2>6 DEF Sweep, DepositLands, SweepEnds, Become, Reach
    <3> QED BY <1>5, <1>6, <2>1, <3>1
  <2>7. ASSUME NEW x \in Pays \cup Sweepers, ReadHit(x) PROVE CacheHolds'
    <3>1. run[x].at # "swapped" /\ UNCHANGED counters /\ cache' = cache /\ \E r : run' = [run EXCEPT ![x] = r]
      BY <2>7 DEF ReadHit, Become
    <3> QED BY <1>5, <1>6, <2>1, <3>1
  <2>8. ASSUME NEW x \in Pays \cup Sweepers, ReadFails(x) PROVE CacheHolds'
    <3>1. lost' \in Nat /\ lost' # 0
      BY <1>1, <2>8 DEF ReadFails, Throw
    <3> QED BY <3>1 DEF CacheHolds
  <2>9. ASSUME NEW x \in Pays \cup Sweepers, ReadAnswer(x) PROVE CacheHolds'
    <3>1. asked[x] # None /\ cache' = asked[x] /\ lost' = lost /\ bal' = bal
      BY <2>9 DEF ReadAnswer, counters, money
    <3>2. CASE x \in Pays
      <4>1. bal <= asked[x].have
        BY <3>1, <3>2 DEF BuyerInv, AnswersHold
      <4> QED BY <1>1, <3>1, <4>1 DEF CacheHolds
    <3>3. CASE x \in Sweepers
      <4>1. run[x].at # "idle"
        BY <1>1, <3>1, <3>3 DEF AskedReads, Reading
      <4>2. treasury
        BY <3>3, <4>1 DEF BuyerInv, TreasuryInv
      <4> QED BY <1>1, <1>2, <3>1, <4>2 DEF CacheHolds
    <3> QED BY <3>2, <3>3
  <2>10. ASSUME UNCHANGED <<run, cache>>,
                UNCHANGED counters \/ (now' = now + 1 /\ lost' = lost) PROVE CacheHolds'
    <3>1. now' \in Nat /\ now' >= now /\ lost' \in Nat /\ lost' >= lost
      BY <1>1, <2>10 DEF counters
    <3> QED BY <1>4, <2>1, <2>10, <3>1
  <2>11. ASSUME NEW p \in Pays, Release(p) \/ LooseSettles(p) PROVE CacheHolds'
    BY <2>10, <2>11 DEF Release, LooseSettles
  <2>12. CASE Tick \/ UNCHANGED vars \/ \E x \in Pays \cup Sweepers : ReadAsk(x)
    BY <2>10, <2>12 DEF Tick, ReadAsk, vars
  <2> QED BY <1>9, <2>2, <2>3, <2>4, <2>5, <2>6, <2>7, <2>8, <2>9, <2>11, <2>12 DEF Next
<1> QED BY <1>7, <1>8, <1>9

\* Hence the buyer's invariant holds of every behaviour.
LEMMA BuyerInvariant == Spec => []BuyerInv
<1>1. Init => BuyerInv
  <2> SUFFICES ASSUME Init PROVE BuyerInv
    OBVIOUS
  <2>1. BeliefsInv /\ AskedReads /\ ChainHolds
    BY BeliefsInitially, ChainInitially
  <2>2. \A x \in Pays \cup Sweepers : run[x].at = "idle" /\ asked[x] = None
    BY DEF Init, At
  <2>3. timer = None /\ lost = 0 /\ now = 0 /\ cache.until = 0
    BY DEF Init, NoEntry
  <2> QED BY <2>1, <2>2, <2>3 DEF BuyerInv, TreasuryInv, AnswersHold, CacheHolds, Rescuing, Fresh
<1>2. BuyerInv /\ [Next]_vars => BuyerInv'
  BY BeliefsStep, AskedStep, ChainStep, TreasuryStep, AnswersStep, CacheStep DEF BuyerInv
<1> QED BY <1>1, <1>2, PTL DEF Spec

\* A step that starts a swap without anything lost starts it for what is missing.
LEMMA SwapStarts ==
  ASSUME BuyerInv, [Next]_vars, NEW p \in Pays, lost' = 0, run[p].at # "swapping", run'[p].at = "swapping"
  PROVE  bal + run'[p].amt <= Need[p]
<1>1. /\ BeliefsInv /\ AskedReads /\ lost \in Nat /\ bal \in Nat /\ run[p] \in Runs /\ Need[p] \in Nat
      /\ run \in [Pays \cup Sweepers -> Runs] /\ Pays \cap Sweepers = {} /\ cache \in Entries
      /\ asked \in [Pays \cup Sweepers -> Entries \cup {None}]
  BY BuyerAssumption DEF BuyerInv, BeliefsInv, CacheHolds, SoundEntry
<1>2. ~Throw
  BY <1>1 DEF Throw
<1>3. ASSUME NEW x \in Pays \cup Sweepers, NEW r, run' = [run EXCEPT ![x] = r] PROVE x = p /\ r = run'[p]
  BY <1>1, <1>3
<1>4. ASSUME NEW x \in Pays \cup Sweepers,
             NEW st \in Stages \ {"swapping"} PROVE ~Reach(x, st) /\ ~Become(x, At(st))
  <2>1. At(st).at = st
    BY MadeAt
  <2>2. ASSUME Reach(x, st) PROVE FALSE
    <3> DEFINE r == [run[x] EXCEPT !.at = st]
    <3>1. run' = [run EXCEPT ![x] = r] /\ r.at = st
      <4>1. st \in Stages
        OBVIOUS
      <4> QED BY ONLY <1>1, <2>2, <4>1, Reached
    <3> HIDE DEF r
    <3> QED BY <1>3, <3>1
  <2> QED BY <1>3, <2>1, <2>2 DEF Become
<1>5. ~UNCHANGED run
  OBVIOUS
<1>6. {"queued", "first", "rejected", "resolved", "signing", "sent", "answered", "swapped", "unswapped",
       "withdrew", "fresh", "sweep", "deposited", "idle"} \subseteq Stages \ {"swapping"}
  BY DEF Stages, Reading
<1>7. ASSUME NEW x \in Pays PROVE ~Pay(x)
  <2>1. [At("queued") EXCEPT !.prev = tail].at = "queued"
    BY DEF At
  <2> QED BY <1>3, <2>1 DEF Pay, Become
<1>8. ASSUME NEW x \in Pays
      PROVE  /\ ~Start(x) /\ ~Release(x) /\ ~WithdrawLands(x) /\ ~WithdrawReturns(x) /\ ~WithdrawThrows(x)
             /\ ~SwapLands(x) /\ ~SwapReturns(x) /\ ~SwapThrows(x)
  BY <1>2, <1>4, <1>5, <1>6 DEF Start, Release, WithdrawLands, WithdrawReturns, WithdrawThrows,
                                SwapLands, SwapReturns, SwapThrows
<1>9. ASSUME NEW x \in Pays
      PROVE ~Send(x) /\ ~SendFails(x) /\ ~Facilitator(x) /\ ~Response(x) /\ ~FetchThrows(x) /\ ~LooseSettles(x)
  BY <1>2, <1>4, <1>5, <1>6 DEF Send, SendFails, Facilitator, Response, FetchThrows, LooseSettles
<1>10. ASSUME NEW x \in Sweepers PROVE ~Sweep(x) /\ ~DepositLands(x) /\ ~SweepEnds(x)
  BY <1>4, <1>6 DEF Sweep, DepositLands, SweepEnds
<1>11. ASSUME NEW x \in Pays \cup Sweepers PROVE ~ReadAsk(x) /\ ~ReadFails(x)
  BY <1>2, <1>5 DEF ReadAsk, ReadFails
<1>12. ~Tick /\ ~UNCHANGED vars
  BY <1>5 DEF Tick, vars
<1>13. ASSUME NEW h \in Nat, NEW d, run'[p] = AfterRead(p, h, d), bal <= h,
              run[p].at \in {"first", "rescue", "fresh"}
       PROVE  bal + run'[p].amt <= Need[p]
  <2>1. run'[p].amt = Need[p] - h
    BY <1>1, <1>13, ReadGoes
  <2> QED BY <1>1, <1>13, <2>1
<1>14. CASE \E x \in Pays \cup Sweepers : ReadHit(x)
  <2>1. ReadHit(p) /\ run'[p] = AfterRead(p, cache.have, cache.asOf)
    BY <1>3, <1>14 DEF ReadHit, Become
  <2>2. run[p].at \in {"first", "rescue", "fresh"} /\ Fresh /\ lost = 0 /\ cache.have \in Nat
    BY <1>1, <2>1 DEF ReadHit, counters, Entries
  <2>3. CASE treasury
    <3>1. run[p].at # "fresh" /\ ~(cache.have < Need[p]) /\ ~(cache.have >= Need[p])
      BY <1>1, <2>1, <2>2, <2>3, ReadGoes DEF ReadHit
    <3> QED BY <1>1, <2>1, <2>2, <3>1
  <2>4. CASE ~treasury
    <3>1. \A q \in Pays : run[q].at # "swapped"
      <4> SUFFICES ASSUME NEW q \in Pays, run[q].at = "swapped" PROVE FALSE
        OBVIOUS
      <4>1. InSection(p) /\ InSection(q)
        BY <2>2 DEF InSection
      <4> QED BY <2>2, <4>1, AloneInSection DEF BuyerInv
    <3>2. bal <= cache.have
      BY <2>2, <2>4, <3>1 DEF BuyerInv, CacheHolds
    <3> QED BY <1>13, <2>1, <2>2, <3>2
  <2> QED BY <2>3, <2>4
<1>15. CASE \E x \in Pays \cup Sweepers : ReadAnswer(x)
  <2>1. ReadAnswer(p) /\ run'[p] = AfterRead(p, asked[p].have, asked[p].asOf)
    BY <1>3, <1>15 DEF ReadAnswer, Become
  <2>2. asked[p] # None
    BY <2>1 DEF ReadAnswer
  <2>3. run[p].at \in {"first", "rescue", "fresh"} /\ asked[p].have \in Nat
    BY <1>1, <2>2, PaysAsk DEF Entries
  <2>4. bal <= asked[p].have
    BY <2>2 DEF BuyerInv, AnswersHold
  <2> QED BY <1>13, <2>1, <2>3, <2>4
<1> QED BY <1>7, <1>8, <1>9, <1>10, <1>11, <1>12, <1>14, <1>15 DEF Next

\* For any number of pays, any needs and balances: no step starts a swap for more
\* than the pay is short of, for the mutex lets one pay at a time read, swap and pay
\* and every later one reads what the swap left, unless a withdrawal or a swap landed
\* and then threw (adapters/xrpl.ts:58).
THEOREM SwapsAlwaysOnlyShortage == Spec => SwapsOnlyShortage
<1>1. BuyerInv /\ [Next]_vars =>
      [\A p \in Pays :
        lost' = 0 /\ run[p].at # "swapping" /\ run'[p].at = "swapping" =>
            bal + run'[p].amt <= Need[p]]_vars
  BY SwapStarts
<1> QED BY <1>1, BuyerInvariant, PTL DEF Spec, SwapsOnlyShortage

-------------------------------------------------------------------------------
(* The trust line: one work at a time, whatever the callers bring.          *)

\* A caller who read that there is no line, and so may send a TrustSet.
SawNone(c) == calls[c] = [at |-> "read", seen |-> FALSE]

\* One caller works, and what is cached or answered ok is on the ledger.
LineInv ==
    /\ line \in BOOLEAN /\ sent \in Nat /\ drops \in Nat /\ tecs \in Nat
    /\ lineNow \in Nat /\ lock \in Callers \cup {NoCaller} /\ calls \in [Callers -> Calls]
    /\ known = Empty \/ known \in [answer : {"ok", "missing"}, until : Nat]
    /\ \A c \in Callers : Working(c) => lock = c
    /\ \A c \in Callers : calls[c].at = "read" /\ calls[c].seen => line
    /\ \A c \in Callers : calls[c].at = "validated" => line \/ tecs > 0
    /\ sent <= 1 + drops + tecs
    /\ ~line /\ (\A c \in Callers : calls[c].at # "submitted") => sent <= drops + tecs
    /\ \A c \in Callers : SawNone(c) => sent <= drops + tecs
    /\ OkMeansLine

\* A call is one record of each stage.
LEMMA CallStages ==
  /\ Idle \in Calls /\ \A d \in Callers : [at |-> "waiting", on |-> d] \in Calls
  /\ \A s \in {"lines", "submitted", "validated"} : [at |-> s] \in Calls
  /\ \A b \in BOOLEAN : [at |-> "read", seen |-> b] \in Calls
  /\ \A a \in Answers : [at |-> "done", answer |-> a] \in Calls
BY DEF Calls

\* One caller goes on, and the line and the counters do not.
LEMMA LineCallGoes ==
  ASSUME LineInv, NEW c \in Callers, NEW w \in Calls, calls' = [calls EXCEPT ![c] = w],
         UNCHANGED <<ledger, known, lineCounters, sent>>,
         w.at \notin {"read", "submitted", "validated"}, calls[c].at # "submitted",
         w = [at |-> "done", answer |-> "ok"] => known.answer = "ok",
         lock' = lock \/ (lock = NoCaller /\ lock' = c),
         w.at = "lines" => lock' = c
  PROVE  LineInv'
<1>1. /\ calls' \in [Callers -> Calls] /\ calls'[c] = w /\ \A d \in Callers : d # c => calls'[d] = calls[d]
  BY DEF LineInv
<1>2. line' = line /\ known' = known /\ drops' = drops /\ tecs' = tecs /\ sent' = sent
  BY DEF ledger, lineCounters
<1>8. lineNow' = lineNow /\ lock' \in Callers \cup {NoCaller}
  BY DEF lineCounters, LineInv
<1>3. \A d \in Callers : Working(d)' => lock' = d
  <2> SUFFICES ASSUME NEW d \in Callers, Working(d)' PROVE lock' = d
    OBVIOUS
  <2>1. CASE d = c
    BY <1>1, <2>1 DEF Working
  <2>2. CASE d # c
    <3>1. lock = d /\ lock # NoCaller
      BY <1>1, <2>2, TrustlineAssumption DEF LineInv, Working
    <3> QED BY <3>1
  <2> QED BY <2>1, <2>2
<1>4. \A d \in Callers : calls'[d].at \in {"read", "submitted", "validated"} => calls'[d] = calls[d]
  BY <1>1
<1>5. \A d \in Callers : calls[d].at = "submitted" => calls'[d].at = "submitted"
  BY <1>1
<1>6. \A d \in Callers : SawNone(d)' => SawNone(d)
  BY <1>1 DEF SawNone
<1>7. OkMeansLine'
  BY <1>1, <1>2 DEF LineInv, OkMeansLine
<1> QED BY <1>1, <1>2, <1>3, <1>4, <1>5, <1>6, <1>7, <1>8 DEF LineInv

\* The work settles: nobody works any more.
LEMMA LineSettles ==
  ASSUME LineInv, NEW c \in Callers, Working(c), NEW a \in Answers, Settle(c, a),
         line' = line, tecs' = tecs, sent' = sent, drops' \in {drops, drops + 1},
         calls[c].at = "submitted" => drops' = drops + 1,
         a = "ok" => line \/ tecs > 0, known' = known \/ (a # "threw" /\ Remember(a)), lineNow' = lineNow
  PROVE  LineInv'
<1>1. /\ line \in BOOLEAN /\ sent \in Nat /\ drops \in Nat /\ tecs \in Nat /\ drops' \in Nat /\ drops' >= drops
      /\ calls \in [Callers -> Calls] /\ lock = c
  BY DEF LineInv
<1>2. calls' \in [Callers -> Calls]
  BY <1>1, CallStages DEF Settle
<1>3. \A d \in Callers : calls'[d] = [at |-> "done", answer |-> a] \/ (d # c /\ calls'[d] = calls[d])
  BY DEF Settle
<1>4. \A d \in Callers : d # c => ~Working(d)
  BY <1>1 DEF LineInv
<1>5. \A d \in Callers : ~Working(d)' /\ calls'[d].at \notin {"read", "submitted", "validated"}
  BY <1>3, <1>4 DEF Working
<1>6. \A d \in Callers : ~SawNone(d)'
  BY <1>5 DEF SawNone
<1>7. sent' <= 1 + drops' + tecs' /\ (~line' => sent' <= drops' + tecs')
  <2>1. CASE calls[c].at = "submitted"
    BY <1>1, <2>1 DEF LineInv
  <2>2. CASE calls[c].at # "submitted"
    <3>1. \A d \in Callers : calls[d].at # "submitted"
      BY <1>4, <2>2 DEF Working
    <3>2. sent <= 1 + drops + tecs /\ (~line => sent <= drops + tecs)
      BY <3>1 DEF LineInv
    <3>3. sent \in Nat /\ drops \in Nat /\ tecs \in Nat
      BY <1>1
    <3>4. ASSUME NEW f \in Nat, f >= drops PROVE sent <= 1 + f + tecs /\ (~line => sent <= f + tecs)
      BY ONLY <3>2, <3>3, <3>4
    <3>5. PICK e \in Nat : drops' = e /\ e >= drops
      BY <1>1
    <3>6. sent <= 1 + e + tecs /\ (~line => sent <= e + tecs)
      BY <3>4, <3>5
    <3>7. sent' = sent /\ tecs' = tecs /\ line' = line
      OBVIOUS
    <3> QED BY ONLY <3>3, <3>5, <3>6, <3>7
  <2> QED BY <2>1, <2>2
<1>9. lineNow' \in Nat /\ (known' = Empty \/ known' \in [answer : {"ok", "missing"}, until : Nat])
  BY TrustlineAssumption DEF LineInv, Remember, Answers
<1>10. lock' \in Callers \cup {NoCaller}
  BY DEF Settle, LineInv
<1>8. OkMeansLine'
  <2>1. known'.answer = "ok" => a = "ok" \/ known.answer = "ok"
    BY DEF Remember
  <2>2. \A d \in Callers : calls'[d] = [at |-> "done", answer |-> "ok"] => a = "ok" \/ calls[d] = [at |-> "done", answer |-> "ok"]
    BY <1>3
  <2> QED BY <2>1, <2>2 DEF LineInv, OkMeansLine
<1> QED BY <1>1, <1>2, <1>5, <1>6, <1>7, <1>8, <1>9, <1>10 DEF LineInv

\* Nobody moves; the line may come, and the cache may go.
LEMMA LineRests ==
  ASSUME LineInv, UNCHANGED <<calls, lock, sent, drops, tecs>>, lineNow' \in {lineNow, lineNow + 1},
         line' \in {line, TRUE}, known' \in {known, Empty}
  PROVE  LineInv'
<1>1. line' \in BOOLEAN /\ (line => line')
  BY DEF LineInv
<1>2. known'.answer = "ok" => known.answer = "ok"
  BY DEF Empty
<1>3. OkMeansLine'
  BY <1>1, <1>2 DEF LineInv, OkMeansLine
<1> QED BY <1>1, <1>3 DEF LineInv, Working, SawNone

\* The worker goes on to ask, to submit and to see its TrustSet validated.
LEMMA LineWorks ==
  ASSUME LineInv, NEW c \in Callers, Working(c), NEW w \in Calls, calls' = [calls EXCEPT ![c] = w],
         w.at \in {"read", "submitted", "validated"}, lock' = lock, known' = known,
         drops' = drops, lineNow' = lineNow, line' \in BOOLEAN, line => line', tecs' \in Nat,
         tecs' >= tecs, sent' \in Nat,
         w.at = "read" /\ w.seen => line',
         w.at = "validated" => line' \/ tecs' > 0,
         sent' <= 1 + drops + tecs',
         ~line' /\ w.at # "submitted" => sent' <= drops + tecs',
         w = [at |-> "read", seen |-> FALSE] => sent' <= drops + tecs'
  PROVE  LineInv'
<1>1. /\ sent \in Nat /\ drops \in Nat /\ tecs \in Nat /\ calls' \in [Callers -> Calls] /\ lock = c
      /\ calls'[c] = w /\ \A d \in Callers : d # c => calls'[d] = calls[d]
  BY DEF LineInv
<1>2. \A d \in Callers : d # c => ~Working(d)
  BY <1>1 DEF LineInv
<1>3. \A d \in Callers : d # c => ~Working(d)' /\ calls'[d].at \notin {"read", "submitted", "validated"} /\ ~SawNone(d)'
  BY <1>1, <1>2 DEF Working, SawNone
<1>4. OkMeansLine'
  BY <1>1 DEF LineInv, OkMeansLine
<1>5. SawNone(c)' => sent' <= drops + tecs'
  BY <1>1 DEF SawNone
<1> QED BY <1>1, <1>3, <1>4, <1>5 DEF LineInv

\* At the start nobody works.
LEMMA LineInitially == LineInit => LineInv
BY CallStages DEF LineInit, LineInv, Idle, Working, SawNone, OkMeansLine, Empty

\* Every step of the callers, the ledger and the clock keeps it.
LEMMA LineStep == LineInv /\ [LineNext]_lineVars => LineInv'
<1> SUFFICES ASSUME LineInv, [LineNext]_lineVars PROVE LineInv'
  OBVIOUS
<1>1. line \in BOOLEAN /\ sent \in Nat /\ drops \in Nat /\ tecs \in Nat
  BY DEF LineInv
<1>2. ASSUME NEW c \in Callers, Hit(c) PROVE LineInv'
  <2> DEFINE w == [at |-> "done", answer |-> known.answer]
  <2>1. known.answer \in Answers
    BY <1>2 DEF Hit, LineFresh, LineInv, Empty, Answers
  <2>2. w \in Calls /\ w.at = "done" /\ w.answer = known.answer
    BY <2>1, CallStages
  <2>3. calls[c].at = "idle" /\ calls' = [calls EXCEPT ![c] = w]
    BY <1>2 DEF Hit, Idle
  <2>4. w = [at |-> "done", answer |-> "ok"] => known.answer = "ok"
    BY <2>2
  <2> HIDE DEF w
  <2> QED BY <1>2, <2>2, <2>3, <2>4, LineCallGoes DEF Hit
<1>3. ASSUME NEW c \in Callers, Join(c) PROVE LineInv'
  <2> DEFINE w == [at |-> "waiting", on |-> lock]
  <2>1. lock \in Callers
    BY <1>3 DEF Join, LineInv
  <2>2. w \in Calls /\ w.at = "waiting" /\ w # [at |-> "done", answer |-> "ok"]
    BY <2>1, CallStages
  <2>3. calls[c].at = "idle" /\ calls' = [calls EXCEPT ![c] = w]
    BY <1>3 DEF Join, Idle
  <2> HIDE DEF w
  <2> QED BY <1>3, <2>2, <2>3, LineCallGoes DEF Join
<1>4. ASSUME NEW c \in Callers, Begin(c) PROVE LineInv'
  <2>1. [at |-> "lines"] \in Calls
    BY CallStages
  <2>2. calls[c].at = "idle" /\ [at |-> "lines"].at = "lines" /\ [at |-> "lines"] # [at |-> "done", answer |-> "ok"]
    BY <1>4 DEF Begin, Idle
  <2> QED BY <1>4, <2>1, <2>2, LineCallGoes DEF Begin
<1>5. ASSUME NEW c \in Callers, ReadLines(c) PROVE LineInv'
  <2> DEFINE w == [at |-> "read", seen |-> line]
  <2>1. w \in Calls /\ w.at = "read" /\ w.seen = line
    BY <1>1, CallStages
  <2>2. w = [at |-> "read", seen |-> FALSE] => ~line
    OBVIOUS
  <2>3. Working(c) /\ calls[c].at = "lines" /\ calls' = [calls EXCEPT ![c] = w] /\ lock' = lock /\ known' = known
        /\ line' = line /\ drops' = drops /\ tecs' = tecs /\ sent' = sent
    BY <1>5 DEF ReadLines, Working, ledger, lineCounters
  <2>4. ~line => sent <= drops + tecs
    <3>1. \A d \in Callers : Working(d) => d = c
      BY <2>3 DEF LineInv
    <3>2. \A d \in Callers : calls[d].at # "submitted"
      BY <2>3, <3>1 DEF Working
    <3> QED BY <3>2 DEF LineInv
  <2>5. sent <= 1 + drops + tecs
    BY DEF LineInv
  <2> HIDE DEF w
  <2>6. tecs' \in Nat /\ tecs' >= tecs /\ sent' \in Nat /\ sent' <= 1 + drops + tecs' /\ (~line' => sent' <= drops + tecs')
    BY <1>1, <2>3, <2>4, <2>5
  <2>7. lineNow' = lineNow
    BY <1>5 DEF ReadLines, lineCounters
  <2> QED BY <1>1, <2>1, <2>2, <2>3, <2>6, <2>7, LineWorks
<1>6. ASSUME NEW c \in Callers, LinesFail(c) \/ CannotSign(c) \/ Missing(c) PROVE LineInv'
  <2>1. Working(c) /\ calls[c].at # "submitted" /\ "threw" \in Answers /\ "missing" \in Answers
    BY <1>6 DEF LinesFail, CannotSign, Missing, Working, Answers
  <2>2. line' = line /\ tecs' = tecs /\ sent' = sent /\ drops' = drops /\ lineNow' = lineNow
    BY <1>6 DEF LinesFail, CannotSign, Missing, ledger, lineCounters
  <2> QED BY <1>6, <2>1, <2>2, LineSettles DEF LinesFail, CannotSign, Missing
<1>7. ASSUME NEW c \in Callers, Exists(c) \/ Created(c) PROVE LineInv'
  <2>1. Working(c) /\ calls[c].at # "submitted" /\ "ok" \in Answers /\ (line \/ tecs > 0)
    BY <1>7 DEF Exists, Created, Working, Answers, LineInv
  <2>2. line' = line /\ tecs' = tecs /\ sent' = sent /\ drops' = drops /\ lineNow' = lineNow
    BY <1>7 DEF Exists, Created, ledger, lineCounters
  <2> QED BY <1>7, <2>1, <2>2, LineSettles DEF Exists, Created
<1>8. ASSUME NEW c \in Callers, LoseAnswer(c) PROVE LineInv'
  <2>1. Working(c) /\ "threw" \in Answers
    BY <1>8 DEF LoseAnswer, Working, Answers
  <2> QED BY <1>8, <2>1, LineSettles DEF LoseAnswer
<1>9. ASSUME NEW c \in Callers, SubmitTrustSet(c) PROVE LineInv'
  <2> DEFINE w == [at |-> "submitted"]
  <2>1. w \in Calls /\ w.at = "submitted"
    BY CallStages
  <2>2. Working(c) /\ SawNone(c) /\ calls' = [calls EXCEPT ![c] = w] /\ lock' = lock /\ known' = known
        /\ line' = line /\ drops' = drops /\ tecs' = tecs /\ sent' = sent + 1
    BY <1>9 DEF SubmitTrustSet, Working, SawNone, ledger, lineCounters
  <2>3. sent <= drops + tecs
    BY <2>2 DEF LineInv
  <2>4. w # [at |-> "read", seen |-> FALSE]
    BY <2>1
  <2> HIDE DEF w
  <2>5. tecs' \in Nat /\ tecs' >= tecs /\ sent' \in Nat /\ sent' <= 1 + drops + tecs'
    BY <1>1, <2>2, <2>3
  <2>6. lineNow' = lineNow
    BY <1>9 DEF SubmitTrustSet, lineCounters
  <2> QED BY <1>1, <2>1, <2>2, <2>4, <2>5, <2>6, LineWorks
<1>10. ASSUME NEW c \in Callers, Return(c) PROVE LineInv'
  <2>1. Idle \in Calls /\ Idle.at = "idle" /\ Idle # [at |-> "done", answer |-> "ok"]
    BY CallStages DEF Idle
  <2> QED BY <1>10, <2>1, LineCallGoes DEF Return
<1>11. ASSUME NEW c \in Callers, Validate(c) PROVE LineInv'
  <2> DEFINE w == [at |-> "validated"]
  <2>1. w \in Calls /\ w.at = "validated"
    BY CallStages
  <2>2. Working(c) /\ calls' = [calls EXCEPT ![c] = w] /\ lock' = lock /\ known' = known
        /\ drops' = drops /\ sent' = sent /\ ((line' /\ tecs' = tecs) \/ (line' = line /\ tecs' = tecs + 1))
    BY <1>11 DEF Validate, Working
  <2>3. sent <= 1 + drops + tecs /\ line' \in BOOLEAN
    BY <1>11 DEF LineInv, Validate
  <2>4. w # [at |-> "read", seen |-> FALSE]
    BY <2>1
  <2> HIDE DEF w
  <2>5. tecs' \in Nat /\ tecs' >= tecs /\ sent' \in Nat /\ sent' <= 1 + drops + tecs' /\ (line' \/ tecs' > 0)
        /\ (~line' => sent' <= drops + tecs') /\ (line => line')
    BY <1>1, <2>2, <2>3
  <2>6. lineNow' = lineNow
    BY <1>11 DEF Validate
  <2> QED BY <1>1, <2>1, <2>2, <2>3, <2>4, <2>5, <2>6, LineWorks
<1>12. CASE ClearCache \/ LooseEnds \/ CreateByHand \/ LineTick \/ UNCHANGED lineVars
  BY <1>12, LineRests DEF ClearCache, LooseEnds, CreateByHand, LineTick, lineVars, ledger, lineCounters
<1> QED BY <1>2, <1>3, <1>4, <1>5, <1>6, <1>7, <1>8, <1>9, <1>10, <1>11, <1>12 DEF LineNext

\* For any number of callers, with the owner's signer, another wallet or none: the
\* preflight answers ok only for a line that is there, and one TrustSet at most makes
\* it (xrpl/payments.ts:31,87).
THEOREM LineAlwaysThere == LineSpec => [](OkMeansLine /\ TrustSetOnce)
<1>1. LineInv => OkMeansLine /\ TrustSetOnce
  BY DEF LineInv, TrustSetOnce
<1> QED BY <1>1, LineInitially, LineStep, PTL DEF LineSpec

-------------------------------------------------------------------------------
(* The swap: what it may cost.                                              *)

\* A quote of the market.
Quotes == [drops : Nat, out : Nat, until : Nat]
\* Where a swap can be.
SwapStages == {"rest", "pricing", "quoting", "quoted", "sent", "swapped", "refused", "dry"}

\* A swap that is under way carries the cap of its own quote and slippage.
SwapInv ==
    /\ price \in [1..2 -> Prices] /\ hour \in Nat
    /\ swap \in [at : SwapStages, out : Nat, bps : Nat, quote : Quotes, cap : Nat, cost : Nat]
    /\ swap.at \in {"sent", "swapped", "refused"} => swap.cap = PadSendMaxDrops(swap.quote.drops, swap.bps)
    /\ swap.at = "swapped" => swap.cost <= swap.cap
    /\ swap.at = "refused" => ~(swap.cost <= swap.cap)

\* A product of naturals is one.
LEMMA Product == \A m, n \in Nat : m * n \in Nat
OBVIOUS

\* The cheapest of what is offered is a price.
LEMMA CheapestOffer ==
  ASSUME SwapInv, NEW n \in Nat, Offered(n) # {}
  PROVE  Cheapest(Offered(n)) \in Nat
<1>1. price[1] \in Nat /\ price[2] \in Nat /\ DOMAIN price = {1, 2}
  <2>1. Prices \subseteq Nat
    BY FundsAssumption
  <2>2. price \in [1..2 -> Prices] /\ 1 \in 1..2 /\ 2 \in 1..2 /\ 1..2 = {1, 2}
    BY DEF SwapInv
  <2> QED BY <2>1, <2>2
<1> DEFINE a == price[1] * n
           b == price[2] * n
<1>2. a \in Nat /\ b \in Nat
  BY <1>1, Product
<1>3. \A x \in Offered(n) : x = a \/ x = b
  BY <1>1 DEF Offered
<1>4. \E c \in Offered(n) : \A d \in Offered(n) : c <= d
  <2>1. PICK x \in Offered(n) : TRUE
    OBVIOUS
  <2> HIDE DEF a, b
  <2>2. CASE a \in Offered(n) /\ (b \in Offered(n) => a <= b)
    BY <1>2, <1>3, <2>2
  <2>3. CASE b \in Offered(n) /\ (a \in Offered(n) => b <= a)
    BY <1>2, <1>3, <2>3
  <2> QED BY <1>2, <1>3, <2>1, <2>2, <2>3
<1>5. Cheapest(Offered(n)) \in Offered(n)
  BY <1>4 DEF Cheapest
<1> QED BY <1>2, <1>3, <1>5

\* The cap on a swap: the product, rounded up to a whole drop.
LEMMA CapRounds ==
  ASSUME NEW P \in Nat, NEW c, c = (P + 9999) \div 10000
  PROVE  c \in Nat /\ P <= c * 10000 /\ c * 10000 < P + 10000
OBVIOUS

\* At the start nothing is swapped.
LEMMA SwapInitially == SwapInit => SwapInv
BY DEF SwapInit, SwapInv, NoSwap, NoQuote, Quotes, SwapStages

\* A swap is submitted with the cap that its quote and slippage make.
LEMMA SubmitsCapped ==
  ASSUME SwapInv, NEW n \in Nat, NEW bps \in Nat, swap' = Submitted(swap, n, bps), UNCHANGED <<price, hour>>
  PROVE  SwapInv'
<1>1. swap.quote.drops \in Nat /\ swap.quote \in Quotes
  BY DEF SwapInv, Quotes
<1> DEFINE cap == PadSendMaxDrops(swap.quote.drops, bps)
<1>2. cap \in Nat
  <2> DEFINE P == swap.quote.drops * (10000 + bps)
  <2>1. P \in Nat
    <3> DEFINE m == swap.quote.drops
               f == 10000 + bps
    <3>1. m \in Nat /\ f \in Nat
      BY <1>1
    <3> HIDE DEF m, f
    <3>2. m * f \in Nat
      BY <3>1, Product
    <3> QED BY <3>2 DEF m, f
  <2>2. cap = (P + 9999) \div 10000
    BY DEF PadSendMaxDrops
  <2> HIDE DEF P, cap
  <2> QED BY <2>1, <2>2, CapRounds
<1>3. swap' = [swap EXCEPT !.at = "sent", !.out = n, !.bps = bps, !.cap = cap]
  BY DEF Submitted
<1> HIDE DEF cap
<1>4. /\ swap' \in [at : SwapStages, out : Nat, bps : Nat, quote : Quotes, cap : Nat, cost : Nat]
      /\ swap'.at = "sent" /\ swap'.quote = swap.quote /\ swap'.bps = bps /\ swap'.cap = cap
  BY <1>2, <1>3 DEF SwapInv, SwapStages
<1>5. price' \in [1..2 -> Prices] /\ hour' \in Nat
  BY DEF SwapInv
<1> QED BY <1>4, <1>5 DEF SwapInv, cap

\* Every step of the swap, the market and the clock keeps it.
LEMMA SwapStep == SwapInv /\ [SwapNext]_swapVars => SwapInv'
<1> SUFFICES ASSUME SwapInv, [SwapNext]_swapVars PROVE SwapInv'
  OBVIOUS
<1>1. Outs \subseteq Nat /\ Bps \subseteq Nat /\ QuoteTtl \in Nat
  BY FundsAssumption
<1>2. /\ swap \in [at : SwapStages, out : Nat, bps : Nat, quote : Quotes, cap : Nat, cost : Nat]
      /\ hour \in Nat /\ swap.quote \in Quotes /\ swap.out \in Nat /\ swap.bps \in Nat
  BY DEF SwapInv
<1>3. CASE swap' = NoSwap /\ UNCHANGED <<price, hour>>
  BY <1>3 DEF SwapInv, NoSwap, NoQuote, Quotes, SwapStages
<1>4. CASE AskQuote
  <2>1. PICK n \in Outs, bps \in Bps, stage \in {"pricing", "quoting"} :
          IF Offered(n) = {} THEN swap' = NoSwap
          ELSE swap' = [NoSwap EXCEPT !.at = stage, !.out = n, !.bps = bps,
                          !.quote = [drops |-> Cheapest(Offered(n)), out |-> n, until |-> 0]]
    BY <1>4 DEF AskQuote
  <2>2. UNCHANGED <<price, hour>> /\ n \in Nat /\ bps \in Nat
    BY <1>1, <1>4 DEF AskQuote
  <2>3. CASE Offered(n) # {}
    <3> DEFINE q == [drops |-> Cheapest(Offered(n)), out |-> n, until |-> 0]
    <3>1. q \in Quotes
      BY <2>2, <2>3, CheapestOffer DEF Quotes
    <3>2. swap' = [NoSwap EXCEPT !.at = stage, !.out = n, !.bps = bps, !.quote = q]
      BY <2>1, <2>3
    <3> HIDE DEF q
    <3>3. /\ swap' \in [at : SwapStages, out : Nat, bps : Nat, quote : Quotes, cap : Nat, cost : Nat]
          /\ swap'.at = stage
      BY <2>2, <3>1, <3>2 DEF NoSwap, SwapStages
    <3> QED BY <2>2, <3>3 DEF SwapInv
  <2> QED BY <1>3, <2>1, <2>2, <2>3
<1>5. CASE QuoteArrives
  <2>1. CASE swap' = Submitted(swap, swap.out, swap.bps)
    BY <1>2, <1>5, <2>1, SubmitsCapped DEF QuoteArrives
  <2>2. CASE swap' = [swap EXCEPT !.at = "quoted", !.quote.until = hour + QuoteTtl]
    <3> DEFINE t == hour + QuoteTtl
               q == [swap.quote EXCEPT !.until = t]
    <3>1. t \in Nat
      BY <1>1, <1>2
    <3> HIDE DEF t
    <3>2. q \in Quotes
      BY <1>2, <3>1 DEF Quotes
    <3>3. swap' = [swap EXCEPT !.at = "quoted", !.quote = q]
      BY <1>2, <2>2 DEF t
    <3> HIDE DEF q
    <3>4. /\ swap' \in [at : SwapStages, out : Nat, bps : Nat, quote : Quotes, cap : Nat, cost : Nat]
          /\ swap'.at = "quoted"
      BY <1>2, <3>2, <3>3 DEF SwapStages
    <3> QED BY <1>5, <3>4 DEF SwapInv, QuoteArrives
  <2> QED BY <1>5, <2>1, <2>2 DEF QuoteArrives
<1>6. CASE SwapQuoted
  BY <1>1, <1>3, <1>6, SubmitsCapped DEF SwapQuoted
<1>7. CASE SwapSettles
  <2> DEFINE S == Offered(swap.out)
  <2>1. swap.at = "sent" /\ UNCHANGED <<price, hour>>
    BY <1>7 DEF SwapSettles
  <2>2. CASE S = {}
    <3>1. swap' = [swap EXCEPT !.at = "dry"]
      BY <1>7, <2>2 DEF SwapSettles
    <3>2. /\ swap' \in [at : SwapStages, out : Nat, bps : Nat, quote : Quotes, cap : Nat, cost : Nat]
          /\ swap'.at = "dry"
      BY <1>2, <3>1 DEF SwapStages
    <3> QED BY <2>1, <3>2 DEF SwapInv
  <2>3. CASE S # {}
    <3> DEFINE x == Cheapest(S)
               stage == IF x <= swap.cap THEN "swapped" ELSE "refused"
    <3>1. x \in Nat
      BY <1>2, <2>3, CheapestOffer
    <3>2. swap' = [swap EXCEPT !.cost = x, !.at = stage]
      BY <1>7, <2>3 DEF SwapSettles
    <3> HIDE DEF x
    <3>3. stage \in {"swapped", "refused"} /\ (stage = "swapped" <=> x <= swap.cap)
      OBVIOUS
    <3> HIDE DEF stage
    <3>4. /\ swap' \in [at : SwapStages, out : Nat, bps : Nat, quote : Quotes, cap : Nat, cost : Nat]
          /\ swap'.at = stage /\ swap'.cost = x /\ swap'.cap = swap.cap /\ swap'.quote = swap.quote /\ swap'.bps = swap.bps
      BY <1>2, <3>1, <3>2, <3>3 DEF SwapStages
    <3>5. swap.cap = PadSendMaxDrops(swap.quote.drops, swap.bps)
      BY <2>1 DEF SwapInv
    <3> QED BY <2>1, <3>3, <3>4, <3>5 DEF SwapInv
  <2> QED BY <2>2, <2>3
<1>8. CASE SwapEnds
  BY <1>3, <1>8 DEF SwapEnds
<1>9. CASE MarketMoves \/ HourPasses \/ UNCHANGED swapVars
  <2>1. price' \in [1..2 -> Prices] /\ hour' \in Nat /\ swap' = swap
    BY <1>2, <1>9 DEF MarketMoves, HourPasses, swapVars, SwapInv
  <2> QED BY <2>1 DEF SwapInv
<1> QED BY <1>4, <1>5, <1>6, <1>7, <1>8, <1>9 DEF SwapNext

\* For any market of two paths, any amounts and slippages: a swap of what was quoted
\* is refused only when the market asks for more than the quote and the slippage, and
\* costs at most a drop over that (utils.ts:147, swap.ts:113).
THEOREM SwapAlwaysWithinSlippage == SwapSpec => []SwapWithinSlippage
<1>1. SwapInv => SwapWithinSlippage
  <2> SUFFICES ASSUME SwapInv PROVE SwapWithinSlippage
    OBVIOUS
  <2> DEFINE P == swap.quote.drops * (10000 + swap.bps)
             c == swap.cap
             x == swap.cost
  <2>1. swap.quote.drops \in Nat /\ swap.bps \in Nat /\ c \in Nat /\ x \in Nat
    BY DEF SwapInv, Quotes
  <2>2. P \in Nat
    BY <2>1, Product
  <2>3. swap.at \in {"swapped", "refused"} => c = (P + 9999) \div 10000
    BY DEF SwapInv, PadSendMaxDrops
  <2>4. (swap.at = "swapped" => x <= c) /\ (swap.at = "refused" => ~(x <= c))
    BY DEF SwapInv
  <2> HIDE DEF P, c, x
  <2>5. swap.at \in {"swapped", "refused"} => P <= c * 10000 /\ c * 10000 < P + 10000
    BY <2>2, <2>3, CapRounds
  <2>6. x <= c => x * 10000 <= c * 10000
    BY <2>1
  <2>7. ~(x <= c) => x * 10000 >= c * 10000 + 10000
    BY <2>1
  <2>8. (swap.at = "swapped" => x * 10000 < P + 10000) /\ (swap.at = "refused" => x * 10000 > P)
    BY <2>1, <2>2, <2>4, <2>5, <2>6, <2>7
  <2> QED BY <2>8 DEF SwapWithinSlippage, P, x
<1> QED BY <1>1, SwapInitially, SwapStep, PTL DEF SwapSpec

-------------------------------------------------------------------------------
(* The challenge.                                                           *)

\* What is in hand was read as ReadOffer reads it.
OfferInv ==
    /\ network \in Networks
    /\ \/ offer = [of |-> NoId, as |-> "none", by |-> NoId, in |-> "absent"]
       \/ \E c \in Offers, by \in Routes \cup {NoId} :
            /\ by # NoId => Serves(by) /\ c = Challenge(by)
            /\ offer = [of |-> c, as |-> Outcome(c), by |-> by,
                        in |-> IF Outcome(c) = "signed" THEN c.issuer ELSE "absent"]

\* A payment is signed for the ledger its adapter is on, with the asset and the issuer
\* of its challenge, and a merchant and a buyer of this project on one ledger come to
\* a payment (adapters/xrpl.ts:203, middleware.ts:265, utils.ts:71).
THEOREM OfferAlwaysForItsLedger == OfferSpec => []SignedForItsLedger
<1>1. OfferInit => OfferInv
  BY DEF OfferInit, OfferInv
<1>2. OfferInv /\ [ReadOffer /\ UNCHANGED config]_<<config, offer>> => OfferInv'
  <2> SUFFICES ASSUME OfferInv, [ReadOffer /\ UNCHANGED config]_<<config, offer>> PROVE OfferInv'
    OBVIOUS
  <2>1. network' = network
    BY DEF config
  <2>2. CASE offer' = offer
    BY <2>1, <2>2 DEF OfferInv, Outcome
  <2>3. CASE ReadOffer
    BY <2>1, <2>3 DEF OfferInv, ReadOffer, Outcome
  <2> QED BY <2>2, <2>3
<1>3. OfferInv => SignedForItsLedger
  <2> SUFFICES ASSUME OfferInv PROVE SignedForItsLedger
    OBVIOUS
  <2>1. CASE offer = [of |-> NoId, as |-> "none", by |-> NoId, in |-> "absent"]
    BY <2>1 DEF SignedForItsLedger
  <2>2. ASSUME NEW c \in Offers, NEW by \in Routes \cup {NoId}, by # NoId => Serves(by) /\ c = Challenge(by),
               offer = [of |-> c, as |-> Outcome(c), by |-> by,
                        in |-> IF Outcome(c) = "signed" THEN c.issuer ELSE "absent"]
        PROVE SignedForItsLedger
    <3>1. offer.of = c /\ offer.as = Outcome(c) /\ offer.by = by
          /\ offer.in = IF Outcome(c) = "signed" THEN c.issuer ELSE "absent"
      BY <2>2
    <3>2. c.net \in {"xrpl:0", "xrpl:1", "xrpl:2", "elsewhere"} /\ network \in {"mainnet", "testnet"}
      BY DEF Offers, OfferInv, Networks
    <3>3. Outcome(c) = "signed" => c.asset = "RLUSD_HEX" /\ c.net # "elsewhere" /\ ParseCaip2(c.net) = network
      BY DEF Outcome, Detects, AssertRequirements
    <3>4. ASSUME by # NoId
          PROVE  /\ Outcome(c) = "signed" => by.asset # "XRP" /\ c.issuer = "registered"
                 /\ by.asset # "XRP" /\ ParseCaip2(c.net) = network => Outcome(c) = "signed"
      <4>1. by \in Routes /\ Serves(by) /\ c = Challenge(by)
        BY <2>2, <3>4
      <4>2. AssertRequirements(c)
        BY <4>1 DEF Serves
      <4>3. c.asset = (IF by.asset = "XRP" THEN "XRP" ELSE "RLUSD_HEX")
            /\ c.issuer = (IF by.asset = "XRP" THEN "absent" ELSE "registered")
        BY <4>1 DEF Challenge
      <4> QED BY <4>2, <4>3 DEF Outcome, Detects
    <3>5. ParseCaip2(c.net) = "mainnet" <=> c.net = "xrpl:0"
      BY DEF ParseCaip2
    <3>6. ParseCaip2(c.net) \in {"mainnet", "testnet"}
      BY DEF ParseCaip2
    <3>7. offer.as = "signed" =>
            /\ offer.of.asset = "RLUSD_HEX" /\ offer.in = offer.of.issuer
            /\ (offer.of.net = "xrpl:0" <=> network = "mainnet")
            /\ offer.of.net \in {"xrpl:0", "xrpl:1", "xrpl:2"}
      BY <3>1, <3>2, <3>3, <3>5
    <3>8. offer.by # NoId =>
            (offer.as = "signed" <=>
                offer.by.asset # "XRP" /\ ParseCaip2(offer.of.net) = network /\ offer.in = "registered")
      BY <3>1, <3>3, <3>4
    <3> QED BY <3>7, <3>8 DEF SignedForItsLedger
  <2> QED BY <2>1, <2>2 DEF OfferInv
<1> QED BY <1>1, <1>2, <1>3, PTL DEF OfferSpec

-------------------------------------------------------------------------------
(* The treasury's vault.                                                    *)

\* A call that may yet make a vault.
MayCreate ==
    {k \in Tasks : act[k].at \in {"checking", "creating"} \/ (act[k].at = "asking" /\ storedId = NoId)}

\* An id of a vault of the account, or of a VaultCreate that was refused.
Ids == Nat \cup {NoId, TxHash}
\* What a call of the treasury is.
VaultCalls == [at : {"rest", "asking", "checking", "creating", "created", "kept", "using"},
               amt : Int, out : BOOLEAN, id : Ids]
\* An id of a vault there is, or of a VaultCreate that was refused.
Sound(id) == id \in DOMAIN holds \/ (id = TxHash /\ refusals > 0)

\* The types of the treasury's vault.
VaultTyped ==
    /\ durable \in BOOLEAN /\ autoCreate \in BOOLEAN /\ wired \in BOOLEAN
    /\ cachedId \in Ids /\ storedId \in Ids
    /\ holds \in Seq(Int) /\ Len(holds) <= MostVaults /\ cash \in Int
    /\ act \in [Tasks -> VaultCalls]
    /\ refusals \in Nat /\ excuses \in 0..MostVaults

\* Every id that is held or acted on is of a vault, or of a refused one.
IdsSound ==
    /\ \A id \in {cachedId, storedId} : id = NoId \/ Sound(id)
    /\ \A k \in Tasks : act[k].at \in {"created", "kept", "using"} => Sound(act[k].id)

\* The vault of the configuration is the only one.
WiredAlone == wired => cachedId = 1 /\ storedId = NoId /\ Len(holds) = 1 /\ Resolving = {}

\* Vaults made, and yet to be made, are excused but for one.
Excused ==
    \/ wired \/ excuses = MostVaults
    \/ /\ Len(holds) + Cardinality(MayCreate) <= 1 + excuses
       /\ Resolving = {} /\ storedId = NoId => Len(holds) <= excuses

\* What is cached, or kept, is stored.
CachedStored ==
    /\ ~wired /\ cachedId # NoId => storedId # NoId
    /\ \A k \in Tasks : act[k].at = "kept" => storedId # NoId

\* With nothing to excuse, one call at a time looks for the vault, and all use one.
Orderly ==
    excuses = 0 =>
        /\ \A j, k \in Resolving : j = k
        /\ Resolving # {} => cachedId = NoId
        /\ \A k \in Tasks : act[k].at \in {"checking", "creating", "created"} => storedId = NoId
        /\ \A k \in Tasks : act[k].at = "kept" => act[k].id = storedId
        /\ \A k \in Tasks : act[k].at = "using" => act[k].id = ReportedId
        /\ cachedId # NoId /\ storedId # NoId => cachedId = storedId
        /\ \A v \in DOMAIN holds : holds[v] > 0 => v = ReportedId

\* What the treasury never breaks.
VaultInv == VaultTyped /\ IdsSound /\ WiredAlone /\ Excused /\ CachedStored /\ Orderly

\* What the constants are.
LEMMA VaultFacts ==
  /\ NoId # TxHash /\ NoId \notin Nat /\ TxHash \notin Nat /\ NoId \in Ids /\ TxHash \in Ids /\ Nat \subseteq Ids
  /\ MostVaults \in Nat /\ MostVaults > 0 /\ IsFiniteSet(Tasks) /\ KeepIdle \in Int /\ Rescue \subseteq Int
BY FundsAssumption DEF Ids

\* Counting calls.
LEMMA Counted ==
  ASSUME NEW M, M \subseteq Tasks, NEW k \in Tasks
  PROVE  /\ IsFiniteSet(M) /\ Cardinality(M) \in Nat /\ (M = {} <=> Cardinality(M) = 0)
         /\ Cardinality(M \ {k}) \in Nat
         /\ k \in M => Cardinality(M \ {k}) = Cardinality(M) - 1
         /\ Cardinality(M \cup {k}) \in Nat /\ Cardinality(M \cup {k}) <= Cardinality(M) + 1
<1>1. IsFiniteSet(M) /\ Cardinality(M) \in Nat
  BY VaultFacts, FS_Subset, FS_CardinalityType
<1>2. Cardinality(M) = 0 <=> M = {}
  BY <1>1, FS_EmptySet
<1>3. IsFiniteSet(M \ {k}) /\ Cardinality(M \ {k}) = IF k \in M THEN Cardinality(M) - 1 ELSE Cardinality(M)
  BY <1>1, FS_RemoveElement
<1>4. IsFiniteSet(M \cup {k}) /\ Cardinality(M \cup {k}) = IF k \in M THEN Cardinality(M) ELSE Cardinality(M) + 1
  BY <1>1, FS_AddElement
<1>5. Cardinality(M \ {k}) \in Nat /\ Cardinality(M \cup {k}) \in Nat
  BY <1>3, <1>4, FS_CardinalityType
<1> QED BY <1>1, <1>2, <1>3, <1>4, <1>5

\* What is excused is counted, up to the bound.
LEMMA Excusing ==
  ASSUME VaultTyped, NEW n \in Nat, Excuse(n)
  PROVE  /\ excuses' \in 0..MostVaults /\ excuses' >= excuses
         /\ n > 0 => excuses' > 0 /\ (excuses' = MostVaults \/ excuses' >= excuses + 1)
         /\ n = 0 => excuses' = excuses
BY VaultFacts DEF Excuse, VaultTyped

\* One call goes on.
LEMMA TaskGoes ==
  ASSUME VaultTyped, NEW k \in Tasks, NEW w \in VaultCalls, act' = [act EXCEPT ![k] = w]
  PROVE  /\ act' \in [Tasks -> VaultCalls] /\ act'[k] = w /\ \A j \in Tasks : j # k => act'[j] = act[j]
         /\ Resolving' = IF w.at \in {"asking", "checking", "creating", "created", "kept"}
                         THEN Resolving \cup {k} ELSE Resolving \ {k}
BY DEF VaultTyped, Resolving

\* No vault more, no call more that may make one.
LEMMA ExcusedFewer ==
  ASSUME VaultTyped, Excused, wired' = wired, Len(holds') = Len(holds),
         excuses' \in 0..MostVaults, excuses' >= excuses, MayCreate' \subseteq MayCreate,
         Resolving' = {} /\ storedId' = NoId =>
            (Resolving = {} /\ storedId = NoId) \/ MayCreate # {} \/ excuses' = MostVaults \/ excuses' >= excuses + 1
  PROVE  Excused'
<1> DEFINE M == Cardinality(MayCreate)
           N == Cardinality(MayCreate')
<1>1. MayCreate \subseteq Tasks /\ IsFiniteSet(MayCreate) /\ M \in Nat /\ (MayCreate = {} <=> M = 0)
  <2>1. MayCreate \subseteq Tasks
    BY DEF MayCreate
  <2>2. IsFiniteSet(MayCreate)
    BY <2>1, VaultFacts, FS_Subset
  <2> QED BY <2>1, <2>2, FS_CardinalityType, FS_EmptySet
<1>2. N \in Nat /\ N <= M
  BY <1>1, FS_Subset, FS_CardinalityType
<1> HIDE DEF M, N
<1>3. Len(holds) \in Nat /\ excuses \in Nat /\ excuses <= MostVaults /\ MostVaults \in Nat /\ excuses' \in Nat
  BY VaultFacts DEF VaultTyped
<1>4. wired \/ excuses = MostVaults \/
      (Len(holds) + M <= 1 + excuses /\ (Resolving = {} /\ storedId = NoId => Len(holds) <= excuses))
  BY DEF Excused, M
<1> DEFINE L == Len(holds)
<1>8. ASSUME NEW e \in Nat, e >= excuses, e <= MostVaults
      PROVE  /\ L + M <= 1 + excuses => L + N <= 1 + e
             /\ L + M <= 1 + excuses /\ (M # 0 \/ e >= excuses + 1) => L <= e
             /\ L <= excuses => L <= e
             /\ excuses = MostVaults => e = MostVaults
  <2> HIDE DEF L
  <2>1. L \in Nat
    BY <1>3 DEF L
  <2> QED BY <1>1, <1>2, <1>3, <1>8, <2>1
<1>9. PICK e \in Nat : excuses' = e /\ e >= excuses /\ e <= MostVaults
  BY <1>3
<1>7. wired' \/ excuses' = MostVaults \/
      (Len(holds') + N <= 1 + excuses' /\ (Resolving' = {} /\ storedId' = NoId => Len(holds') <= excuses'))
  BY <1>1, <1>4, <1>8, <1>9
<1> QED BY <1>7 DEF Excused, N

\* A sound id stays sound: vaults are never closed.
LEMMA SoundStays ==
  ASSUME VaultTyped, holds' \in Seq(Int), Len(holds) <= Len(holds'), refusals' \in Nat, refusals' >= refusals,
         NEW id, Sound(id)
  PROVE  Sound(id)'
<1>1. holds \in Seq(Int) /\ refusals \in Nat
  BY DEF VaultTyped
<1> QED BY <1>1 DEF Sound

\* A sound id is an id.
LEMMA SoundId ==
  ASSUME VaultTyped, NEW id, Sound(id)
  PROVE  id \in Ids /\ id # NoId
BY VaultFacts DEF VaultTyped, Sound, Ids

\* With nothing new on the ledger, what is sound is sound still.
LEMMA IdsRest ==
  ASSUME VaultInv, UNCHANGED <<holds, refusals>>, NEW k \in Tasks, NEW w \in VaultCalls,
         act' = [act EXCEPT ![k] = w],
         w.at \in {"created", "kept", "using"} => Sound(w.id),
         cachedId' \in {cachedId, NoId} \/ Sound(cachedId'),
         storedId' \in {storedId, NoId} \/ Sound(storedId')
  PROVE  IdsSound'
<1>1. \A id : Sound(id) => Sound(id)'
  BY DEF Sound
<1>2. act'[k] = w /\ \A j \in Tasks : j # k => act'[j] = act[j]
  BY DEF VaultInv, VaultTyped
<1> QED BY <1>1, <1>2 DEF VaultInv, IdsSound, Sound

\* A call asks for the vault: the cached one, or else it begins to look.
LEMMA EnsureStep ==
  ASSUME VaultInv, NEW k \in Tasks, act[k].at = "rest", NEW amt \in Int, NEW out \in BOOLEAN,
         EnsureVault(k, amt, out),
         UNCHANGED <<config, cachedId, storedId, holds, cash, refusals>>
  PROVE  VaultInv'
<1>1. VaultTyped /\ cachedId \in Ids /\ storedId \in Ids /\ durable' = durable /\ autoCreate' = autoCreate /\ wired' = wired
  BY DEF VaultInv, VaultTyped, config
<1>2. CASE cachedId # NoId
  <2> DEFINE w == [at |-> "using", amt |-> amt, out |-> out, id |-> cachedId]
  <2>1. w \in VaultCalls /\ w.at = "using" /\ w.id = cachedId /\ act' = [act EXCEPT ![k] = w] /\ excuses' = excuses
    BY <1>1, <1>2 DEF VaultCalls, EnsureVault
  <2> HIDE DEF w
  <2>2. act' \in [Tasks -> VaultCalls] /\ act'[k] = w /\ (\A j \in Tasks : j # k => act'[j] = act[j])
        /\ Resolving' = Resolving \ {k}
    BY <1>1, <2>1, TaskGoes
  <2>3. Resolving' = Resolving
    BY <2>2 DEF Resolving
  <2>4. MayCreate' \subseteq MayCreate
    BY <2>1, <2>2 DEF MayCreate
  <2>5. VaultTyped'
    BY <1>1, <2>1, <2>2 DEF VaultTyped
  <2>6. IdsSound'
    BY <1>2, <2>1, IdsRest DEF VaultInv, IdsSound
  <2>7. WiredAlone' /\ CachedStored'
    BY <1>1, <2>1, <2>2, <2>3 DEF VaultInv, WiredAlone, CachedStored
  <2>8. Excused'
    <3>1. excuses' \in 0..MostVaults /\ excuses' >= excuses
      BY <2>1, VaultFacts DEF VaultInv, VaultTyped
    <3> QED BY <1>1, <2>3, <2>4, <3>1, ExcusedFewer DEF VaultInv
  <2>9. Orderly'
    <3>1. ReportedId' = ReportedId /\ ReportedId = cachedId
      BY <1>2 DEF ReportedId
    <3> QED BY <2>1, <2>2, <2>3, <3>1 DEF VaultInv, Orderly
  <2> QED BY <2>5, <2>6, <2>7, <2>8, <2>9 DEF VaultInv
<1>3. CASE cachedId = NoId
  <2> DEFINE w == [at |-> "asking", amt |-> amt, out |-> out, id |-> NoId]
             n == IF Resolving # {} THEN 1 ELSE 0
  <2>1. w \in VaultCalls /\ w.at = "asking" /\ act' = [act EXCEPT ![k] = w] /\ Excuse(n) /\ n \in Nat
    BY <1>1, <1>3, VaultFacts DEF VaultCalls, EnsureVault
  <2> HIDE DEF w
  <2>2. act' \in [Tasks -> VaultCalls] /\ act'[k] = w /\ (\A j \in Tasks : j # k => act'[j] = act[j])
        /\ Resolving' = Resolving \cup {k}
    BY <1>1, <2>1, TaskGoes
  <2>3. /\ excuses' \in 0..MostVaults /\ excuses' >= excuses
        /\ Resolving # {} => excuses' > 0 /\ (excuses' = MostVaults \/ excuses' >= excuses + 1)
        /\ Resolving = {} => excuses' = excuses
    <3>1. (Resolving # {} => n = 1) /\ (Resolving = {} => n = 0)
      OBVIOUS
    <3> HIDE DEF n
    <3> QED BY <1>1, <2>1, <3>1, Excusing
  <2>4. ~wired
    BY <1>3, VaultFacts DEF VaultInv, WiredAlone
  <2>5. VaultTyped'
    BY <1>1, <2>2, <2>3 DEF VaultTyped
  <2>6. IdsSound'
    BY <1>3, <2>1, IdsRest DEF VaultInv
  <2>7. WiredAlone' /\ CachedStored'
    BY <1>1, <2>1, <2>2, <2>4 DEF VaultInv, WiredAlone, CachedStored
  <2>8. Excused'
    <3>1. CASE storedId # NoId
      <4>1. MayCreate' \subseteq MayCreate
        BY <2>1, <2>2, <3>1 DEF MayCreate
      <4> QED BY <1>1, <2>2, <2>3, <4>1, ExcusedFewer DEF VaultInv
    <3>2. CASE storedId = NoId
      <4>1. MayCreate' = MayCreate \cup {k} /\ MayCreate \subseteq Tasks /\ MayCreate \subseteq Resolving
        BY <2>1, <2>2, <3>2 DEF MayCreate, Resolving
      <4> DEFINE M == Cardinality(MayCreate)
                 N == Cardinality(MayCreate')
                 L == Len(holds)
      <4>2. M \in Nat /\ N \in Nat /\ N <= M + 1 /\ (MayCreate = {} => M = 0)
        BY <4>1, Counted
      <4>3. L \in Nat /\ excuses \in Nat /\ excuses <= MostVaults /\ MostVaults \in Nat
        BY VaultFacts DEF VaultInv, VaultTyped
      <4>4. /\ excuses = MostVaults \/ L + M <= 1 + excuses
            /\ Resolving = {} => excuses = MostVaults \/ L <= excuses
        BY <2>4, <3>2 DEF VaultInv, Excused
      <4> HIDE DEF M, N, L
      <4>5. PICK e \in Nat : excuses' = e /\ e >= excuses /\ e <= MostVaults
        BY <2>3, <4>3
      <4>6. (Resolving # {} => e = MostVaults \/ e >= excuses + 1) /\ (Resolving = {} => e = excuses)
        BY <2>3, <4>5
      <4>7. e = MostVaults \/ L + N <= 1 + e
        <5>1. CASE Resolving = {}
          <6>1. M = 0
            BY <4>1, <4>2, <5>1
          <6> QED BY ONLY <4>2, <4>3, <4>4, <4>6, <5>1, <6>1
        <5>2. CASE Resolving # {}
          <6>1. e >= excuses /\ e <= MostVaults /\ (e = MostVaults \/ e >= excuses + 1)
            BY <4>5, <4>6, <5>2
          <6>2. excuses = MostVaults \/ L + M <= 1 + excuses
            BY <4>4
          <6> QED BY ONLY <4>2, <4>3, <6>1, <6>2, e \in Nat
        <5> QED BY <5>1, <5>2
      <4>8. Resolving' # {}
        BY <2>2
      <4>9. L + N <= 1 + e => Len(holds)' + Cardinality(MayCreate)' <= 1 + excuses'
        BY <4>5 DEF L, N
      <4> QED BY <4>5, <4>7, <4>8, <4>9 DEF Excused
    <3> QED BY <3>1, <3>2
  <2>9. Orderly'
    <3>1. ReportedId' = ReportedId
      BY DEF ReportedId
    <3>2. CASE Resolving # {}
      <4>1. excuses' # 0
        BY <2>3, <3>2
      <4> QED BY <4>1 DEF Orderly
    <3>3. CASE Resolving = {}
      BY <1>3, <2>1, <2>2, <2>3, <3>1, <3>3 DEF VaultInv, Orderly
    <3> QED BY <3>2, <3>3
  <2> QED BY <2>5, <2>6, <2>7, <2>8, <2>9 DEF VaultInv
<1> QED BY <1>2, <1>3

\* A call looks further for the vault, or gives up.
LEMMA SearchGoes ==
  ASSUME VaultInv, NEW k \in Tasks, NEW w \in VaultCalls, act' = [act EXCEPT ![k] = w],
         UNCHANGED <<config, cachedId, storedId, holds, cash, refusals>>,
         w.at \in {"rest", "checking", "creating"}, act[k].at # "kept",
         w.at # "rest" => act[k].at \in {"asking", "checking"} /\ storedId = NoId,
         excuses' \in 0..MostVaults, excuses' >= excuses,
         act[k].at = "created" => excuses' = MostVaults \/ excuses' >= excuses + 1
  PROVE  VaultInv'
<1>1. VaultTyped /\ wired' = wired /\ durable' = durable /\ autoCreate' = autoCreate /\ ReportedId' = ReportedId
  BY DEF VaultInv, config, ReportedId
<1>2. act' \in [Tasks -> VaultCalls] /\ act'[k] = w /\ (\A j \in Tasks : j # k => act'[j] = act[j])
      /\ Resolving' = IF w.at = "rest" THEN Resolving \ {k} ELSE Resolving \cup {k}
  BY <1>1, TaskGoes
<1>3. Resolving' \subseteq Resolving
  BY <1>2 DEF Resolving
<1>4. VaultTyped'
  BY <1>1, <1>2 DEF VaultTyped
<1>5. IdsSound'
  BY IdsRest
<1>6. WiredAlone' /\ CachedStored'
  BY <1>1, <1>2, <1>3 DEF VaultInv, WiredAlone, CachedStored
<1>7. Excused'
  <2>1. MayCreate' \subseteq MayCreate
    BY <1>2 DEF MayCreate
  <2>2. Resolving' = {} /\ storedId' = NoId =>
          (Resolving = {} /\ storedId = NoId) \/ MayCreate # {} \/ act[k].at = "created"
    <3>1. k \in Resolving => act[k].at \in {"asking", "checking", "creating", "created"}
      BY DEF Resolving
    <3>2. k \in Resolving /\ storedId = NoId /\ act[k].at # "created" => k \in MayCreate
      BY <3>1 DEF MayCreate
    <3>3. k \notin Resolving => Resolving' = Resolving
      BY <1>2, <1>3
    <3> QED BY <3>2, <3>3
  <2> QED BY <1>1, <2>1, <2>2, ExcusedFewer DEF VaultInv
<1>8. Orderly'
  <2>1. excuses' = 0 => excuses = 0
    BY VaultFacts DEF VaultInv, VaultTyped
  <2> QED BY <1>1, <1>2, <1>3, <2>1 DEF VaultInv, Orderly
<1> QED BY <1>4, <1>5, <1>6, <1>7, <1>8 DEF VaultInv

\* A call at rest is a call.
LEMMA Rests == Resting \in VaultCalls /\ Resting.at = "rest"
BY VaultFacts DEF Resting, VaultCalls

\* The store is read: its id is cached and used, or the call looks further.
LEMMA StoreReadStep == ASSUME VaultInv, NEW k \in Tasks, StoreRead(k), UNCHANGED config PROVE VaultInv'
<1>1. VaultTyped /\ act[k] \in VaultCalls /\ act[k].at = "asking" /\ k \in Resolving /\ ~wired
  BY DEF VaultInv, VaultTyped, StoreRead, Resolving, WiredAlone
<1>2. UNCHANGED <<config, storedId, holds, cash, refusals, excuses>> /\ wired' = wired
  BY DEF StoreRead, chain, bounds, config
<1>3. excuses' \in 0..MostVaults /\ excuses' >= excuses
  BY <1>2, VaultFacts DEF VaultInv, VaultTyped
<1>4. CASE storedId = NoId /\ autoCreate
  <2> DEFINE w == [act[k] EXCEPT !.at = "checking"]
  <2>1. w \in VaultCalls /\ w.at = "checking"
    BY <1>1 DEF VaultCalls
  <2>2. act' = [act EXCEPT ![k] = w] /\ cachedId' = cachedId
    BY <1>4 DEF StoreRead, Goes
  <2> HIDE DEF w
  <2> QED BY <1>1, <1>2, <1>3, <1>4, <2>1, <2>2, SearchGoes
<1>5. CASE storedId = NoId /\ ~autoCreate
  <2>1. act' = [act EXCEPT ![k] = Resting] /\ cachedId' = cachedId
    BY <1>5 DEF StoreRead, Ends
  <2> QED BY <1>1, <1>2, <1>3, <2>1, Rests, SearchGoes
<1>6. CASE storedId # NoId
  <2> DEFINE w == [act[k] EXCEPT !.at = "using", !.id = storedId]
  <2>1. w \in VaultCalls /\ w.at = "using" /\ w.id = storedId
    BY <1>1 DEF VaultCalls, VaultTyped
  <2>2. act' = [act EXCEPT ![k] = w] /\ cachedId' = storedId
    BY <1>1, <1>6 DEF StoreRead, VaultTyped
  <2> HIDE DEF w
  <2>3. act' \in [Tasks -> VaultCalls] /\ act'[k] = w /\ (\A j \in Tasks : j # k => act'[j] = act[j])
        /\ Resolving' = Resolving \ {k}
    BY <1>1, <2>1, <2>2, TaskGoes
  <2>4. VaultTyped'
    BY <1>1, <1>2, <2>2, <2>3 DEF VaultTyped, config
  <2>5. IdsSound'
    BY <1>2, <1>6, <2>1, <2>2, IdsRest DEF VaultInv, IdsSound
  <2>6. WiredAlone' /\ CachedStored'
    BY <1>1, <1>2, <1>6, <2>1, <2>3 DEF VaultInv, WiredAlone, CachedStored
  <2>7. Excused'
    <3>1. MayCreate' \subseteq MayCreate
      BY <1>2, <2>1, <2>3 DEF MayCreate
    <3> QED BY <1>1, <1>2, <1>3, <1>6, <3>1, ExcusedFewer DEF VaultInv
  <2>8. Orderly'
    <3> SUFFICES ASSUME excuses = 0 PROVE Orderly'
      BY <1>2 DEF Orderly
    <3>1. cachedId = NoId /\ ReportedId = storedId /\ ReportedId' = storedId /\ Resolving' = {}
      BY <1>1, <1>2, <1>6, <2>2, <2>3 DEF VaultInv, Orderly, ReportedId
    <3>2. \A j \in Tasks : act'[j].at \notin {"checking", "creating", "created", "kept"}
      BY <3>1 DEF Resolving
    <3> QED BY <1>2, <2>1, <2>2, <2>3, <3>1, <3>2 DEF VaultInv, Orderly
  <2> QED BY <2>4, <2>5, <2>6, <2>7, <2>8 DEF VaultInv
<1> QED BY <1>4, <1>5, <1>6

\* The reserve is checked: enough for a vault, or the call ends.
LEMMA CheckReserveStep == ASSUME VaultInv, NEW k \in Tasks, CheckReserve(k), UNCHANGED config PROVE VaultInv'
<1>1. VaultTyped /\ act[k] \in VaultCalls /\ act[k].at = "checking" /\ k \in Resolving /\ ~wired
  BY DEF VaultInv, VaultTyped, CheckReserve, Resolving, WiredAlone
<1>2. UNCHANGED <<config, cachedId, storedId, holds, cash, refusals, excuses>>
  BY DEF CheckReserve, chain, bounds
<1>3. excuses' \in 0..MostVaults /\ excuses' >= excuses
  BY <1>2, VaultFacts DEF VaultInv, VaultTyped
<1>4. CASE Ends(k)
  BY <1>1, <1>2, <1>3, <1>4, Rests, SearchGoes DEF Ends
<1>5. CASE Goes(k, "creating")
  <2> DEFINE w == [act[k] EXCEPT !.at = "creating"]
  <2>1. w \in VaultCalls /\ w.at = "creating" /\ act' = [act EXCEPT ![k] = w]
    BY <1>1, <1>5 DEF VaultCalls, Goes
  <2> HIDE DEF w
  <2>2. CASE storedId = NoId
    BY <1>1, <1>2, <1>3, <2>1, <2>2, SearchGoes
  <2>3. CASE storedId # NoId
    <3>1. act' \in [Tasks -> VaultCalls] /\ act'[k] = w /\ (\A j \in Tasks : j # k => act'[j] = act[j])
          /\ Resolving' = Resolving \cup {k}
      BY <1>1, <2>1, TaskGoes
    <3>6. Resolving' = Resolving
      BY <1>1, <3>1
    <3>7. VaultTyped' /\ WiredAlone' /\ CachedStored'
      BY <1>1, <1>2, <2>1, <3>1, <3>6 DEF VaultInv, VaultTyped, WiredAlone, CachedStored, config
    <3>8. IdsSound'
      BY <1>2, <2>1, IdsRest
    <3>2. VaultTyped' /\ IdsSound' /\ WiredAlone' /\ CachedStored'
      BY <3>7, <3>8
    <3>3. MayCreate' \subseteq MayCreate
      BY <1>1, <1>2, <2>1, <3>1 DEF MayCreate
    <3>4. Excused'
      BY <1>1, <1>2, <1>3, <2>3, <3>3, ExcusedFewer DEF VaultInv, config
    <3>5. Orderly'
      BY <1>1, <1>2, <2>3 DEF VaultInv, Orderly
    <3> QED BY <3>2, <3>4, <3>5 DEF VaultInv
  <2> QED BY <2>2, <2>3
<1> QED BY <1>4, <1>5 DEF CheckReserve

\* A request throws; a vault it has just made is excused.
LEMMA CallThrowsStep == ASSUME VaultInv, NEW k \in Tasks, CallThrows(k), UNCHANGED config PROVE VaultInv'
<1>1. VaultTyped /\ act[k] \in VaultCalls /\ act[k].at # "kept" /\ Resting \in VaultCalls /\ Resting.at = "rest"
  BY Rests DEF VaultInv, VaultTyped, CallThrows
<1>2. UNCHANGED <<config, cachedId, storedId, holds, cash, refusals>> /\ act' = [act EXCEPT ![k] = Resting]
  BY DEF CallThrows, chain, Ends
<1> DEFINE n == IF act[k].at = "created" THEN 1 ELSE 0
<1>3. n \in Nat /\ Excuse(n) /\ (act[k].at = "created" => n = 1)
  BY DEF CallThrows
<1> HIDE DEF n
<1>4. excuses' \in 0..MostVaults /\ excuses' >= excuses
      /\ (act[k].at = "created" => excuses' = MostVaults \/ excuses' >= excuses + 1)
  BY <1>1, <1>3, Excusing
<1> QED BY <1>1, <1>2, <1>4, SearchGoes

\* The ledger makes a vault: one made more, one to be made less.
LEMMA CreateLandsStep == ASSUME VaultInv, NEW k \in Tasks, CreateLands(k), UNCHANGED config PROVE VaultInv'
<1>1. VaultTyped /\ act[k] \in VaultCalls /\ act[k].at = "creating" /\ k \in Resolving /\ k \in MayCreate /\ ~wired
  BY DEF VaultInv, VaultTyped, CreateLands, Resolving, WiredAlone, MayCreate
<1>2. UNCHANGED <<config, cachedId, storedId, cash, refusals, excuses>> /\ wired' = wired
  BY DEF CreateLands, bounds, config
<1>3. holds \in Seq(Int) /\ Len(holds) \in Nat /\ holds' = Append(holds, 0) /\ Len(holds) < MostVaults
  BY <1>1 DEF VaultTyped, CreateLands
<1>4. /\ holds' \in Seq(Int) /\ Len(holds') = Len(holds) + 1 /\ Len(holds') <= MostVaults /\ Len(holds') \in Nat
      /\ DOMAIN holds = 1..Len(holds) /\ DOMAIN holds' = 1..(Len(holds) + 1)
      /\ \A v \in 1..Len(holds) : holds'[v] = holds[v]
      /\ holds'[Len(holds) + 1] = 0
  BY <1>3, VaultFacts
<1> DEFINE w == [act[k] EXCEPT !.at = "created", !.id = Len(holds')]
<1>5. w \in VaultCalls /\ w.at = "created" /\ w.id = Len(holds') /\ act' = [act EXCEPT ![k] = w]
  BY <1>1, <1>4, VaultFacts DEF VaultCalls, CreateLands
<1> HIDE DEF w
<1>6. act' \in [Tasks -> VaultCalls] /\ act'[k] = w /\ (\A j \in Tasks : j # k => act'[j] = act[j])
      /\ Resolving' = Resolving \cup {k}
  BY <1>1, <1>5, TaskGoes
<1>7. Resolving' = Resolving
  BY <1>1, <1>6
<1>8. VaultTyped'
  BY <1>1, <1>2, <1>4, <1>6 DEF VaultTyped, config
<1>9. IdsSound'
  <2>1. \A id : Sound(id) => Sound(id)'
    BY <1>2, <1>4 DEF Sound
  <2>2. \A i : i = w.id => Sound(i)'
    BY <1>4, <1>5 DEF Sound
  <2>3. \A id : id \in {cachedId', storedId'} => id = NoId \/ Sound(id)'
    BY <1>2, <2>1 DEF VaultInv, IdsSound
  <2>4. \A i : \A j \in Tasks : act'[j].at \in {"created", "kept", "using"} /\ i = act'[j].id => Sound(i)'
    BY <1>6, <2>1, <2>2 DEF VaultInv, IdsSound
  <2> QED BY <2>3, <2>4 DEF IdsSound, Sound
<1>10. WiredAlone' /\ CachedStored'
  BY <1>1, <1>2, <1>5, <1>6 DEF VaultInv, WiredAlone, CachedStored
<1>11. Excused'
  <2>1. MayCreate' = MayCreate \ {k} /\ MayCreate \subseteq Tasks /\ Resolving' # {}
    BY <1>1, <1>2, <1>5, <1>6 DEF MayCreate
  <2> DEFINE M == Cardinality(MayCreate)
             N == Cardinality(MayCreate')
             L == Len(holds)
  <2>2. M \in Nat /\ N = M - 1
    BY <1>1, <2>1, Counted
  <2>3. excuses = MostVaults \/ L + M <= 1 + excuses
    BY <1>1 DEF VaultInv, Excused
  <2>4. L \in Nat /\ excuses \in Nat
    BY <1>3 DEF VaultInv, VaultTyped
  <2> HIDE DEF M, N, L
  <2>5. excuses = MostVaults \/ (L + 1) + N <= 1 + excuses
    BY <2>2, <2>3, <2>4
  <2>6. excuses' = MostVaults \/ Len(holds)' + Cardinality(MayCreate)' <= 1 + excuses'
    BY <1>2, <1>4, <2>5 DEF N, L
  <2> QED BY <2>1, <2>6 DEF Excused
<1>12. Orderly'
  <2> SUFFICES ASSUME excuses = 0 PROVE Orderly'
    BY <1>2 DEF Orderly
  <2>1. storedId = NoId /\ cachedId = NoId /\ ReportedId = NoId /\ ReportedId' = NoId
    BY <1>1, <1>2 DEF VaultInv, Orderly, ReportedId
  <2>2. \A v \in DOMAIN holds : ~(holds[v] > 0)
    BY <1>4, <2>1, VaultFacts DEF VaultInv, Orderly
  <2>3. \A v \in DOMAIN holds' : ~(holds'[v] > 0)
    <3> SUFFICES ASSUME NEW v \in DOMAIN holds' PROVE ~(holds'[v] > 0)
      OBVIOUS
    <3>1. v \in 1..Len(holds) \/ v = Len(holds) + 1
      BY <1>3, <1>4
    <3> QED BY <1>4, <2>2, <3>1
  <2> QED BY <1>2, <1>5, <1>6, <1>7, <2>1, <2>3 DEF VaultInv, Orderly
<1> QED BY <1>8, <1>9, <1>10, <1>11, <1>12 DEF VaultInv

\* The ledger refuses: an id of no vault, that the refusal accounts for.
LEMMA CreateRefusedStep == ASSUME VaultInv, NEW k \in Tasks, CreateRefused(k),
UNCHANGED config PROVE VaultInv'
<1>1. VaultTyped /\ act[k] \in VaultCalls /\ act[k].at = "creating" /\ k \in Resolving /\ k \in MayCreate /\ ~wired
  BY DEF VaultInv, VaultTyped, CreateRefused, Resolving, WiredAlone, MayCreate
<1>2. UNCHANGED <<config, cachedId, storedId, holds, cash, excuses>> /\ wired' = wired
  BY DEF CreateRefused, chain, config
<1>3. refusals \in Nat /\ refusals' = refusals + 1 /\ refusals' \in Nat /\ refusals' > 0
  BY <1>1 DEF VaultTyped, CreateRefused
<1> DEFINE w == [act[k] EXCEPT !.at = "created", !.id = TxHash]
<1>5. w \in VaultCalls /\ w.at = "created" /\ w.id = TxHash /\ act' = [act EXCEPT ![k] = w]
  BY <1>1, VaultFacts DEF VaultCalls, CreateRefused
<1> HIDE DEF w
<1>6. act' \in [Tasks -> VaultCalls] /\ act'[k] = w /\ (\A j \in Tasks : j # k => act'[j] = act[j])
      /\ Resolving' = Resolving \cup {k}
  BY <1>1, <1>5, TaskGoes
<1>7. Resolving' = Resolving
  BY <1>1, <1>6
<1>8. VaultTyped'
  BY <1>1, <1>2, <1>3, <1>6 DEF VaultTyped, config
<1>9. IdsSound'
  <2>1. \A id : Sound(id) => Sound(id)'
    BY <1>2, <1>3 DEF Sound
  <2>2. \A i : i = w.id => Sound(i)'
    BY <1>3, <1>5 DEF Sound
  <2>3. \A id : id \in {cachedId', storedId'} => id = NoId \/ Sound(id)'
    BY <1>2, <2>1 DEF VaultInv, IdsSound
  <2>4. \A i : \A j \in Tasks : act'[j].at \in {"created", "kept", "using"} /\ i = act'[j].id => Sound(i)'
    BY <1>6, <2>1, <2>2 DEF VaultInv, IdsSound
  <2> QED BY <2>3, <2>4 DEF IdsSound, Sound
<1>10. WiredAlone' /\ CachedStored'
  BY <1>1, <1>2, <1>5, <1>6 DEF VaultInv, WiredAlone, CachedStored
<1>11. Excused'
  <2>1. MayCreate' \subseteq MayCreate
    BY <1>2, <1>5, <1>6 DEF MayCreate
  <2>2. excuses' \in 0..MostVaults /\ excuses' >= excuses
    BY <1>2, VaultFacts DEF VaultInv, VaultTyped
  <2> QED BY <1>1, <1>2, <2>1, <2>2, ExcusedFewer DEF VaultInv
<1>12. Orderly'
  <2>1. ReportedId' = ReportedId
    BY <1>2 DEF ReportedId
  <2> QED BY <1>1, <1>2, <1>5, <1>6, <1>7, <2>1 DEF VaultInv, Orderly
<1> QED BY <1>8, <1>9, <1>10, <1>11, <1>12 DEF VaultInv

\* The store takes the id of the call that made the vault.
LEMMA StoreWriteStep == ASSUME VaultInv, NEW k \in Tasks, StoreWrite(k), UNCHANGED config PROVE VaultInv'
<1>1. VaultTyped /\ act[k] \in VaultCalls /\ act[k].at = "created" /\ k \in Resolving /\ ~wired /\ storedId' = act[k].id
  BY DEF VaultInv, VaultTyped, StoreWrite, Resolving, WiredAlone
<1>2. UNCHANGED <<config, cachedId, holds, cash, refusals, excuses>> /\ wired' = wired
  BY DEF StoreWrite, chain, bounds, config
<1>3. Sound(act[k].id) /\ act[k].id \in Ids /\ act[k].id # NoId
  BY <1>1, SoundId DEF VaultInv, IdsSound
<1> DEFINE w == [act[k] EXCEPT !.at = "kept"]
<1>5. w \in VaultCalls /\ w.at = "kept" /\ w.id = act[k].id /\ act' = [act EXCEPT ![k] = w]
  BY <1>1 DEF VaultCalls, StoreWrite, Goes
<1> HIDE DEF w
<1>6. act' \in [Tasks -> VaultCalls] /\ act'[k] = w /\ (\A j \in Tasks : j # k => act'[j] = act[j])
      /\ Resolving' = Resolving \cup {k}
  BY <1>1, <1>5, TaskGoes
<1>7. Resolving' = Resolving
  BY <1>1, <1>6
<1>8. VaultTyped'
  BY <1>1, <1>2, <1>3, <1>6 DEF VaultTyped, config
<1>9. IdsSound'
  BY <1>1, <1>2, <1>3, <1>5, IdsRest
<1>10. WiredAlone' /\ CachedStored'
  BY <1>1, <1>2, <1>3, <1>5, <1>6 DEF VaultInv, WiredAlone, CachedStored
<1>11. Excused'
  <2>1. MayCreate' \subseteq MayCreate
    BY <1>1, <1>2, <1>3, <1>5, <1>6 DEF MayCreate
  <2>2. excuses' \in 0..MostVaults /\ excuses' >= excuses
    BY <1>2, VaultFacts DEF VaultInv, VaultTyped
  <2> QED BY <1>1, <1>2, <1>3, <2>1, <2>2, ExcusedFewer DEF VaultInv
<1>12. Orderly'
  <2> SUFFICES ASSUME excuses = 0 PROVE Orderly'
    BY <1>2 DEF Orderly
  <2>1. cachedId = NoId /\ storedId = NoId /\ ReportedId = NoId /\ ReportedId' = act[k].id
    BY <1>1, <1>2 DEF VaultInv, Orderly, ReportedId
  <2>2. \A j \in Tasks : j # k => act[j].at \in {"rest", "using"}
    BY <1>1 DEF VaultInv, VaultTyped, VaultCalls, Orderly, Resolving
  <2>3. \A j \in Tasks : act[j].at # "using"
    <3> SUFFICES ASSUME NEW j \in Tasks, act[j].at = "using" PROVE FALSE
      OBVIOUS
    <3>1. act[j].id = NoId /\ Sound(act[j].id)
      BY <2>1 DEF VaultInv, Orderly, IdsSound
    <3> QED BY <1>1, <3>1, SoundId
  <2>4. \A v \in DOMAIN holds : ~(holds[v] > 0)
    <3>1. DOMAIN holds = 1..Len(holds) /\ Len(holds) \in Nat
      BY <1>1 DEF VaultTyped
    <3> QED BY <2>1, <3>1, VaultFacts DEF VaultInv, Orderly
  <2> QED BY <1>1, <1>2, <1>5, <1>6, <1>7, <2>1, <2>2, <2>3, <2>4 DEF VaultInv, Orderly
<1> QED BY <1>8, <1>9, <1>10, <1>11, <1>12 DEF VaultInv

\* The id is cached once the store has it.
LEMMA CacheIdStep == ASSUME VaultInv, NEW k \in Tasks, CacheId(k), UNCHANGED config PROVE VaultInv'
<1>1. VaultTyped /\ act[k] \in VaultCalls /\ act[k].at = "kept" /\ k \in Resolving /\ ~wired /\ cachedId' = act[k].id
  BY DEF VaultInv, VaultTyped, CacheId, Resolving, WiredAlone
<1>2. UNCHANGED <<config, storedId, holds, cash, refusals, excuses>> /\ wired' = wired
  BY DEF CacheId, chain, bounds, config
<1>3. Sound(act[k].id) /\ act[k].id \in Ids /\ act[k].id # NoId /\ storedId # NoId
  BY <1>1, SoundId DEF VaultInv, IdsSound, CachedStored
<1> DEFINE w == [act[k] EXCEPT !.at = "using"]
<1>5. w \in VaultCalls /\ w.at = "using" /\ w.id = act[k].id /\ act' = [act EXCEPT ![k] = w]
  BY <1>1 DEF VaultCalls, CacheId, Goes
<1> HIDE DEF w
<1>6. act' \in [Tasks -> VaultCalls] /\ act'[k] = w /\ (\A j \in Tasks : j # k => act'[j] = act[j])
      /\ Resolving' = Resolving \ {k}
  BY <1>1, <1>5, TaskGoes
<1>8. VaultTyped'
  BY <1>1, <1>2, <1>3, <1>6 DEF VaultTyped, config
<1>9. IdsSound'
  BY <1>1, <1>2, <1>3, <1>5, IdsRest
<1>10. WiredAlone' /\ CachedStored'
  BY <1>1, <1>2, <1>3, <1>5, <1>6 DEF VaultInv, WiredAlone, CachedStored
<1>11. Excused'
  <2>1. MayCreate' \subseteq MayCreate
    BY <1>1, <1>2, <1>3, <1>5, <1>6 DEF MayCreate
  <2>2. excuses' \in 0..MostVaults /\ excuses' >= excuses
    BY <1>2, VaultFacts DEF VaultInv, VaultTyped
  <2> QED BY <1>1, <1>2, <1>3, <2>1, <2>2, ExcusedFewer DEF VaultInv
<1>12. Orderly'
  <2> SUFFICES ASSUME excuses = 0 PROVE Orderly'
    BY <1>2 DEF Orderly
  <2>1. cachedId = NoId /\ storedId = act[k].id /\ ReportedId = storedId /\ ReportedId' = act[k].id /\ Resolving' = {}
    BY <1>1, <1>2, <1>3, <1>6 DEF VaultInv, Orderly, ReportedId
  <2>2. \A j \in Tasks : act'[j].at \notin {"checking", "creating", "created", "kept"}
    BY <2>1 DEF Resolving
  <2> QED BY <1>1, <1>2, <1>5, <1>6, <2>1, <2>2 DEF VaultInv, Orderly
<1> QED BY <1>8, <1>9, <1>10, <1>11, <1>12 DEF VaultInv

\* A deposit or a withdrawal is made in the vault of the call's id.
LEMMA VaultUseStep == ASSUME VaultInv, NEW k \in Tasks, VaultUse(k), UNCHANGED config PROVE VaultInv'
<1> DEFINE i == act[k].id
           sum == IF act[k].out THEN -act[k].amt ELSE act[k].amt
<1>1. VaultTyped /\ act[k] \in VaultCalls /\ act[k].at = "using" /\ k \notin Resolving /\ holds \in Seq(Int) /\ cash \in Int
  BY DEF VaultInv, VaultTyped, VaultUse, Resolving
<1>2. UNCHANGED <<config, cachedId, storedId, refusals, excuses>> /\ wired' = wired
      /\ act' = [act EXCEPT ![k] = Resting]
  BY DEF VaultUse, bounds, config, Ends
<1>3. sum \in Int
  BY <1>1 DEF VaultCalls
<1>4. \/ UNCHANGED <<cash, holds>>
      \/ i \in DOMAIN holds /\ cash' = cash - sum /\ holds' = [holds EXCEPT ![i] = @ + sum]
  BY DEF VaultUse
<1> HIDE DEF sum
<1>5. /\ holds' \in Seq(Int) /\ cash' \in Int /\ Len(holds') = Len(holds) /\ DOMAIN holds' = DOMAIN holds
      /\ \A v \in DOMAIN holds : v # i => holds'[v] = holds[v]
  <2>1. CASE UNCHANGED <<cash, holds>>
    BY <1>1, <2>1
  <2>2. CASE i \in DOMAIN holds /\ cash' = cash - sum /\ holds' = [holds EXCEPT ![i] = @ + sum]
    <3> HIDE DEF i
    <3>1. holds[i] + sum \in Int /\ cash - sum \in Int
      BY <1>1, <1>3, <2>2
    <3> QED BY <1>1, <2>2, <3>1
  <2> QED BY <1>4, <2>1, <2>2
<1>6. act' \in [Tasks -> VaultCalls] /\ act'[k] = Resting /\ (\A j \in Tasks : j # k => act'[j] = act[j])
      /\ Resolving' = Resolving \ {k}
  BY <1>1, <1>2, Rests, TaskGoes
<1>7. Resolving' = Resolving
  BY <1>1, <1>6
<1>8. VaultTyped'
  BY <1>1, <1>2, <1>5, <1>6 DEF VaultTyped, config
<1>9. IdsSound'
  <2>1. \A id : Sound(id) => Sound(id)'
    BY <1>2, <1>5 DEF Sound
  <2> QED BY <1>2, <1>6, <2>1, Rests DEF VaultInv, IdsSound, Sound
<1>10. WiredAlone' /\ CachedStored'
  BY <1>2, <1>5, <1>6, <1>7, Rests DEF VaultInv, WiredAlone, CachedStored
<1>11. Excused'
  <2>1. MayCreate' \subseteq MayCreate
    BY <1>2, <1>6, Rests DEF MayCreate
  <2>2. excuses' \in 0..MostVaults /\ excuses' >= excuses
    BY <1>2, VaultFacts DEF VaultInv, VaultTyped
  <2> QED BY <1>1, <1>2, <1>5, <1>7, <2>1, <2>2, ExcusedFewer DEF VaultInv
<1>12. Orderly'
  <2> SUFFICES ASSUME excuses = 0 PROVE Orderly'
    BY <1>2 DEF Orderly
  <2>1. ReportedId' = ReportedId /\ i = ReportedId
    BY <1>1, <1>2 DEF VaultInv, Orderly, ReportedId
  <2>2. \A v \in DOMAIN holds' : holds'[v] > 0 => v = ReportedId'
    BY <1>5, <2>1 DEF VaultInv, Orderly
  <2> HIDE DEF i
  <2> QED BY <1>2, <1>6, <1>7, <2>1, <2>2, Rests DEF VaultInv, Orderly
<1> QED BY <1>8, <1>9, <1>10, <1>11, <1>12 DEF VaultInv

\* The process restarts: no call is left, and what it forgets it excuses.
LEMMA RestartStep == ASSUME VaultInv, Restart, UNCHANGED config PROVE VaultInv'
<1> DEFINE JustMade == {k \in Tasks : act[k].at = "created"}
           n == Cardinality(JustMade) + (IF storedId # storedId' THEN 1 ELSE 0)
<1>1. VaultTyped /\ UNCHANGED <<config, holds, cash, refusals>> /\ wired' = wired
  BY DEF VaultInv, Restart, chain, config
<1>2. act' = [k \in Tasks |-> Resting] /\ storedId' = (IF durable THEN storedId ELSE NoId)
      /\ cachedId' = (IF wired THEN 1 ELSE NoId)
  BY DEF Restart
<1>3. act' \in [Tasks -> VaultCalls] /\ \A k \in Tasks : act'[k].at = "rest"
  BY <1>2, Rests
<1>4. Resolving' = {} /\ MayCreate' = {}
  BY <1>3 DEF Resolving, MayCreate
<1>5. Cardinality(JustMade) \in Nat /\ (JustMade = {} <=> Cardinality(JustMade) = 0)
  <2>1. IsFiniteSet(JustMade)
    BY VaultFacts, FS_Subset
  <2> QED BY <2>1, FS_CardinalityType, FS_EmptySet
<1>6. Excuse(n)
  BY DEF Restart
<1>7. /\ n \in Nat
      /\ JustMade # {} \/ storedId' # storedId => n > 0
      /\ n = 0 => JustMade = {} /\ storedId' = storedId
  <2> HIDE DEF JustMade
  <2> QED BY <1>5
<1> HIDE DEF n
<1>8. /\ excuses' \in 0..MostVaults /\ excuses' >= excuses
      /\ JustMade # {} \/ storedId' # storedId => excuses' > 0 /\ (excuses' = MostVaults \/ excuses' >= excuses + 1)
      /\ n = 0 => excuses' = excuses
  BY <1>1, <1>6, <1>7, Excusing
<1>9. VaultTyped'
  BY <1>1, <1>2, <1>3, <1>8, VaultFacts DEF VaultTyped, config
<1>10. IdsSound'
  <2>1. wired => 1 \in DOMAIN holds
    BY <1>1 DEF VaultInv, WiredAlone, VaultTyped
  <2> QED BY <1>1, <1>2, <1>3, <2>1 DEF VaultInv, IdsSound, Sound
<1>11. WiredAlone' /\ CachedStored'
  BY <1>1, <1>2, <1>3, <1>4 DEF VaultInv, WiredAlone, CachedStored
<1>12. Excused'
  <2> SUFFICES ASSUME ~wired, excuses' # MostVaults
               PROVE  Len(holds') + 0 <= 1 + excuses' /\ (storedId' = NoId => Len(holds') <= excuses')
    <3>1. Cardinality(MayCreate)' = 0
      BY <1>4, FS_EmptySet
    <3> QED BY <1>1, <3>1 DEF Excused
  <2> DEFINE M == Cardinality(MayCreate)
             L == Len(holds)
  <2>1. M \in Nat /\ (MayCreate # {} => M # 0) /\ L \in Nat /\ excuses \in Nat /\ excuses <= MostVaults /\ MostVaults \in Nat
    <3>1. MayCreate \subseteq Tasks /\ IsFiniteSet(MayCreate)
      BY VaultFacts, FS_Subset DEF MayCreate
    <3> QED BY <3>1, FS_CardinalityType, FS_EmptySet, VaultFacts DEF VaultInv, VaultTyped
  <2>2. excuses # MostVaults
    BY <1>8, <2>1
  <2>3. L + M <= 1 + excuses /\ (Resolving = {} /\ storedId = NoId => L <= excuses)
    BY <2>2 DEF VaultInv, Excused
  <2>4. storedId' = NoId => (Resolving = {} /\ storedId = NoId) \/ MayCreate # {} \/ JustMade # {} \/ storedId' # storedId
    <3>1. \A k \in Resolving : act[k].at \in {"asking", "checking", "creating", "created", "kept"} /\ k \in Tasks
      BY DEF Resolving
    <3>2. storedId = NoId => \A k \in Resolving : k \in MayCreate \cup JustMade
      BY <3>1 DEF VaultInv, CachedStored, MayCreate
    <3> HIDE DEF JustMade
    <3> QED BY <3>2
  <2> HIDE DEF M, L, JustMade
  <2>5. PICK e \in Nat : excuses' = e /\ e >= excuses /\ (JustMade # {} \/ storedId' # storedId => e >= excuses + 1)
    BY <1>8, <2>1
  <2>6. L <= 1 + e
    BY ONLY <2>1, <2>3, <2>5
  <2>7. MayCreate # {} => L <= e
    BY ONLY <2>1, <2>3, <2>5
  <2>8. e >= excuses + 1 => L <= e
    BY ONLY <2>1, <2>3, <2>5
  <2>9. L <= excuses => L <= e
    BY ONLY <2>1, <2>5
  <2>10. storedId' = NoId => L <= e
    BY <2>3, <2>4, <2>5, <2>7, <2>8, <2>9
  <2>11. Len(holds') = L
    BY <1>1 DEF L
  <2> QED BY <2>5, <2>6, <2>10, <2>11, <2>1
<1>13. Orderly'
  <2> SUFFICES ASSUME excuses' = 0 PROVE Orderly'
    BY DEF Orderly
  <2>1. excuses = 0 /\ storedId' = storedId
    BY <1>1, <1>8, VaultFacts DEF VaultTyped
  <2>2. ReportedId' = ReportedId
    <3>1. CASE wired
      BY <1>2, <2>1, <3>1, VaultFacts DEF VaultInv, WiredAlone, ReportedId
    <3>2. CASE ~wired
      BY <1>2, <2>1, <3>2 DEF VaultInv, CachedStored, Orderly, ReportedId
    <3> QED BY <3>1, <3>2
  <2>3. cachedId' # NoId /\ storedId' # NoId => cachedId' = storedId'
    BY <1>2, <2>1 DEF VaultInv, WiredAlone
  <2> QED BY <1>1, <1>3, <1>4, <2>1, <2>2, <2>3 DEF VaultInv, Orderly
<1> QED BY <1>9, <1>10, <1>11, <1>12, <1>13 DEF VaultInv

\* The account is paid and pays, and its reserve runs down: the vaults are as they were.
LEMMA AccountStep == ASSUME VaultInv, AccountMoves, UNCHANGED config PROVE VaultInv'
<1>1. UNCHANGED <<config, cachedId, storedId, holds, act, refusals, excuses>> /\ cash' \in Int
  BY VaultFacts DEF VaultInv, VaultTyped, AccountMoves, bounds
<1>2. Resolving' = Resolving /\ MayCreate' = MayCreate /\ ReportedId' = ReportedId
  BY <1>1 DEF Resolving, MayCreate, ReportedId
<1>3. \A id : Sound(id)' <=> Sound(id)
  BY <1>1 DEF Sound
<1>4. VaultTyped'
  BY <1>1 DEF VaultInv, VaultTyped, config
<1>5. IdsSound'
  BY <1>1, <1>3 DEF VaultInv, IdsSound
<1>6. WiredAlone' /\ CachedStored' /\ Excused' /\ Orderly'
  BY <1>1, <1>2 DEF VaultInv, WiredAlone, CachedStored, Excused, Orderly, config
<1> QED BY <1>4, <1>5, <1>6 DEF VaultInv

\* The treasury starts with the vault of its configuration, or without one.
LEMMA VaultInitially == VaultInit => VaultInv
<1> SUFFICES ASSUME VaultInit PROVE VaultInv
  OBVIOUS
<1>1. \A k \in Tasks : act[k] = Resting
  BY DEF VaultInit
<1>2. Resolving = {} /\ MayCreate = {}
  BY <1>1, Rests DEF Resolving, MayCreate
<1>3. wired => holds = <<0>> /\ cachedId = 1
  BY DEF VaultInit
<1>4. ~wired => holds = << >> /\ cachedId = NoId
  BY DEF VaultInit
<1>5. holds \in Seq(Int) /\ Len(holds) <= MostVaults /\ (wired => Len(holds) = 1) /\ (~wired => Len(holds) = 0)
      /\ \A v \in DOMAIN holds : holds[v] = 0
  <2>1. CASE wired
    BY <1>3, <2>1, VaultFacts
  <2>2. CASE ~wired
    BY <1>4, <2>2, VaultFacts
  <2> QED BY <2>1, <2>2
<1>6. MostCash \in Nat /\ cash \in Int /\ refusals = 0 /\ excuses = 0 /\ storedId = NoId
      /\ durable \in BOOLEAN /\ autoCreate \in BOOLEAN /\ wired \in BOOLEAN
  BY FundsAssumption DEF VaultInit
<1>7. VaultTyped
  <2>1. act \in [Tasks -> VaultCalls]
    BY Rests DEF VaultInit
  <2> QED BY <1>3, <1>4, <1>5, <1>6, <2>1, VaultFacts DEF VaultTyped
<1>8. IdsSound /\ WiredAlone /\ CachedStored
  BY <1>1, <1>2, <1>3, <1>4, <1>5, <1>6, Rests DEF IdsSound, WiredAlone, CachedStored, Sound
<1>9. Excused
  <2>1. Cardinality(MayCreate) = 0
    BY <1>2, FS_EmptySet
  <2> QED BY <1>5, <1>6, <2>1 DEF Excused
<1>10. Orderly
  BY <1>1, <1>2, <1>5, <1>6, Rests DEF Orderly
<1> QED BY <1>7, <1>8, <1>9, <1>10 DEF VaultInv

\* Each step of the treasury's calls, its restarts and its account keeps the invariant.
LEMMA VaultStep ==
  ASSUME VaultInv, [VaultNext /\ UNCHANGED config]_<<config, vaultVars>>
  PROVE  VaultInv'
<1>1. CASE UNCHANGED <<config, vaultVars>>
  BY <1>1 DEF VaultInv, VaultTyped, IdsSound, WiredAlone, CachedStored, Excused, Orderly, Sound, Resolving,
     MayCreate,
     ReportedId, config, vaultVars, chain, bounds
<1>2. ASSUME NEW k \in Tasks, EnsureLiquid(k), UNCHANGED config PROVE VaultInv'
  <2>1. PICK need \in Rescue : EnsureVault(k, need - cash, TRUE)
    BY <1>2 DEF EnsureLiquid
  <2>2. need - cash \in Int /\ act[k].at = "rest"
    BY <1>2, VaultFacts DEF VaultInv, VaultTyped, EnsureLiquid
  <2>3. UNCHANGED <<config, cachedId, storedId, holds, cash, refusals>>
    BY <1>2 DEF EnsureLiquid, chain, bounds
  <2> QED BY <2>1, <2>2, <2>3, EnsureStep
<1>3. ASSUME NEW k \in Tasks, SweepExcess(k), UNCHANGED config PROVE VaultInv'
  <2>1. act[k].at = "rest" /\ EnsureVault(k, cash - KeepIdle, FALSE)
    BY <1>3 DEF SweepExcess
  <2>2. UNCHANGED <<config, cachedId, storedId, holds, cash, refusals>>
    BY <1>3 DEF SweepExcess, chain, bounds
  <2>3. cash - KeepIdle \in Int
    BY VaultFacts DEF VaultInv, VaultTyped
  <2> QED BY <2>1, <2>2, <2>3, EnsureStep
<1>4. CASE VaultNext /\ UNCHANGED config
  <2>1. CASE Restart
    BY <1>4, <2>1, RestartStep
  <2>2. CASE AccountMoves
    BY <1>4, <2>2, AccountStep
  <2>3. ASSUME NEW k \in Tasks,
               \/ EnsureLiquid(k) \/ SweepExcess(k) \/ StoreRead(k) \/ CheckReserve(k)
               \/ CreateLands(k) \/ CreateRefused(k) \/ StoreWrite(k) \/ CacheId(k)
               \/ CallThrows(k) \/ VaultUse(k)
        PROVE  VaultInv'
    BY <1>2, <1>3, <1>4, <2>3, StoreReadStep, CheckReserveStep, CreateLandsStep, CreateRefusedStep,
       StoreWriteStep,
       CacheIdStep, CallThrowsStep, VaultUseStep
  <2> QED BY <1>4, <2>1, <2>2, <2>3 DEF VaultNext
<1> QED BY <1>1, <1>4

\* What the invariant says of the vaults.
LEMMA InvKeepsVault == VaultInv => VaultKept
<1> SUFFICES ASSUME VaultInv PROVE VaultKept
  OBVIOUS
<1>1. Len(holds) \in Nat /\ Len(holds) <= MostVaults /\ excuses \in Nat /\ refusals \in Nat /\ MostVaults \in Nat
  BY VaultFacts DEF VaultInv, VaultTyped
<1>2. Len(holds) <= 1 + (IF wired THEN 0 ELSE excuses)
  <2>1. Cardinality(MayCreate) \in Nat
    <3>1. IsFiniteSet(MayCreate)
      BY VaultFacts, FS_Subset DEF MayCreate
    <3> QED BY <3>1, FS_CardinalityType
  <2>2. wired => Len(holds) = 1
    BY DEF VaultInv, WiredAlone
  <2>3. wired \/ excuses = MostVaults \/ Len(holds) + Cardinality(MayCreate) <= 1 + excuses
    BY DEF VaultInv, Excused
  <2>4. CASE wired
    <3>1. Len(holds) = 1 /\ (IF wired THEN 0 ELSE excuses) = 0
      BY <2>2, <2>4
    <3> QED BY <3>1
  <2>5. CASE ~wired
    <3> DEFINE M == Cardinality(MayCreate)
               L == Len(holds)
    <3>1. excuses = MostVaults \/ L + M <= 1 + excuses
      BY <2>3, <2>5
    <3> HIDE DEF M, L
    <3>2. L \in Nat /\ M \in Nat /\ L <= MostVaults
      BY <1>1, <2>1 DEF M, L
    <3>3. L <= 1 + excuses
      BY <1>1, <3>1, <3>2
    <3> QED BY <2>5, <3>3 DEF L
  <2> QED BY <2>4, <2>5
<1>3. excuses = 0 => (\A v \in DOMAIN holds : holds[v] > 0 => v = ReportedId)
                     /\ (NoId \notin {cachedId, storedId} => cachedId = storedId)
  BY DEF VaultInv, Orderly
<1>4. refusals = 0 => ReportedId \in DOMAIN holds \cup {NoId}
  BY DEF VaultInv, IdsSound, Sound, ReportedId
<1> QED BY <1>2, <1>3, <1>4 DEF VaultKept

\* However ensureLiquid and sweepExcess overlap, throw and restart, the treasury
\* makes one vault and no more than the overlaps, the lost answers and the
\* forgotten stores account for; without those, what it deposited is in the vault
\* it reports, and an id that is no vault's is only held after a VaultCreate was
\* refused: for any number of calls, vaults and restarts (treasury.ts:95-140).
THEOREM VaultAlwaysKept == VaultSpec => []VaultKept
<1>1. VaultInit => VaultInv
  BY VaultInitially
<1>2. VaultInv /\ [VaultNext /\ UNCHANGED config]_<<config, vaultVars>> => VaultInv'
  BY VaultStep
<1>3. VaultInv => VaultKept
  BY InvKeepsVault
<1> QED BY <1>1, <1>2, <1>3, PTL DEF VaultSpec

-------------------------------------------------------------------------------
(* The funds together.                                                     *)

\* The runs' own specification runs each of them as it is specified.
LEMMA RunsEach == MCSpec => LineSpec /\ VaultSpec /\ SwapSpec /\ OfferSpec
<1>1. MCInit => LineInit /\ VaultInit /\ SwapInit /\ OfferInit
  BY DEF MCInit
<1>2. [MCNext]_<<running, vars, lineVars, fundsVars>> =>
        /\ [LineNext]_lineVars /\ [VaultNext /\ UNCHANGED config]_<<config, vaultVars>>
        /\ [SwapNext]_swapVars /\ [ReadOffer /\ UNCHANGED config]_<<config, offer>>
  BY DEF MCNext, fundsVars
<1> QED BY <1>1, <1>2, PTL DEF MCSpec, LineSpec, VaultSpec, SwapSpec, OfferSpec

\* The trust line, the vault, the swap and the challenge, whichever of them a
\* behaviour is about, for any number of callers and calls and any market: the
\* preflight answers what the ledger says, the treasury finds the vault it made,
\* a swap stays within its slippage and a payment is for the ledger of its
\* challenge (xrpl/payments.ts:31, xrpl/treasury.ts:95, xrpl/swap.ts:113,
\* adapters/xrpl.ts:203).
THEOREM FundsAlwaysHold == MCSpec => []FundsHold
<1>1. OkMeansLine /\ TrustSetOnce /\ VaultKept /\ SwapWithinSlippage /\ SignedForItsLedger => FundsHold
  BY DEF FundsHold
<1> QED BY <1>1, RunsEach, LineAlwaysThere, VaultAlwaysKept, SwapAlwaysWithinSlippage,
     OfferAlwaysForItsLedger, PTL
===============================================================================
