----------------------------- MODULE RouterProofs -----------------------------
(***************************************************************************)
(* Proofs about where the money of a payment comes from.                   *)
(***************************************************************************)
EXTENDS MCAcquisitionRouter, DataLemmas

-------------------------------------------------------------------------------
(* The audit log.                                                          *)

\* What a window of the log adds up to is a natural number.
LEMMA SpentNat ==
  ASSUME NEW T, T \subseteq Int, IsFiniteSet(T), NEW log \in [T -> Nat], NEW t \in Int, NEW len \in Nat
  PROVE  SpentSince(log, t, len) \in Nat
<1> DEFINE S == {s \in DOMAIN log : t - len <= s /\ s <= t}
<1>1. S \subseteq T /\ \A x \in T : log[x] \in Nat
  OBVIOUS
<1> HIDE DEF S
<1>2. SumFunctionOnSet(log, S) \in Nat
  BY <1>1, SumGrows
<1> QED BY <1>2 DEF SpentSince, S

\* When the clock ticks a window gains a tick at which nothing is recorded yet:
\* it can only have less in it.
LEMMA SpentLater ==
  ASSUME NEW T, T \subseteq Int, IsFiniteSet(T), NEW log \in [T -> Nat], NEW t \in Int, NEW len \in Nat,
         t + 1 \in T => log[t + 1] = 0
  PROVE  SpentSince(log, t + 1, len) <= SpentSince(log, t, len)
<1> DEFINE S == {s \in DOMAIN log : t - len <= s /\ s <= t}
           U == {s \in DOMAIN log : (t + 1) - len <= s /\ s <= t + 1}
           V == U \ {t + 1}
<1>1. /\ U \in SUBSET T /\ S \in SUBSET T /\ V \in SUBSET T
      /\ \A x \in T : log[x] \in Nat
  OBVIOUS
<1>2. V \subseteq S
  <2>1. ASSUME NEW s \in U, s # t + 1 PROVE s \in S
    BY <2>1
  <2> QED BY <2>1
<1>9. t + 1 \in U => log[t + 1] = 0
  OBVIOUS
<1> HIDE DEF S, U
<1>3. t + 1 \notin U => V = U
  OBVIOUS
<1>4. /\ IsFiniteSet(U) /\ IsFiniteSet(S)
      /\ \A x \in U : log[x] \in Int
      /\ \A x \in S : log[x] \in Nat
  <2>1. IsFiniteSet(U) /\ IsFiniteSet(S)
    BY <1>1, FS_Subset
  <2>2. \A x \in U : log[x] \in Int
    BY <1>1
  <2>3. \A x \in S : log[x] \in Nat
    BY <1>1
  <2> QED BY <2>1, <2>2, <2>3
<1>5. SumFunctionOnSet(log, V) <= SumFunctionOnSet(log, S)
  BY <1>2, <1>4, SumGrows
<1>6. SumFunctionOnSet(log, V) \in Nat
  BY <1>1, SumGrows
<1>7. SumFunctionOnSet(log, U) = SumFunctionOnSet(log, V)
  <2>1. CASE t + 1 \in U
    <3>1. SumFunctionOnSet(log, U) = log[t + 1] + SumFunctionOnSet(log, V)
      BY <2>1, <1>4, SumSplit
    <3> QED BY <3>1, <2>1, <1>9, <1>6
  <2>2. CASE t + 1 \notin U
    BY <2>2, <1>3
  <2> QED BY <2>1, <2>2
<1> QED BY <1>5, <1>7 DEF SpentSince, S, U

\* An amount recorded now is in every window that ends now.
LEMMA SpentLogged ==
  ASSUME NEW T, T \subseteq Int, IsFiniteSet(T), NEW log \in [T -> Nat], NEW t \in T, NEW len \in Nat,
         NEW amount \in Nat
  PROVE  SpentSince(Logged(log, t, amount), t, len) = SpentSince(log, t, len) + amount
<1> DEFINE S == {s \in DOMAIN log : t - len <= s /\ s <= t}
           new == Logged(log, t, amount)
<1>1. /\ new \in [T -> Nat] /\ new[t] = log[t] + amount /\ DOMAIN new = DOMAIN log
      /\ \A s \in T \ {t} : new[s] = log[s]
  BY DEF Logged
<1>2. S \in SUBSET T /\ t \in S /\ (\A s \in S : log[s] \in Int) /\ (\A s \in S : new[s] \in Int)
  BY <1>1
<1>3. \A s \in S : s # t => log[s] = new[s]
  BY <1>1, <1>2
<1>4. /\ SpentSince(log, t, len) = SumFunctionOnSet(log, S)
      /\ SpentSince(new, t, len) = SumFunctionOnSet(new, S)
  BY <1>1 DEF SpentSince
<1> HIDE DEF S, new
<1>5. IsFiniteSet(S)
  BY <1>2, FS_Subset
<1>6. /\ SumFunctionOnSet(log, S) \in Int
      /\ SumFunctionOnSet(new, S) = SumFunctionOnSet(log, S) + (new[t] - log[t])
  <2>1. t \in S BY <1>2
  <2>2. \A s \in S : log[s] \in Int BY <1>2
  <2>3. \A s \in S : new[s] \in Int BY <1>2
  <2> QED BY ONLY <2>1, <2>2, <2>3, <1>3, <1>5, SumChange
<1>7. new[t] - log[t] = amount
  BY <1>1
<1> QED BY <1>4, <1>6, <1>7 DEF new

-------------------------------------------------------------------------------
(* The router: the promise chain.                                          *)

\* The chain holds exactly the calls that are outstanding, each once, and the
\* call that reads or executes is its head.
ChainExact ==
    /\ \A i, j \in 1..Len(mutex) : mutex[i] = mutex[j] => i = j
    /\ \A c \in Callers : call[c].pc # "idle" <=> \E i \in 1..Len(mutex) : mutex[i] = c
    /\ \A c \in Callers : call[c].pc \in {"reading", "executing"} => mutex[1] = c

\* An idle slot has no key, a call under way has one of the targets.
CallsKnown ==
    \A c \in Callers : /\ call[c].pc = "idle" => call[c].key = NoKey
                       /\ call[c].pc # "idle" => call[c].target \in Targets

\* For a call that had no twin when it was made, nothing is cached under its
\* key and nobody before it in the chain has that key.
KeyIsFresh ==
    \A i \in 1..Len(mutex) :
        call[mutex[i]].key # NoKey /\ ~call[mutex[i]].twin =>
            /\ idemCache[call[mutex[i]].key] <= now
            /\ \A j \in 1..(i - 1) : call[mutex[j]].key # call[mutex[i]].key

ChainInv == TypeOK /\ ChainExact /\ CallsKnown /\ KeyIsFresh

\* What joining and leaving do to the chain.
LEMMA ChainJoined ==
  ASSUME mutex \in Seq(Callers), NEW c \in Callers, mutex' = Append(mutex, c)
  PROVE  /\ mutex' \in Seq(Callers) /\ Len(mutex) \in Nat /\ Len(mutex') = Len(mutex) + 1
         /\ mutex'[Len(mutex) + 1] = c
         /\ \A i \in 1..Len(mutex) : mutex'[i] = mutex[i] /\ mutex[i] \in Callers
  OBVIOUS

\* The head of the chain leaves it.
LEMMA ChainLeft ==
  ASSUME mutex \in Seq(Callers), NEW c \in Callers, mutex # << >>, mutex' = Tail(mutex)
  PROVE  /\ mutex' \in Seq(Callers) /\ Len(mutex) \in Nat \ {0} /\ Len(mutex') = Len(mutex) - 1
         /\ \A i \in 1..Len(mutex') : mutex'[i] = mutex[i + 1]
         /\ \A i \in 1..Len(mutex) : mutex[i] \in Callers
  OBVIOUS

\* A call that is at the head of the chain: it is the first, and nobody else is there.
LEMMA HeadIsFirst ==
  ASSUME mutex \in Seq(Callers), NEW c \in Callers, ChainExact,
         \/ call[c].pc \in {"reading", "executing"}
         \/ AtHead(c)
  PROVE  mutex # << >> /\ mutex[1] = c
<1>1. CASE AtHead(c)
  BY <1>1 DEF AtHead
<1>2. CASE call[c].pc \in {"reading", "executing"}
  <2>1. mutex[1] = c /\ \E i \in 1..Len(mutex) : mutex[i] = c
    BY <1>2 DEF ChainExact
  <2> QED BY <2>1
<1> QED BY <1>1, <1>2

\* What is known of a call's parts.
LEMMA CallParts ==
  ASSUME TypeOK, NEW c \in Callers
  PROVE  /\ call[c] \in Call
         /\ call[c].pc \in {"idle", "queued", "reading", "executing"}
         /\ call[c].key \in Keys \cup {NoKey} /\ call[c].target \in Nat
         /\ call[c].dryRun \in BOOLEAN /\ call[c].delta \in Nat /\ call[c].twin \in BOOLEAN
<1>1. call[c] \in Call
  BY DEF TypeOK
<1> QED BY <1>1 DEF Call

\* The clock, and what it adds up to with the window.
LEMMA ClockParts ==
  ASSUME TypeOK
  PROVE  /\ now \in Ticks /\ now \in Int /\ now \in Nat /\ acqLog[now] \in Nat
         /\ balance \in Nat /\ transit \in Nat
         /\ Ticks \subseteq Int /\ IsFiniteSet(Ticks)
<1>1. MaxTime \in Nat
  BY RouterAssumption
<1>2. IsFiniteSet(Ticks)
  BY <1>1, FS_Interval DEF Ticks
<1>3. now \in Ticks /\ acqLog \in [Ticks -> Nat] /\ balance \in Nat /\ transit \in Nat
  BY DEF TypeOK
<1>4. acqLog[now] \in Nat
  BY <1>3
<1>5. Ticks \subseteq Nat
  BY <1>1 DEF Ticks
<1> QED BY <1>2, <1>3, <1>4, <1>5

Chained == ChainExact /\ CallsKnown /\ KeyIsFresh

\* A step that leaves the chain alone keeps it exact, if only its head advances.
LEMMA StayKeepsChain ==
  ASSUME ChainInv, mutex' = mutex, idemCache' = idemCache, now' \in Nat, now <= now',
         \A c \in Callers : /\ call'[c].key = call[c].key /\ call'[c].twin = call[c].twin
                            /\ call'[c].target = call[c].target
                            /\ call'[c].pc = "idle" <=> call[c].pc = "idle"
                            /\ call'[c].pc \in {"reading", "executing"} =>
                                 mutex[1] = c \/ call[c].pc \in {"reading", "executing"}
  PROVE  Chained'
<1> USE DEF ChainInv, TypeOK
<1>1. ChainExact'
  BY DEF ChainExact
<1>2. CallsKnown'
  BY DEF CallsKnown
<1>3. KeyIsFresh'
  <2>1. \A i \in 1..Len(mutex) : mutex[i] \in Callers
    OBVIOUS
  <2>2. \A i \in 1..Len(mutex) : /\ call'[mutex[i]].key = call[mutex[i]].key
                                 /\ call'[mutex[i]].twin = call[mutex[i]].twin
    BY <2>1
  <2>3. now \in Nat /\ \A i \in 1..Len(mutex) : call[mutex[i]].key # NoKey
                          => idemCache[call[mutex[i]].key] \in Nat
    BY <2>1, ClockParts, CallParts
  <2>4. \A i \in 1..Len(mutex) : \A j \in 1..(i - 1) : j \in 1..Len(mutex)
    OBVIOUS
  <2> QED BY <2>2, <2>3, <2>4 DEF KeyIsFresh
<1> QED BY <1>1, <1>2, <1>3 DEF Chained

\* A call joins behind all the others; if it has no twin, it is fresh.
LEMMA JoinKeepsChain ==
  ASSUME ChainInv, NEW c \in Callers, NEW key \in Keys \cup {NoKey}, NEW target \in Targets,
         NEW dryRun \in BOOLEAN, call[c].pc = "idle", ~Cached(key), Request(c, key, target, dryRun)
  PROVE  Chained'
<1> DEFINE n == Len(mutex)
<1>1. /\ mutex' \in Seq(Callers) /\ n \in Nat /\ Len(mutex') = n + 1 /\ mutex'[n + 1] = c
      /\ \A i \in 1..n : mutex'[i] = mutex[i] /\ mutex[i] \in Callers
  BY ChainJoined DEF ChainInv, TypeOK, Request
<1>2. /\ call'[c].pc = "queued" /\ call'[c].key = key /\ call'[c].twin = Outstanding(key)
      /\ call'[c].target \in Targets
      /\ \A d \in Callers : d # c => call'[d] = call[d]
  BY DEF ChainInv, TypeOK, Request
<1>3. \A i \in 1..n : mutex[i] # c
  BY DEF ChainInv, ChainExact
<1>4. ChainExact'
  <2> HIDE DEF n
  <2>1. \A i \in 1..(n + 1) : i \in 1..n \/ i = n + 1
    BY <1>1
  <2>2. 1..n \subseteq 1..(n + 1) /\ n + 1 \in 1..(n + 1)
    BY <1>1
  <2>3. \A i, j \in 1..Len(mutex') : mutex'[i] = mutex'[j] => i = j
    BY <1>1, <1>3, <2>1 DEF ChainInv, ChainExact, n
  <2>4. \A d \in Callers : call'[d].pc # "idle" <=> \E i \in 1..Len(mutex') : mutex'[i] = d
    BY <1>1, <1>2, <2>1, <2>2 DEF ChainInv, ChainExact, n
  <2>5. \A d \in Callers : call'[d].pc \in {"reading", "executing"} => mutex'[1] = d
    <3>1. TAKE d \in Callers
    <3>2. HAVE call'[d].pc \in {"reading", "executing"}
    <3>3. call[d].pc \in {"reading", "executing"}
      BY <1>2, <3>2
    <3>4. mutex # << >> /\ mutex[1] = d
      BY <3>3, HeadIsFirst DEF ChainInv, TypeOK
    <3>5. 1 \in 1..n
      BY <3>4 DEF n, ChainInv, TypeOK
    <3> QED BY <1>1, <3>4, <3>5
  <2> QED BY <2>3, <2>4, <2>5 DEF ChainExact
<1>5. CallsKnown'
  BY <1>2 DEF ChainInv, CallsKnown
<1>6. KeyIsFresh'
  <2>1. now' = now /\ idemCache' = idemCache
    BY DEF Request
  <2>2. SUFFICES ASSUME NEW i \in 1..Len(mutex'), call'[mutex'[i]].key # NoKey,
                        ~ call'[mutex'[i]].twin
                 PROVE  /\ idemCache'[call'[mutex'[i]].key] <= now'
                        /\ \A j \in 1..(i - 1) : call'[mutex'[j]].key # call'[mutex'[i]].key
    BY DEF KeyIsFresh
  <2>3. CASE i = n + 1
    <3>1. \A j \in 1..(i - 1) : mutex'[j] = mutex[j] /\ mutex[j] \in Callers /\ mutex[j] # c
      BY <1>1, <1>3, <2>3
    <3>3. mutex'[i] = c /\ key # NoKey /\ \A d \in Callers : call[d].key # key
      BY <1>1, <1>2, <2>2, <2>3 DEF Outstanding
    <3>4. idemCache[key] <= now
      <4>1. idemCache[key] \in Nat /\ now \in Nat
        BY <3>3 DEF ChainInv, TypeOK, Ticks
      <4> QED BY <4>1, <3>3 DEF Cached
    <3> QED BY <1>2, <2>1, <3>1, <3>3, <3>4
  <2>4. CASE i \in 1..n
    <3>1. \A j \in 1..i : mutex'[j] = mutex[j] /\ mutex[j] \in Callers /\ call'[mutex[j]] = call[mutex[j]]
      BY <1>1, <1>2, <1>3, <2>4
    <3>2. \A j \in 1..(i - 1) : j \in 1..i
      BY <2>4
    <3>3. i \in 1..i
      BY <2>4
    <3> QED BY <2>1, <2>2, <2>4, <3>1, <3>2, <3>3 DEF ChainInv, KeyIsFresh
  <2>5. i = n + 1 \/ i \in 1..n
    <3>1. n \in Nat /\ Len(mutex') = n + 1 /\ i \in 1..Len(mutex')
      BY <1>1
    <3> HIDE DEF n
    <3> QED BY ONLY <3>1
  <2> QED BY <2>3, <2>4, <2>5
<1> QED BY <1>4, <1>5, <1>6 DEF Chained

\* The head leaves, having cached nothing or a receipt under its own key: no
\* fresh call behind it has that key.
LEMMA LeaveKeepsChain ==
  ASSUME ChainInv, NEW c \in Callers, mutex # << >>, mutex[1] = c, Leaves(c), now' = now,
         \/ idemCache' = idemCache
         \/ \E v : call[c].key \in Keys /\ idemCache' = [idemCache EXCEPT ![call[c].key] = v]
  PROVE  Chained'
<1> DEFINE n == Len(mutex)
<1>1. /\ mutex' \in Seq(Callers) /\ n \in Nat \ {0} /\ Len(mutex') = n - 1
      /\ \A i \in 1..(n - 1) : mutex'[i] = mutex[i + 1]
      /\ \A i \in 1..n : mutex[i] \in Callers
  BY ChainLeft DEF ChainInv, TypeOK, Leaves
<1>2. call'[c] = NoCall /\ \A d \in Callers : d # c => call'[d] = call[d]
  BY DEF ChainInv, TypeOK, Leaves
<1> HIDE DEF n
<1>3. \A i \in 1..(n - 1) : i + 1 \in 1..n /\ i \in 1..n /\ i + 1 # 1
  BY <1>1
<1>4. \A i \in 1..n : i = 1 \/ i - 1 \in 1..(n - 1)
  BY <1>1
<1>5. /\ \A i, j \in 1..n : mutex[i] = mutex[j] => i = j
      /\ \A d \in Callers : call[d].pc # "idle" <=> \E i \in 1..n : mutex[i] = d
      /\ \A d \in Callers : call[d].pc \in {"reading", "executing"} => d = c
      /\ 1 \in 1..n
  <2>1. \A i, j \in 1..n : mutex[i] = mutex[j] => i = j
    BY DEF ChainInv, ChainExact, n
  <2>2. \A d \in Callers : call[d].pc # "idle" <=> \E i \in 1..n : mutex[i] = d
    BY DEF ChainInv, ChainExact, n
  <2>3. \A d \in Callers : call[d].pc \in {"reading", "executing"} => d = c
    BY DEF ChainInv, ChainExact
  <2>4. 1 \in 1..n
    BY <1>1
  <2> QED BY <2>1, <2>2, <2>3, <2>4
<1>6. \A i \in 1..(n - 1) : /\ mutex'[i] \in Callers /\ mutex'[i] # c
                            /\ call'[mutex'[i]] = call[mutex[i + 1]]
  <2>1. TAKE i \in 1..(n - 1)
  <2>2. mutex'[i] = mutex[i + 1] /\ mutex[i + 1] \in Callers /\ i + 1 \in 1..n /\ i + 1 # 1
    BY <1>1, <1>3
  <2>3. mutex[i + 1] # c
    BY <1>5, <2>2
  <2> QED BY <1>2, <2>2, <2>3
<1>7. ChainExact'
  <2>1. \A i, j \in 1..(n - 1) : mutex'[i] = mutex'[j] => i = j
    <3>1. TAKE i, j \in 1..(n - 1)
    <3>2. HAVE mutex'[i] = mutex'[j]
    <3>3. mutex[i + 1] = mutex[j + 1] /\ i + 1 \in 1..n /\ j + 1 \in 1..n
      BY <1>1, <1>3, <3>2
    <3>4. i + 1 = j + 1
      BY <1>5, <3>3
    <3> QED BY <3>4, <1>1
  <2>2. ASSUME NEW d \in Callers
        PROVE  call'[d].pc # "idle" <=> \E i \in 1..(n - 1) : mutex'[i] = d
    <3>1. CASE d = c
      BY <3>1, <1>2, <1>6 DEF NoCall
    <3>2. CASE d # c
      <4>1. call'[d].pc # "idle" <=> \E i \in 1..n : mutex[i] = d
        BY <1>2, <1>5, <3>2
      <4>2. ASSUME NEW i \in 1..n, mutex[i] = d PROVE \E k \in 1..(n - 1) : mutex'[k] = d
        <5>1. i # 1
          BY <3>2, <4>2
        <5>2. i - 1 \in 1..(n - 1) /\ mutex'[i - 1] = mutex[(i - 1) + 1] /\ (i - 1) + 1 = i
          BY <1>1, <1>4, <5>1
        <5> QED BY <4>2, <5>2
      <4>3. ASSUME NEW i \in 1..(n - 1), mutex'[i] = d PROVE \E k \in 1..n : mutex[k] = d
        BY <1>1, <1>3, <4>3
      <4> QED BY <4>1, <4>2, <4>3
    <3> QED BY <3>1, <3>2
  <2>3. \A d \in Callers : call'[d].pc \notin {"reading", "executing"}
    BY <1>2, <1>5 DEF NoCall
  <2> QED BY <1>1, <2>1, <2>2, <2>3 DEF ChainExact
<1>8. CallsKnown'
  BY <1>2 DEF ChainInv, CallsKnown, NoCall
<1>9. KeyIsFresh'
  <2>1. SUFFICES ASSUME NEW i \in 1..(n - 1), call'[mutex'[i]].key # NoKey,
                        ~ call'[mutex'[i]].twin
                 PROVE  /\ idemCache'[call'[mutex'[i]].key] <= now'
                        /\ \A j \in 1..(i - 1) : call'[mutex'[j]].key # call'[mutex'[i]].key
    BY <1>1 DEF KeyIsFresh
  <2> DEFINE k == call[mutex[i + 1]].key
  <2>2. call'[mutex'[i]].key = k /\ k # NoKey /\ ~ call[mutex[i + 1]].twin /\ i + 1 \in 1..n
        /\ mutex[i + 1] \in Callers
    BY <1>1, <1>3, <1>6, <2>1
  <2>3. idemCache[k] <= now /\ \A j \in 1..i : call[mutex[j]].key # k
    <3>1. (i + 1) - 1 = i
      BY <1>1
    <3> QED BY <2>2, <3>1 DEF ChainInv, KeyIsFresh, n
  <2>4. call[c].key # k
    <3>1. 1 \in 1..i
      BY <1>1
    <3> QED BY <2>3, <3>1
  <2>5. idemCache'[k] = idemCache[k]
    <3>1. k \in Keys
      BY <2>2, CallParts DEF ChainInv
    <3>2. idemCache \in [Keys -> Nat]
      BY DEF ChainInv, TypeOK
    <3> HIDE DEF k
    <3> QED BY <2>4, <3>1, <3>2
  <2>6. \A j \in 1..(i - 1) : j \in 1..(n - 1) /\ j + 1 \in 1..i
    BY <1>1
  <2>7. \A j \in 1..(i - 1) : call'[mutex'[j]].key # k
    BY <1>6, <2>3, <2>6
  <2> QED BY <2>2, <2>3, <2>5, <2>7
<1> QED BY <1>7, <1>8, <1>9 DEF Chained

\* TypeOK holds initially, and every step keeps it.
LEMMA RouterTypedInit == Init => TypeOK
<1> SUFFICES ASSUME Init PROVE TypeOK
  OBVIOUS
<1>1. 0 \in Ticks /\ acqLog \in [Ticks -> Nat] /\ idemCache \in [Keys -> Nat]
  BY RouterAssumption DEF Ticks, Init
<1>2. NoCall \in Call
  BY DEF NoCall, Call
<1>3. call \in [Callers -> Call] /\ mutex \in Seq(Callers)
  BY <1>2 DEF Init
<1> QED BY <1>1, <1>3 DEF Init, TypeOK

\* The head of the chain moves on, to a state of its type.
LEMMA RouterTypedAdvance ==
  ASSUME TypeOK, ChainExact, NEW c \in Callers, Advance(c)
  PROVE  TypeOK'
<1>0. /\ now \in Nat /\ acqLog[now] \in Nat /\ balance \in Nat /\ transit \in Nat
      /\ call[c].delta \in Nat /\ call[c].target \in Nat /\ call[c].key \in Keys \cup {NoKey}
  BY ClockParts, CallParts
<1>12. /\ now + Window \in Nat /\ acqLog[now] + call[c].delta \in Nat
       /\ balance + call[c].delta \in Nat /\ transit + call[c].delta \in Nat
  BY <1>0, RouterAssumption
<1> USE DEF TypeOK
<1>1. NoCall \in Call
  BY DEF NoCall, Call
<1>2. ASSUME Leaves(c), mutex # << >> PROVE call' \in [Callers -> Call] /\ mutex' \in Seq(Callers)
  BY <1>1, <1>2, ChainLeft DEF Leaves
<1>3. \A seen \in Reads : Delta(c, seen) \in Nat
  BY <1>0 DEF Delta, Reads
<1>4. call[c].pc \in {"reading", "executing"} \/ AtHead(c) => mutex # << >>
  BY HeadIsFirst
<1>5. CASE Begin(c)
  <2>1. [call[c] EXCEPT !.pc = "reading"] \in Call
    BY DEF Call
  <2> QED BY <1>5, <2>1 DEF Begin
<1>6. CASE RejectsWithChain(c)
  BY <1>2, <1>4, <1>6 DEF RejectsWithChain
<1>7. ASSUME NEW seen \in Reads, NothingToDo(c, seen) PROVE TypeOK'
  BY <1>2, <1>4, <1>7 DEF NothingToDo
<1>8. ASSUME NEW seen \in Reads, CapAllows(c, seen) PROVE TypeOK'
  <2>1. [call[c] EXCEPT !.pc = "executing", !.delta = Delta(c, seen)] \in Call
    BY <1>3 DEF Call
  <2>2. call' \in [Callers -> Call]
    BY <1>8, <2>1 DEF CapAllows
  <2>3. blind' \in BOOLEAN
    BY <1>8 DEF CapAllows
  <2> QED BY <1>8, <2>2, <2>3 DEF CapAllows
<1>9. ASSUME NEW sent \in BOOLEAN, RunRejects(c, sent) PROVE TypeOK'
  <2>2. transit' \in Nat
    <3>1. transit' = transit + call[c].delta \/ transit' = transit
      BY <1>9 DEF RunRejects
    <3> QED BY ONLY <3>1, <1>0
  <2>3. call' \in [Callers -> Call] /\ mutex' \in Seq(Callers)
    BY <1>2, <1>4, <1>9 DEF RunRejects
  <2> QED BY <1>9, <2>2, <2>3 DEF RunRejects
<1>10. CASE DryRunReturns(c)
  BY <1>2, <1>4, <1>10 DEF DryRunReturns
<1>11. ASSUME NEW outcome \in {"landed", "under way", "reverted"}, Executed(c, outcome)
       PROVE  TypeOK'
  <2>2. balance' \in Nat /\ transit' \in Nat
    <3>1. Arrives(call[c].delta, outcome)
      BY <1>11 DEF Executed
    <3>2. \/ balance' = balance + call[c].delta /\ transit' = transit
          \/ balance' = balance /\ transit' = transit + call[c].delta
          \/ balance' = balance /\ transit' = transit
      BY <3>1 DEF Arrives
    <3> QED BY <1>0, <1>12, <3>2
  <2>3. acqLog' \in [Ticks -> Nat]
    BY <1>11, <1>12 DEF Executed, Logged
  <2>4. idemCache' \in [Keys -> Nat]
    BY <1>0, <1>11, <1>12 DEF Executed
  <2>5. call' \in [Callers -> Call] /\ mutex' \in Seq(Callers)
    BY <1>2, <1>4, <1>11 DEF Executed
  <2> QED BY <1>11, <2>2, <2>3, <2>4, <2>5 DEF Executed
<1> QED BY <1>5, <1>6, <1>7, <1>8, <1>9, <1>10, <1>11 DEF Advance

\* Every step of the router keeps the chain.
LEMMA ChainStep == ChainInv /\ [Next]_vars => ChainInv'
<1> SUFFICES ASSUME ChainInv, [Next]_vars PROVE ChainInv'
  OBVIOUS
<1> USE DEF ChainInv
<1>1. now \in Nat
  BY RouterAssumption DEF TypeOK, Ticks
<1>2. ASSUME call' = call, mutex' = mutex, idemCache' = idemCache, now' \in Nat, now <= now'
      PROVE  Chained'
  BY <1>2, StayKeepsChain
<1>3. CASE UNCHANGED vars
  BY <1>1, <1>2, <1>3 DEF vars, TypeOK, Chained, Ticks
<1>4. CASE Tick
  <2>1. TypeOK' BY <1>4, RouterAssumption DEF Tick, TypeOK, Ticks
  <2> QED BY <1>1, <1>2, <1>4, <2>1 DEF Tick, Chained
<1>5. CASE Lands \/ Spends \/ Deposit
  <2>1. balance' \in Nat /\ transit' \in Nat /\ blind' \in BOOLEAN
    <3>1. balance \in Nat /\ transit \in Nat /\ blind \in BOOLEAN
      BY DEF TypeOK
    <3>2. balance + transit \in Nat /\ balance + 1 \in Nat
      BY <3>1
    <3>3. CASE Lands BY <3>1, <3>2, <3>3 DEF Lands
    <3>4. CASE Spends BY <3>1, <3>4 DEF Spends
    <3>5. CASE Deposit BY <3>1, <3>2, <3>5 DEF Deposit
    <3> QED BY <1>5, <3>3, <3>4, <3>5
  <2>3. TypeOK' BY <1>5, <2>1 DEF Lands, Spends, Deposit, TypeOK
  <2> QED BY <1>1, <1>2, <1>5, <2>3 DEF Lands, Spends, Deposit, Chained
<1>6. ASSUME NEW c \in Callers, NEW key \in Keys \cup {NoKey}, NEW target \in Targets,
             NEW dry \in BOOLEAN, Request(c, key, target, dry)
      PROVE  ChainInv'
  <2>1. target \in Nat BY RouterAssumption
  <2>2. CASE Cached(key)
    BY <1>1, <1>2, <1>6, <2>2 DEF Request, TypeOK, Chained
  <2>3. CASE ~Cached(key)
    <3>1. mutex' \in Seq(Callers)
      BY <1>6, <2>3, ChainJoined DEF Request, TypeOK
    <3>2. Outstanding(key) \in BOOLEAN
      BY DEF Outstanding
    <3>5. [pc |-> "queued", key |-> key, target |-> target, dryRun |-> dry, delta |-> 0,
           twin |-> Outstanding(key)] \in Call
      BY <2>1, <3>2 DEF Call
    <3>6. call' \in [Callers -> Call]
      BY <1>6, <2>3, <3>5 DEF Request, TypeOK
    <3>3. TypeOK'
      BY <1>6, <3>1, <3>6 DEF Request, TypeOK
    <3>4. call[c].pc = "idle"
      BY <1>6 DEF Request
    <3> QED BY <1>6, <2>3, <3>3, <3>4, JoinKeepsChain DEF Chained
  <2> QED BY <2>2, <2>3
<1>7. ASSUME NEW c \in Callers, Advance(c) PROVE ChainInv'
  <2>1. TypeOK'
    BY <1>7, RouterTypedAdvance
  <2>2. call[c].pc \in {"reading", "executing"} \/ AtHead(c) => mutex # << >> /\ mutex[1] = c
    BY HeadIsFirst DEF TypeOK
  <2>3. ASSUME Leaves(c), now' = now, mutex # << >>, mutex[1] = c,
               \/ idemCache' = idemCache
               \/ \E v : call[c].key \in Keys /\ idemCache' = [idemCache EXCEPT ![call[c].key] = v]
        PROVE  Chained'
    BY <2>3, LeaveKeepsChain
  <2>4. ASSUME Begin(c) PROVE Chained'
    BY <1>1, <2>2, <2>4, StayKeepsChain DEF Begin, TypeOK
  <2>5. ASSUME RejectsWithChain(c) PROVE Chained'
    BY <2>2, <2>3, <2>5 DEF RejectsWithChain
  <2>6. ASSUME NEW seen \in Reads, NothingToDo(c, seen) PROVE Chained'
    BY <2>2, <2>3, <2>6 DEF NothingToDo
  <2>7. ASSUME NEW seen \in Reads, CapAllows(c, seen) PROVE Chained'
    BY <1>1, <2>2, <2>7, StayKeepsChain DEF CapAllows, TypeOK
  <2>8. ASSUME NEW sent \in BOOLEAN, RunRejects(c, sent) PROVE Chained'
    BY <2>2, <2>3, <2>8 DEF RunRejects
  <2>9. ASSUME DryRunReturns(c) PROVE Chained'
    BY <2>2, <2>3, <2>9 DEF DryRunReturns
  <2>10. ASSUME NEW outcome \in {"landed", "under way", "reverted"}, Executed(c, outcome)
         PROVE  Chained'
    <3>1. call[c].key \in Keys \cup {NoKey}
      BY CallParts
    <3> QED BY <2>2, <2>3, <2>10, <3>1 DEF Executed
  <2>11. Chained'
    BY <1>7, <2>4, <2>5, <2>6, <2>7, <2>8, <2>9, <2>10 DEF Advance
  <2> QED BY <2>1, <2>11 DEF Chained
<1> QED BY <1>3, <1>4, <1>5, <1>6, <1>7 DEF Next

\* Initially the chain is empty and nobody is outstanding.
LEMMA ChainInit == Init => ChainInv
<1> SUFFICES ASSUME Init PROVE ChainInv
  OBVIOUS
<1>1. Len(mutex) = 0 /\ \A c \in Callers : call[c] = NoCall
  BY DEF Init
<1>2. 1..Len(mutex) = {}
  BY <1>1
<1>3. ChainExact /\ CallsKnown /\ KeyIsFresh
  BY <1>1, <1>2 DEF ChainExact, CallsKnown, KeyIsFresh, NoCall
<1> QED BY <1>3, RouterTypedInit DEF ChainInv

\* The promise chain of goat/acquisition.ts:253-261 is a mutex: for any number of callers it
\* holds each outstanding call once, and only its head reads or executes.
THEOREM ChainAlwaysExact == Spec => []ChainInv
  BY ChainInit, ChainStep, PTL DEF Spec

\* The router is well typed, for any number of callers, keys and targets
\* (goat/acquisition.ts).
THEOREM RouterTyped == Spec => []TypeOK
<1>1. ChainInv => TypeOK
  BY DEF ChainInv
<1> QED BY <1>1, ChainAlwaysExact, PTL

\* A call that looked its key up before anybody else queued with it executes
\* only while nothing is cached under the key: runOnce() need not look again.
LEMMA ExecutesFresh ==
  ASSUME ChainInv, [Next]_vars
  PROVE  \A c \in Callers : Executes(c) /\ call[c].key # NoKey /\ ~call[c].twin =>
            idemCache[call[c].key] <= now
<1> SUFFICES ASSUME NEW c \in Callers, Executes(c), call[c].key # NoKey, ~call[c].twin
             PROVE  idemCache[call[c].key] <= now
  OBVIOUS
<1>1. mutex # << >> /\ mutex[1] = c
  BY HeadIsFirst DEF ChainInv, TypeOK, Executes
<1>2. 1 \in 1..Len(mutex)
  BY <1>1 DEF ChainInv, TypeOK
<1> QED BY <1>1, <1>2 DEF ChainInv, KeyIsFresh

\* A receipt cached under a key is executed once: for any number of overlapping
\* acquire() calls, none executes again while it is valid, unless it was made
\* while another call with the key was outstanding (goat/acquisition.ts:246-261).
THEOREM AlwaysOneExecutionPerKey == Spec => OneExecutionPerKey
<1>1. ChainInv /\ [Next]_vars =>
        [\A c \in Callers : Executes(c) /\ call[c].key # NoKey /\ ~call[c].twin =>
            idemCache[call[c].key] <= now]_vars
  BY ExecutesFresh
<1> QED BY <1>1, ChainInit, ChainStep, PTL DEF Spec, OneExecutionPerKey

-------------------------------------------------------------------------------
(* The router: the rolling caps and the target.                            *)

\* Nothing is recorded in the future.
FutureIsEmpty == \A s \in Ticks : s > now => acqLog[s] = 0

\* The caps hold, and hold with what the executing call is about to record.
CapsLeaveRoom ==
    /\ AcquisitionCapsExact
    /\ \A c \in Callers : call[c].pc = "executing" =>
          AcquisitionAllows(acqLog, call[c].delta, AcquireMaxHour, AcquireMaxDay, now)

\* Unless the router is blind, what the wallet holds, what is under way and
\* what the executing call asks for are together within the largest target.
FillLeavesRoom ==
    ~blind => \A t \in Targets : (\A u \in Targets : u <= t) =>
        /\ balance + transit <= t
        /\ \A c \in Callers : call[c].pc = "executing" => balance + transit + call[c].delta <= t

LimitsInv == FutureIsEmpty /\ CapsLeaveRoom /\ FillLeavesRoom

\* What the two windows of the caps hold.
LEMMA WindowParts ==
  ASSUME TypeOK
  PROVE  /\ HourLen \in Nat /\ DayLen \in Nat /\ AcquireMaxHour \in Nat /\ AcquireMaxDay \in Nat
         /\ SpentSince(acqLog, now, HourLen) \in Nat /\ SpentSince(acqLog, now, DayLen) \in Nat
<1>1. HourLen \in Nat /\ DayLen \in Nat /\ AcquireMaxHour \in Nat /\ AcquireMaxDay \in Nat
  BY AuditAssumption, RouterAssumption
<1>2. /\ Ticks \subseteq Int /\ IsFiniteSet(Ticks) /\ acqLog \in [Ticks -> Nat] /\ now \in Int
  BY ClockParts DEF TypeOK
<1> QED BY <1>1, <1>2, SpentNat

\* Initially nothing is spent and nothing is held.
LEMMA LimitsInit == Init => LimitsInv
<1> SUFFICES ASSUME Init PROVE LimitsInv
  OBVIOUS
<1>1. TypeOK
  BY RouterTypedInit
<1>2. \A len \in Nat : SpentSince(acqLog, now, len) = 0
  <2>1. TAKE len \in Nat
  <2> DEFINE S == {s \in DOMAIN acqLog : now - len <= s /\ s <= now}
  <2>2. S \in SUBSET Ticks /\ \A s \in S : acqLog[s] = 0
    BY DEF Init
  <2>3. SpentSince(acqLog, now, len) = SumFunctionOnSet(acqLog, S)
    BY DEF SpentSince
  <2> HIDE DEF S
  <2>4. IsFiniteSet(S)
    BY <1>1, <2>2, ClockParts, FS_Subset
  <2> QED BY <2>2, <2>3, <2>4, SumZero
<1>3. \A c \in Callers : call[c].pc # "executing"
  BY DEF Init, NoCall
<1>4. FutureIsEmpty
  BY DEF Init, FutureIsEmpty
<1>5. CapsLeaveRoom
  BY <1>1, <1>2, <1>3, WindowParts DEF CapsLeaveRoom, AcquisitionCapsExact
<1>6. FillLeavesRoom
  <2>1. balance + transit = 0 /\ \A t \in Targets : 0 <= t
    BY RouterAssumption DEF Init
  <2> QED BY <1>3, <2>1 DEF FillLeavesRoom
<1> QED BY <1>4, <1>5, <1>6 DEF LimitsInv

\* Nobody starts to execute.
NobodyStarts ==
    \A d \in Callers : call'[d].pc = "executing" =>
        call[d].pc = "executing" /\ call'[d].delta = call[d].delta

\* The caps are kept by a step that records nothing, while nobody starts to
\* execute: the clock may tick.
LEMMA CapsKept ==
  ASSUME ChainInv, LimitsInv, acqLog' = acqLog, NobodyStarts, now' = now \/ Tick
  PROVE  FutureIsEmpty' /\ CapsLeaveRoom'
<1> USE DEF ChainInv, LimitsInv
<1>1. \A d \in Callers : call[d].pc = "executing" => call[d].delta \in Nat
  BY CallParts
<1>2. \A len \in Nat : /\ SpentSince(acqLog, now, len) \in Nat
                       /\ SpentSince(acqLog, now', len) \in Nat
                       /\ SpentSince(acqLog, now', len) <= SpentSince(acqLog, now, len)
  <2>1. TAKE len \in Nat
  <2>2. /\ Ticks \subseteq Int /\ IsFiniteSet(Ticks) /\ acqLog \in [Ticks -> Nat]
        /\ now \in Int /\ now + 1 \in Int
    BY ClockParts DEF TypeOK
  <2>3. SpentSince(acqLog, now, len) \in Nat /\ SpentSince(acqLog, now + 1, len) \in Nat
    BY <2>2, SpentNat
  <2>4. CASE now' = now
    BY <2>3, <2>4
  <2>5. CASE Tick
    <3>1. now' = now + 1
      BY <2>5 DEF Tick
    <3>2. now + 1 \in Ticks => acqLog[now + 1] = 0
      BY <2>2 DEF FutureIsEmpty
    <3>3. SpentSince(acqLog, now + 1, len) <= SpentSince(acqLog, now, len)
      BY <2>2, <3>2, SpentLater
    <3> QED BY <2>3, <3>1, <3>3
  <2> QED BY <2>4, <2>5
<1>3. HourLen \in Nat /\ DayLen \in Nat /\ AcquireMaxHour \in Nat /\ AcquireMaxDay \in Nat
  BY WindowParts
<1>4. FutureIsEmpty'
  <2>1. now \in Int /\ Ticks \subseteq Int
    BY ClockParts
  <2>2. now' = now \/ now' = now + 1
    BY DEF Tick
  <2> QED BY <2>1, <2>2 DEF FutureIsEmpty
<1>5. AcquisitionCapsExact'
  BY <1>2, <1>3 DEF CapsLeaveRoom, AcquisitionCapsExact
<1>6. \A d \in Callers : call'[d].pc = "executing" =>
         AcquisitionAllows(acqLog, call'[d].delta, AcquireMaxHour, AcquireMaxDay, now')
  BY <1>1, <1>2, <1>3 DEF CapsLeaveRoom, AcquisitionAllows, NobodyStarts
<1> QED BY <1>4, <1>5, <1>6 DEF CapsLeaveRoom

\* The target is kept by a step that moves money out of the wallet or from the
\* bridge into it, while nobody starts to execute.
LEMMA FillKept ==
  ASSUME ChainInv, LimitsInv, NobodyStarts, blind => blind',
         balance' \in Nat, transit' \in Nat, balance' + transit' <= balance + transit
  PROVE  FillLeavesRoom'
<1>1. \A t \in Targets : t \in Nat
  BY RouterAssumption
<1>2. balance \in Nat /\ transit \in Nat
  BY ClockParts DEF ChainInv
<1>3. \A d \in Callers : call[d].pc = "executing" => call[d].delta \in Nat
  BY CallParts DEF ChainInv
<1>4. SUFFICES ASSUME ~blind', NEW t \in Targets, \A u \in Targets : u <= t
               PROVE  /\ balance' + transit' <= t
                      /\ \A c \in Callers : call'[c].pc = "executing" =>
                            balance' + transit' + call'[c].delta <= t
  BY DEF FillLeavesRoom
<1>5. /\ balance + transit <= t
      /\ \A c \in Callers : call[c].pc = "executing" => balance + transit + call[c].delta <= t
  BY <1>4 DEF LimitsInv, FillLeavesRoom
<1>6. balance' + transit' <= t
  <2>1. t \in Nat /\ balance + transit <= t
    BY <1>1, <1>5
  <2>2. balance' \in Nat /\ transit' \in Nat /\ balance' + transit' <= balance + transit
    OBVIOUS
  <2>3. \A m, n, o \in Int : m <= n /\ n <= o => m <= o
    OBVIOUS
  <2>4. balance + transit \in Int /\ balance' + transit' \in Int /\ t \in Int
    BY <1>2, <2>1, <2>2
  <2> QED BY ONLY <2>1, <2>2, <2>3, <2>4
<1>7. ASSUME NEW c \in Callers, call'[c].pc = "executing"
      PROVE  balance' + transit' + call'[c].delta <= t
  <2>1. call'[c].delta = call[c].delta /\ call[c].delta \in Nat
        /\ balance + transit + call[c].delta <= t
    BY <1>3, <1>5, <1>7 DEF NobodyStarts
  <2>2. balance' \in Nat /\ transit' \in Nat /\ balance' + transit' <= balance + transit
    OBVIOUS
  <2>3. \A m, n, o, p \in Int : m <= n /\ n + o <= p => m + o <= p
    OBVIOUS
  <2>4. /\ balance + transit \in Int /\ balance' + transit' \in Int /\ t \in Int
        /\ call[c].delta \in Int
    BY <1>1, <1>2, <2>1, <2>2
  <2>5. balance' + transit' + call[c].delta <= t
    BY ONLY <2>1, <2>2, <2>3, <2>4
  <2> QED BY <2>1, <2>5
<1> QED BY <1>6, <1>7

\* Every step keeps the limits.
LEMMA LimitsStep == ChainInv /\ LimitsInv /\ [Next]_vars => LimitsInv'
<1> SUFFICES ASSUME ChainInv, LimitsInv, [Next]_vars PROVE LimitsInv'
  OBVIOUS
<1>1. balance \in Nat /\ transit \in Nat /\ now \in Nat /\ now \in Ticks
  BY ClockParts DEF ChainInv
<1>2. call \in [Callers -> Call] /\ acqLog \in [Ticks -> Nat]
  BY DEF ChainInv, TypeOK
<1>3. ASSUME acqLog' = acqLog, now' = now \/ Tick, NobodyStarts, blind => blind',
             balance' \in Nat, transit' \in Nat, balance' + transit' <= balance + transit
      PROVE  LimitsInv'
  BY <1>3, CapsKept, FillKept DEF LimitsInv
<1>4. ASSUME call' = call PROVE NobodyStarts
  BY <1>4 DEF NobodyStarts
<1>5. CASE UNCHANGED vars
  BY <1>1, <1>3, <1>4, <1>5 DEF vars
<1>6. CASE Tick
  BY <1>1, <1>3, <1>4, <1>6 DEF Tick
<1>7. CASE Lands
  BY <1>1, <1>3, <1>4, <1>7 DEF Lands
<1>8. CASE Spends
  BY <1>1, <1>3, <1>4, <1>8 DEF Spends
<1>9. CASE Deposit
  <2>1. FutureIsEmpty' /\ CapsLeaveRoom'
    BY <1>4, <1>9, CapsKept DEF Deposit
  <2>2. FillLeavesRoom'
    BY <1>9 DEF Deposit, FillLeavesRoom
  <2> QED BY <2>1, <2>2 DEF LimitsInv
<1>10. ASSUME NEW c \in Callers, NEW key \in Keys \cup {NoKey}, NEW target \in Targets,
              NEW dry \in BOOLEAN, Request(c, key, target, dry)
       PROVE  LimitsInv'
  <2>1. NobodyStarts
    BY <1>2, <1>10 DEF Request, NobodyStarts
  <2> QED BY <1>1, <1>3, <1>10, <2>1 DEF Request
<1>11. ASSUME NEW c \in Callers, Advance(c) PROVE LimitsInv'
  <2>1. call[c].pc \in {"reading", "executing"} =>
          \A d \in Callers : d # c => call[d].pc # "executing"
    BY DEF ChainInv, ChainExact
  <2>2. call[c].delta \in Nat /\ call[c].target \in Nat
    BY CallParts DEF ChainInv
  <2>3. Leaves(c) => NobodyStarts
    BY <1>2 DEF Leaves, NobodyStarts, NoCall
  <2>4. Leaves(c) /\ call[c].pc \in {"reading", "executing"} =>
          \A d \in Callers : call'[d].pc # "executing"
    BY <1>2, <2>1 DEF Leaves, NoCall
  <2>5. ASSUME Begin(c) PROVE LimitsInv'
    <3>1. NobodyStarts
      BY <1>2, <2>5 DEF Begin, NobodyStarts
    <3> QED BY <1>1, <1>3, <2>5, <3>1 DEF Begin
  <2>6. ASSUME RejectsWithChain(c) PROVE LimitsInv'
    BY <1>1, <1>3, <2>3, <2>6 DEF RejectsWithChain
  <2>7. ASSUME NEW seen \in Reads, NothingToDo(c, seen) PROVE LimitsInv'
    BY <1>1, <1>3, <2>3, <2>7 DEF NothingToDo
  <2>8. ASSUME NEW seen \in Reads, CapAllows(c, seen) PROVE LimitsInv'
    <3> DEFINE d == Delta(c, seen)
    <3>1. d \in Nat /\ (seen = balance => d + balance <= call[c].target \/ d = 0)
      BY <1>1, <2>2 DEF Delta, Reads
    <3>2. /\ call'[c].pc = "executing" /\ call'[c].delta = d
          /\ \A e \in Callers : e # c => call'[e].pc # "executing"
      BY <1>2, <2>1, <2>8 DEF CapAllows
    <3>3. FutureIsEmpty'
      BY <2>8 DEF CapAllows, LimitsInv, FutureIsEmpty
    <3>4. AcquisitionAllows(acqLog, d, AcquireMaxHour, AcquireMaxDay, now)
          /\ acqLog' = acqLog /\ now' = now /\ d # 0
      BY <2>8 DEF CapAllows
    <3>5. CapsLeaveRoom'
      BY <3>2, <3>4 DEF LimitsInv, CapsLeaveRoom, AcquisitionCapsExact
    <3>6. FillLeavesRoom'
      <4>1. SUFFICES ASSUME ~blind', NEW t \in Targets, \A u \in Targets : u <= t
                     PROVE  balance + transit <= t /\ balance + transit + d <= t
        BY <2>8, <3>2 DEF FillLeavesRoom, CapAllows
      <4>2. ~blind /\ seen = balance /\ ~(transit > 0)
        BY <2>8, <4>1 DEF CapAllows
      <4>3. transit = 0
        BY <1>1, <4>2
      <4>4. balance + transit <= t
        BY <4>1, <4>2 DEF LimitsInv, FillLeavesRoom
      <4>5. call[c].target <= t
        BY <2>8, <4>1 DEF CapAllows, ChainInv, CallsKnown
      <4>6. t \in Nat
        BY RouterAssumption
      <4> HIDE DEF d
      <4> QED BY <1>1, <2>2, <3>1, <3>4, <4>2, <4>3, <4>4, <4>5, <4>6
    <3> QED BY <3>3, <3>5, <3>6 DEF LimitsInv
  <2>9. ASSUME NEW sent \in BOOLEAN, RunRejects(c, sent) PROVE LimitsInv'
    <3>1. NobodyStarts /\ \A e \in Callers : call'[e].pc # "executing"
      BY <2>3, <2>4, <2>9 DEF RunRejects
    <3>2. FutureIsEmpty' /\ CapsLeaveRoom'
      BY <2>9, <3>1, CapsKept DEF RunRejects
    <3>3. CASE ~sent
      BY <1>1, <1>3, <2>9, <3>1, <3>3 DEF RunRejects
    <3>4. CASE sent
      <4>1. SUFFICES ASSUME ~blind', NEW t \in Targets, \A u \in Targets : u <= t
                     PROVE  balance' + transit' <= t
        BY <3>1, <3>2 DEF LimitsInv, FillLeavesRoom
      <4>2. balance' = balance /\ transit' = transit + call[c].delta /\ call[c].pc = "executing"
            /\ ~blind
        BY <2>9, <3>4, <4>1 DEF RunRejects
      <4>3. balance + transit + call[c].delta <= t
        BY <4>1, <4>2 DEF LimitsInv, FillLeavesRoom
      <4>4. t \in Nat
        BY RouterAssumption
      <4> QED BY <1>1, <2>2, <4>2, <4>3, <4>4
    <3> QED BY <3>3, <3>4
  <2>10. ASSUME DryRunReturns(c) PROVE LimitsInv'
    BY <1>1, <1>3, <2>3, <2>10 DEF DryRunReturns
  <2>11. ASSUME \E outcome \in {"landed", "under way", "reverted"} : Executed(c, outcome)
         PROVE  LimitsInv'
    <3>1. /\ \A e \in Callers : call'[e].pc # "executing"
          /\ call[c].pc = "executing" /\ now' = now /\ blind' = blind
          /\ acqLog' = Logged(acqLog, now, call[c].delta)
      BY <2>4, <2>11 DEF Executed
    <3>2. FutureIsEmpty'
      <4>1. \A s \in Ticks : s # now => acqLog'[s] = acqLog[s]
        BY <1>2, <3>1 DEF Logged
      <4>2. \A s \in Ticks : s > now => s # now
        BY <1>1, ClockParts DEF ChainInv
      <4> QED BY <3>1, <4>1, <4>2 DEF LimitsInv, FutureIsEmpty
    <3>3. \A len \in Nat :
             SpentSince(acqLog', now, len) = SpentSince(acqLog, now, len) + call[c].delta
      <4>1. Ticks \subseteq Int /\ IsFiniteSet(Ticks) /\ acqLog \in [Ticks -> Nat] /\ now \in Ticks
        BY <1>1, ClockParts DEF ChainInv, TypeOK
      <4>2. call[c].delta \in Nat
        BY <2>2
      <4>3. acqLog' = Logged(acqLog, now, call[c].delta)
        BY <3>1
      <4> QED BY ONLY <4>1, <4>2, <4>3, SpentLogged
    <3>4. AcquisitionAllows(acqLog, call[c].delta, AcquireMaxHour, AcquireMaxDay, now)
      BY <3>1 DEF LimitsInv, CapsLeaveRoom
    <3>5. HourLen \in Nat /\ DayLen \in Nat
      BY WindowParts DEF ChainInv
    <3>6. CapsLeaveRoom'
      BY <3>1, <3>3, <3>4, <3>5 DEF AcquisitionAllows, CapsLeaveRoom, AcquisitionCapsExact
    <3>7. FillLeavesRoom'
      <4>1. SUFFICES ASSUME ~blind', NEW t \in Targets, \A u \in Targets : u <= t
                     PROVE  balance' + transit' <= t
        BY <3>1 DEF FillLeavesRoom
      <4>2. balance + transit <= t /\ balance + transit + call[c].delta <= t
        BY <3>1, <4>1 DEF LimitsInv, FillLeavesRoom
      <4>3. \/ balance' = balance + call[c].delta /\ transit' = transit
            \/ balance' = balance /\ transit' = transit + call[c].delta
            \/ balance' = balance /\ transit' = transit
        BY <2>11 DEF Executed, Arrives
      <4>4. t \in Nat
        BY RouterAssumption
      <4> QED BY ONLY <1>1, <2>2, <4>2, <4>3, <4>4
    <3> QED BY <3>2, <3>6, <3>7 DEF LimitsInv
  <2> QED BY <1>11, <2>5, <2>6, <2>7, <2>8, <2>9, <2>10, <2>11 DEF Advance
<1> QED BY <1>5, <1>6, <1>7, <1>8, <1>9, <1>10, <1>11 DEF Next

\* Serial execution keeps the limits of the router, for any number of callers,
\* any caps, windows and targets: the rolling caps are exact at every moment,
\* although the check and the record are separated by quotes and a transaction,
\* and the wallet is not filled beyond its target (goat/acquisition.ts:246-334).
THEOREM AcquisitionAlwaysHolds == Spec => []AcquisitionHolds
<1>1. Init => ChainInv /\ LimitsInv
  BY ChainInit, LimitsInit
<1>2. (ChainInv /\ LimitsInv) /\ [Next]_vars => (ChainInv /\ LimitsInv)'
  BY ChainStep, LimitsStep
<1>3. ChainInv /\ LimitsInv => AcquisitionHolds
  <2>1. SUFFICES ASSUME ChainInv, LimitsInv, ~blind, NEW t \in Targets, \A u \in Targets : u <= t
                 PROVE  balance <= t
    BY DEF LimitsInv, CapsLeaveRoom, AcquisitionHolds, NeverOverfills
  <2>2. balance + transit <= t
    BY <2>1 DEF LimitsInv, FillLeavesRoom
  <2>3. balance \in Nat /\ transit \in Nat /\ t \in Nat
    BY <2>1, ClockParts, RouterAssumption DEF ChainInv
  <2> QED BY <2>2, <2>3
<1> QED BY <1>1, <1>2, <1>3, PTL DEF Spec

-------------------------------------------------------------------------------
(* The constants of the paths.                                             *)

\* What the paths are given: whole numbers, a share of at most the whole, and
\* the intents of the pegins.
LEMMA PathConstants ==
    /\ TargetOf \in [Swaps -> Nat \ {0}] /\ Rates \subseteq Nat /\ SlippageBps \in 0..10000
    /\ StartPeg \in Nat /\ QuoteTtl \in Nat /\ MaxPathTime \in Nat
    /\ DOMAIN IntentOf = Pegins /\ Tampered \subseteq {IntentOf[x] : x \in Pegins}
    /\ Wanted \in Nat \ {0} /\ SwapCosts \subseteq Nat
<1>1. {StartPeg, QuoteTtl, MaxPathTime} \subseteq Nat
  BY PathsAssumption
<1>2. TargetOf \in [Swaps -> Nat \ {0}] /\ Rates \subseteq Nat /\ SlippageBps \in 0..10000
  BY PathsAssumption, SMTT(30)
<1>3. DOMAIN IntentOf = Pegins /\ Tampered \subseteq {IntentOf[x] : x \in Pegins}
  BY PathsAssumption
<1>4. Wanted \in Nat \ {0} /\ SwapCosts \subseteq Nat
  BY PathsAssumption
<1> QED BY <1>1, <1>2, <1>3, <1>4

-------------------------------------------------------------------------------
(* Pegins.                                                                 *)

\* What is signed for an intent is signed by the one call that marked it, and
\* only a call that validated it reaches the bridge.
PeginInv ==
    /\ PeginTypeOK
    /\ \A x \in Pegins :
        /\ pegins[x] \in {"signing", "signed", "polling", "receipt"} => IntentOf[x] \in seenIntents
        /\ pegins[x] = "signing" =>
              /\ signatures[IntentOf[x]] = 0
              /\ \A y \in Pegins \ {x} : pegins[y] = "signing" => IntentOf[y] # IntentOf[x]
        /\ pegins[x] = "signed" => IntentOf[x] \notin Tampered
    /\ \A i \in Intents : signatures[i] = 1 => i \in seenIntents
    /\ SignedOncePerIntent

\* At the start no bitcoin is signed away.
LEMMA PeginInitially == PeginInit => PeginInv
<1> SUFFICES ASSUME PeginInit PROVE PeginInv
  OBVIOUS
<1>1. \A x \in Pegins : pegins[x] = "idle"
  BY DEF PeginInit
<1>2. /\ \A i \in Intents : signatures[i] = 0 /\ bridged[i] = "none"
      /\ Tampered \subseteq Intents
  BY PathConstants DEF PeginInit, Intents
<1>3. PeginTypeOK
  BY DEF PeginInit, PeginTypeOK
<1>4. SignedOncePerIntent
  BY <1>1, <1>2 DEF SignedOncePerIntent
<1> QED BY <1>1, <1>2, <1>3, <1>4 DEF PeginInv

\* A call that only gives up, or answers what the bridge answered, keeps it.
LEMMA PeginGoes ==
  ASSUME PeginInv, NEW x \in Pegins, NEW at \in {"quoted", "threw", "receipt"}, GoPegin(x, at),
         at = "receipt" => IntentOf[x] \in seenIntents /\ bridged[IntentOf[x]] = "minted",
         UNCHANGED <<seenIntents, bridged, signatures>>
  PROVE  PeginInv'
<1>1. /\ pegins'[x] = at
      /\ \A y \in Pegins \ {x} : pegins'[y] = pegins[y]
      /\ \A y \in Pegins : pegins'[y] \in {"signing", "signed", "polling"} => pegins'[y] = pegins[y] /\ y # x
  BY DEF PeginInv, PeginTypeOK, GoPegin
<1>2. PeginTypeOK'
  BY DEF PeginInv, PeginTypeOK, GoPegin
<1>3. SignedOncePerIntent'
  BY <1>1 DEF PeginInv, SignedOncePerIntent
<1> QED BY <1>1, <1>2, <1>3 DEF PeginInv

\* Every step of the peg-ins keeps their invariant.
LEMMA PeginStep == PeginInv /\ [PeginNext]_peginVars => PeginInv'
<1> SUFFICES ASSUME PeginInv, [PeginNext]_peginVars PROVE PeginInv'
  OBVIOUS
<1>1. CASE UNCHANGED peginVars
  BY <1>1 DEF peginVars, PeginInv, PeginTypeOK, SignedOncePerIntent
<1>2. ASSUME NEW x \in Pegins, QuotePegin(x) PROVE PeginInv'
  BY <1>2, PeginGoes DEF QuotePegin
<1>3. ASSUME NEW x \in Pegins, StartPegin(x) PROVE PeginInv'
  <2>1. ASSUME GoPegin(x, "threw"), UNCHANGED <<seenIntents, bridged, signatures>> PROVE PeginInv'
    BY <2>1, PeginGoes
  <2>2. ASSUME IntentOf[x] \notin seenIntents, GoPegin(x, "signing"),
               seenIntents' = seenIntents \cup {IntentOf[x]}, UNCHANGED <<bridged, signatures>>
        PROVE PeginInv'
    <3>1. /\ pegins'[x] = "signing" /\ \A y \in Pegins \ {x} : pegins'[y] = pegins[y]
          /\ IntentOf[x] \in Intents
      BY <2>2 DEF PeginInv, PeginTypeOK, GoPegin, Intents
    <3>2. PeginTypeOK'
      BY <2>2, <3>1 DEF PeginInv, PeginTypeOK, GoPegin
    <3>3. signatures[IntentOf[x]] = 0
      BY <2>2, <3>1 DEF PeginInv, PeginTypeOK, SignedOncePerIntent
    <3>4. SignedOncePerIntent'
      BY <2>2, <3>1 DEF PeginInv, SignedOncePerIntent
    <3> QED BY <2>2, <3>1, <3>2, <3>3, <3>4 DEF PeginInv
  <2> QED BY <1>3, <2>1, <2>2 DEF StartPegin
<1>4. ASSUME NEW x \in Pegins, SignPegin(x) PROVE PeginInv'
  <2>1. ASSUME GoPegin(x, "threw"), UNCHANGED <<seenIntents, bridged, signatures>> PROVE PeginInv'
    BY <2>1, PeginGoes
  <2>2. ASSUME GoPegin(x, IF OutputsMatchIntent(IntentOf[x]) THEN "signed" ELSE "threw"),
               signatures' = [signatures EXCEPT ![IntentOf[x]] = @ + 1],
               UNCHANGED <<seenIntents, bridged>>
        PROVE PeginInv'
    <3>0. pegins[x] = "signing" /\ IntentOf[x] \in Intents
      BY <1>4 DEF SignPegin, Intents
    <3>1. /\ pegins'[x] \in {"signed", "threw"} /\ \A y \in Pegins \ {x} : pegins'[y] = pegins[y]
          /\ pegins'[x] = "signed" => IntentOf[x] \notin Tampered
      BY <2>2 DEF PeginInv, PeginTypeOK, GoPegin, OutputsMatchIntent
    <3>2. /\ signatures' \in [Intents -> Nat] /\ signatures'[IntentOf[x]] = 1
          /\ \A i \in Intents \ {IntentOf[x]} : signatures'[i] = signatures[i]
      BY <2>2, <3>0 DEF PeginInv, PeginTypeOK
    <3>3. PeginTypeOK'
      BY <2>2, <3>1, <3>2 DEF PeginInv, PeginTypeOK, GoPegin
    <3>4. SignedOncePerIntent'
      BY <2>2, <3>1, <3>2 DEF PeginInv, SignedOncePerIntent
    <3>5. \A y \in Pegins \ {x} : pegins'[y] = "signing" => IntentOf[y] # IntentOf[x] /\ IntentOf[y] \in Intents
      BY <3>0, <3>1 DEF PeginInv, Intents
    <3> QED BY <2>2, <3>0, <3>1, <3>2, <3>3, <3>4, <3>5 DEF PeginInv
  <2> QED BY <1>4, <2>1, <2>2 DEF SignPegin
<1>5. ASSUME NEW x \in Pegins, BroadcastPegin(x) PROVE PeginInv'
  <2>1. ASSUME GoPegin(x, "threw"), UNCHANGED <<seenIntents, bridged, signatures>> PROVE PeginInv'
    BY <2>1, PeginGoes
  <2>2. ASSUME bridged' = [bridged EXCEPT ![IntentOf[x]] = IF @ = "none" THEN "pending" ELSE @],
               NEW at \in {"polling", "threw"}, GoPegin(x, at), UNCHANGED <<seenIntents, signatures>>
        PROVE PeginInv'
    <3>0. /\ pegins[x] = "signed" /\ IntentOf[x] \in Intents /\ IntentOf[x] \notin Tampered
          /\ IntentOf[x] \in seenIntents
      BY <1>5 DEF BroadcastPegin, Intents, PeginInv
    <3>1. pegins'[x] = at /\ \A y \in Pegins \ {x} : pegins'[y] = pegins[y]
      BY <2>2 DEF PeginInv, PeginTypeOK, GoPegin
    <3>2. /\ bridged'[IntentOf[x]] \in {"pending", "minted", "failed"}
          /\ bridged[IntentOf[x]] = "minted" => bridged'[IntentOf[x]] = "minted"
          /\ \A i \in Intents \ {IntentOf[x]} : bridged'[i] = bridged[i]
      BY <2>2, <3>0 DEF PeginInv, PeginTypeOK
    <3>3. PeginTypeOK'
      BY <2>2, <3>0, <3>1, <3>2 DEF PeginInv, PeginTypeOK, GoPegin
    <3>4. SignedOncePerIntent'
      <4>1. \A i \in Tampered : bridged'[i] = "none"
        BY <3>0, <3>2, PathConstants DEF PeginInv, SignedOncePerIntent, Intents
      <4>2. \A y \in Pegins : pegins'[y] = "receipt" => bridged'[IntentOf[y]] = "minted"
        BY <2>2, <3>1, <3>2 DEF PeginInv, SignedOncePerIntent, Intents
      <4> QED BY <2>2, <4>1, <4>2 DEF PeginInv, SignedOncePerIntent
    <3> QED BY <2>2, <3>0, <3>1, <3>3, <3>4 DEF PeginInv
  <2> QED BY <1>5, <2>1, <2>2 DEF BroadcastPegin
<1>6. ASSUME NEW x \in Pegins, PollPegin(x) PROVE PeginInv'
  <2>1. IntentOf[x] \in seenIntents
    BY <1>6 DEF PollPegin, PeginInv
  <2> QED BY <1>6, <2>1, PeginGoes DEF PollPegin
<1>7. ASSUME NEW i \in Intents, MintPegin(i) PROVE PeginInv'
  <2>1. /\ bridged[i] = "pending" /\ bridged' \in [Intents -> {"none", "pending", "minted", "failed"}]
        /\ \A j \in Intents \ {i} : bridged'[j] = bridged[j]
        /\ UNCHANGED <<pegins, seenIntents, signatures>>
    BY <1>7 DEF MintPegin, PeginInv, PeginTypeOK
  <2>2. i \notin Tampered
    BY <2>1 DEF PeginInv, SignedOncePerIntent
  <2>3. SignedOncePerIntent'
    BY <2>1, <2>2, PathConstants, SMTT(30) DEF PeginInv, SignedOncePerIntent, Intents
  <2> QED BY <2>1, <2>3 DEF PeginInv, PeginTypeOK
<1> QED BY <1>1, <1>2, <1>3, <1>4, <1>5, <1>6, <1>7 DEF PeginNext

-------------------------------------------------------------------------------
(* Swaps.                                                                  *)

\* The mutex of GoatDexSwap holds the swaps that wait, sign or are sent, each of them once.
SwapsChained == {s \in Swaps : swaps[s].at \in {"queued", "signing", "sent"}}

\* What a sheet showed is what the wallet holds until PegBTC goes elsewhere, and
\* a quote is within it, and true of the price until the price moves.
QuoteStands(s) ==
    LET w == swaps[s] IN
    /\ w.at \in {"sheet", "quoted", "queued", "signing", "sent"} /\ ~w.rivalled => peg = w.held
    /\ w.at \in {"quoted", "queued", "signing", "sent"} =>
          /\ w.quote.exact <= w.quote.most /\ w.quote.most <= w.held
          /\ ~w.moved => /\ TargetOf[s] * rate # 0
                         /\ w.quote.exact = (TargetOf[s] * TargetOf[s]) \div (TargetOf[s] * rate)
          /\ w.quote.least = (TargetOf[s] * (10000 - SlippageBps)) \div 10000

RevertExplained(s) ==
    swaps[s].reverted =>
        /\ swaps[s].at = "receipt"
        /\ \/ swaps[s].moved \/ swaps[s].rivalled
           \/ (TargetOf[s] % rate) * 10000 > TargetOf[s] * SlippageBps

SwapInv ==
    /\ SwapTypeOK
    /\ Queues(swapQueue, SwapsChained) /\ OneSwapAtATime
    /\ \A s \in Swaps : QuoteStands(s) /\ RevertExplained(s)

\* The amounts of a swap.
LEMMA MulLess ==
  ASSUME NEW a \in Nat, NEW x \in Int, NEW y \in Int, a * x < a * y
  PROVE x < y
<1> SUFFICES ASSUME y <= x PROVE FALSE
  OBVIOUS
<1>1. a * y <= a * x
  <2>1. PICK d \in Nat : x = y + d
    <3> WITNESS x - y \in Nat
    <3> QED OBVIOUS
  <2>2. a * x = a * y + a * d
    BY <2>1
  <2>3. a * d \in Nat
    OBVIOUS
  <2> QED BY <2>2, <2>3
<1> QED BY <1>1

\* If the exact amount that a probe of t suggests brings less at that very
\* price than the least the slippage allows, then the amount was rounded down by
\* more than the slippage.
ExactAt(t, r) == (t * t) \div (t * r)
LeastOf(t) == (t * (10000 - SlippageBps)) \div 10000
RoundsAway(t, r) == (t % r) * 10000 > t * SlippageBps

\* What the quote buys is less than the least accepted only when the rounding
\* of the two divisions outweighs the slippage.
LEMMA ShortIsRounding ==
  ASSUME NEW t \in Nat \ {0}, NEW r \in Nat, t * r # 0, ExactAt(t, r) * r < LeastOf(t)
  PROVE  RoundsAway(t, r)
<1> DEFINE s == SlippageBps
           e == ExactAt(t, r)
           l == LeastOf(t)
<1> e = (t * t) \div (t * r) /\ l = (t * (10000 - s)) \div 10000 /\ e * r < l
  BY DEF ExactAt, LeastOf
<1> s \in 0..10000
  BY PathConstants
<1> HIDE DEF s, e, l
<1>0. r # 0
  <2>1. r = 0 => t * r = 0
    OBVIOUS
  <2> QED BY <2>1
<1>1. e \in Nat /\ (t * r) * e <= t * t /\ t * t < (t * r) * e + t * r
  <2> DEFINE a == t * t
             b == t * r
  <2>1. a \in Nat /\ b \in Nat \ {0} /\ e = a \div b
    OBVIOUS
  <2> HIDE DEF a, b
  <2>2. e \in Nat /\ b * e <= a /\ a < b * e + b
    BY <2>1
  <2> QED BY <2>2 DEF a, b
<1>2. l \in Nat /\ 10000 * l <= t * (10000 - s)
  <2> DEFINE a == t * (10000 - s)
  <2>1. a \in Nat /\ l = a \div 10000
    OBVIOUS
  <2> HIDE DEF a
  <2>2. l \in Nat /\ 10000 * l <= a
    BY <2>1
  <2> QED BY <2>2 DEF a
<1>3. r * e \in Nat /\ r * e = e * r /\ (t * r) * e = t * (r * e)
  BY <1>1
<1>4. t * (r * e) < t * (t + 1) /\ t * t < t * (r * e + r)
  BY <1>1, <1>3
<1>5. r * e <= t /\ t < r * e + r
  BY <1>3, <1>4, MulLess
<1>6. (t % r) = t - r * e
  <2> DEFINE q == t \div r
             m == t % r
  <2>1. r \in Nat \ {0} /\ q \in Nat /\ m \in Nat /\ m < r /\ t = r * q + m
    BY <1>0
  <2> HIDE DEF q, m
  <2>2. r * q \in Nat /\ r * (e + 1) = r * e + r /\ r * (q + 1) = r * q + r
    BY <1>1, <2>1
  <2>3. r * q < r * (e + 1) /\ r * e < r * (q + 1)
    BY <1>3, <1>5, <2>1, <2>2
  <2>4. q < e + 1 /\ e < q + 1
    BY <1>1, <2>1, <2>3, MulLess
  <2>5. q = e
    BY <1>1, <2>1, <2>4
  <2>6. m = t - r * e
    BY <2>1, <2>5, <1>3
  <2> QED BY <2>6 DEF m
<1>7. t * (10000 - s) = t * 10000 - t * s /\ t * s \in Nat
  OBVIOUS
<1>8. (t - r * e) * 10000 > t * s
  BY <1>2, <1>3, <1>7
<1> QED BY <1>6, <1>8 DEF RoundsAway, s

\* What a swap is made of.
LEMMA SwapParts ==
  ASSUME SwapTypeOK, NEW s \in Swaps
  PROVE  /\ swaps[s] \in SwapCalls /\ swaps[s].quote \in Quotes
         /\ swaps[s].held \in Nat
         /\ swaps[s].quote.exact \in Nat /\ swaps[s].quote.most \in Nat /\ swaps[s].quote.least \in Nat
         /\ rate \in Nat /\ peg \in Nat /\ TargetOf[s] \in Nat \ {0} /\ SlippageBps \in 0..10000
<1>1. swaps[s] \in SwapCalls /\ rate \in Rates /\ peg \in 0..StartPeg
  BY DEF SwapTypeOK
<1>2. swaps[s].quote \in Quotes /\ swaps[s].held \in Nat
  BY <1>1 DEF SwapCalls
<1>3. swaps[s].quote.exact \in Nat /\ swaps[s].quote.most \in Nat /\ swaps[s].quote.least \in Nat
  BY <1>2 DEF Quotes
<1>4. /\ Rates \subseteq Nat /\ StartPeg \in Nat /\ TargetOf[s] \in Nat \ {0}
      /\ SlippageBps \in 0..10000
  BY PathConstants
<1>5. rate \in Nat /\ peg \in Nat
  BY <1>1, <1>4
<1> QED BY <1>1, <1>2, <1>3, <1>4, <1>5

\* What a quote says.
LEMMA QuoteParts ==
  ASSUME NEW t \in Nat \ {0}, NEW probe \in Nat \ {0}, pathNow \in Nat
  PROVE  LET q == SwapQuote(t, probe) IN
         /\ q \in Quotes /\ q.exact = (t * t) \div probe /\ q.exact <= q.most
         /\ q.least = (t * (10000 - SlippageBps)) \div 10000
<1> DEFINE a == t * t
           e == a \div probe
           m == (e * (10000 + SlippageBps)) \div 10000
           b == t * (10000 - SlippageBps)
           l == b \div 10000
           u == pathNow + QuoteTtl
<1>1. SlippageBps \in 0..10000 /\ QuoteTtl \in Nat
  BY PathConstants
<1>2. a \in Nat /\ b \in Nat /\ u \in Nat
  BY <1>1
<1>3. SwapQuote(t, probe) = [exact |-> e, most |-> m, least |-> l, until |-> u]
  BY DEF SwapQuote
<1> HIDE DEF a, b, u
<1>4. e \in Nat /\ l \in Nat
  BY <1>2
<1> HIDE DEF e, l
<1>5. m \in Nat /\ e <= m
  <2> DEFINE c == e * (10000 + SlippageBps)
             d == e * SlippageBps
  <2>1. d \in Nat /\ c = e * 10000 + d /\ c \in Nat
    BY <1>1, <1>4
  <2>2. m = c \div 10000
    OBVIOUS
  <2> HIDE DEF c, d, m
  <2>3. m \in Nat /\ c < 10000 * m + 10000
    BY <2>1, <2>2
  <2> QED BY <1>1, <1>4, <2>1, <2>3
<1> HIDE DEF m
<1>6. /\ [exact |-> e, most |-> m, least |-> l, until |-> u] \in Quotes
  BY <1>2, <1>4, <1>5 DEF Quotes
<1> QED BY <1>3, <1>5, <1>6 DEF a, b, e, l

\* At the start no swap is under way.
LEMMA SwapInitially == SwapInit => SwapInv
<1> SUFFICES ASSUME SwapInit PROVE SwapInv
  OBVIOUS
<1>1. \A s \in Swaps : swaps[s].at = "idle" /\ ~swaps[s].reverted /\ swaps[s] \in SwapCalls
  BY DEF SwapInit, SwapCalls, Quotes, NoQuote
<1>2. SwapTypeOK
  <2>1. swaps \in [Swaps -> SwapCalls]
    BY <1>1 DEF SwapInit
  <2>2. pathNow \in 0..MaxPathTime /\ peg \in 0..StartPeg
    BY PathConstants DEF SwapInit
  <2>3. rate \in Rates /\ swapQueue = << >> /\ swapBroken \in BOOLEAN
    BY DEF SwapInit
  <2>4. << >> \in Seq(Swaps)
    OBVIOUS
  <2> QED BY <2>1, <2>2, <2>3, <2>4 DEF SwapTypeOK
<1>3. Queues(swapQueue, SwapsChained)
  BY <1>1 DEF SwapInit, SwapsChained, Queues
<1>4. ASSUME NEW s \in Swaps PROVE QuoteStands(s) /\ RevertExplained(s)
  <2>1. swaps[s].at \notin {"sheet", "quoted", "queued", "signing", "sent"} /\ ~swaps[s].reverted
    BY <1>1
  <2>2. RevertExplained(s)
    BY <2>1 DEF RevertExplained
  <2>3. QuoteStands(s)
    BY <2>1 DEF QuoteStands
  <2> QED BY <2>2, <2>3
<1> QED BY <1>1, <1>2, <1>3, <1>4 DEF SwapInv, OneSwapAtATime

\* One swap changes, while the price and the wallet's PegBTC stay.
LEMMA SwapAlone ==
  ASSUME SwapInv, NEW s \in Swaps, NEW w \in SwapCalls, swaps' = [swaps EXCEPT ![s] = w],
         UNCHANGED <<rate, peg>>, QuoteStands(s)', ~w.reverted,
         SwapTypeOK'
  PROVE  /\ swaps'[s] = w /\ \A o \in Swaps \ {s} : swaps'[o] = swaps[o]
         /\ \A o \in Swaps : QuoteStands(o)' /\ RevertExplained(o)'
<1>1. swaps'[s] = w /\ \A o \in Swaps \ {s} : swaps'[o] = swaps[o]
  BY DEF SwapInv, SwapTypeOK
<1>2. ASSUME NEW o \in Swaps \ {s} PROVE QuoteStands(o)' /\ RevertExplained(o)'
  BY <1>1, <1>2 DEF SwapInv, QuoteStands, RevertExplained
<1>3. RevertExplained(s)'
  BY <1>1 DEF RevertExplained
<1> QED BY <1>1, <1>2, <1>3

\* It neither joins nor leaves the queue.
LEMMA SwapStays ==
  ASSUME SwapInv, NEW s \in Swaps, NEW w \in SwapCalls, swaps' = [swaps EXCEPT ![s] = w],
         UNCHANGED <<pathNow, rate, peg, swapQueue, swapBroken>>, QuoteStands(s)', ~w.reverted,
         w.at \in {"queued", "signing", "sent"} <=> swaps[s].at \in {"queued", "signing", "sent"},
         w.at \in {"signing", "sent"} => FirstSwap(s)
  PROVE  SwapInv'
<1>1. SwapTypeOK'
  BY DEF SwapInv, SwapTypeOK
<1>2. /\ swaps'[s] = w /\ \A o \in Swaps \ {s} : swaps'[o] = swaps[o]
      /\ \A o \in Swaps : QuoteStands(o)' /\ RevertExplained(o)'
  BY <1>1, SwapAlone
<1>3. SwapsChained' = SwapsChained
  BY <1>2 DEF SwapsChained
<1>4. OneSwapAtATime'
  BY <1>2 DEF SwapInv, OneSwapAtATime, FirstSwap
<1> QED BY <1>1, <1>2, <1>3, <1>4 DEF SwapInv

SwapStates == {"idle", "sheet", "quoted", "queued", "signing", "sent", "receipt", "threw"}

\* A swap that moves on keeps its sheet and its quote.
LEMMA SwapMoves ==
  ASSUME SwapTypeOK, NEW s \in Swaps, NEW at \in SwapStates, GoSwap(s, at), UNCHANGED <<rate, peg>>,
         QuoteStands(s),
         at \in {"threw", "receipt"} \/ (/\ at \in {"queued", "signing", "sent"}
                                         /\ swaps[s].at \in {"quoted", "queued", "signing", "sent"})
  PROVE  \E w \in SwapCalls : /\ swaps' = [swaps EXCEPT ![s] = w] /\ swaps'[s] = w
                              /\ w.at = at /\ w.reverted = swaps[s].reverted
                              /\ QuoteStands(s)'
<1> DEFINE w == [swaps[s] EXCEPT !.at = at]
<1>1. /\ w \in SwapCalls /\ swaps' = [swaps EXCEPT ![s] = w] /\ swaps'[s] = w
      /\ w.at = at /\ w.reverted = swaps[s].reverted /\ w.held = swaps[s].held /\ w.quote = swaps[s].quote
      /\ w.moved = swaps[s].moved /\ w.rivalled = swaps[s].rivalled
  BY DEF SwapCalls, GoSwap, SwapTypeOK, SwapStates
<1> HIDE DEF w
<1>2. QuoteStands(s)'
  BY <1>1 DEF QuoteStands
<1> QED BY <1>1, <1>2

\* The head of the queue leaves it, for good: it was the one that could sign.
LEMMA SwapLeaves ==
  ASSUME SwapInv, NEW s \in Swaps, FirstSwap(s), swapQueue' = Tail(swapQueue),
         swaps'[s].at \in {"receipt", "threw"},
         \A o \in Swaps \ {s} : swaps'[o].at = swaps[o].at
  PROVE  Queues(swapQueue, SwapsChained)' /\ OneSwapAtATime' /\ swapQueue' \in Seq(Swaps)
<1>1. SwapsChained' = SwapsChained \ {s}
  BY DEF SwapsChained
<1>2. Queues(swapQueue, SwapsChained) /\ swapQueue # << >> /\ swapQueue \in Seq(Swaps) /\ Head(swapQueue) = s
  BY DEF SwapInv, SwapTypeOK, FirstSwap
<1>3. Queues(Tail(swapQueue), SwapsChained \ {s}) /\ Tail(swapQueue) \in Seq(Swaps)
  BY <1>2, QueueLeft
<1>4. \A o \in Swaps : swaps'[o].at \notin {"signing", "sent"}
  BY <1>2 DEF SwapInv, OneSwapAtATime, FirstSwap
<1> QED BY <1>1, <1>3, <1>4 DEF OneSwapAtATime

\* A mined swap: the others are overtaken, or nothing was taken.
LEMMA SwapMined ==
  ASSUME SwapInv, NEW s \in Swaps, MineSwap(s)
  PROVE  SwapInv'
<1> DEFINE q == swaps[s].quote
           done == peg >= q.exact /\ q.exact * rate >= q.least
<1>0. SwapTypeOK /\ swaps[s] \in SwapCalls
  BY SwapParts DEF SwapInv
<1>1. /\ swaps[s].at = "sent" /\ FirstSwap(s) /\ QuoteStands(s)
      /\ peg' = IF done THEN peg - q.exact ELSE peg
      /\ swapQueue' = Tail(swapQueue) /\ UNCHANGED <<pathNow, rate, swapBroken>>
  BY DEF MineSwap, SwapInv, OneSwapAtATime
<1>2. /\ swaps'[s] \in SwapCalls /\ swaps'[s].at = "receipt" /\ (swaps'[s].reverted <=> ~done)
      /\ swaps'[s].moved = swaps[s].moved /\ swaps'[s].rivalled = swaps[s].rivalled
  BY <1>0 DEF MineSwap, SwapCalls
<1>3. ASSUME NEW o \in Swaps \ {s}
      PROVE  /\ swaps'[o] \in SwapCalls /\ (swaps'[o].rivalled <=> (swaps[o].rivalled \/ done))
             /\ swaps'[o].at = swaps[o].at /\ swaps'[o].held = swaps[o].held
             /\ swaps'[o].quote = swaps[o].quote /\ swaps'[o].moved = swaps[o].moved
             /\ swaps'[o].reverted = swaps[o].reverted
  <2>1. swaps[o] \in SwapCalls /\ swaps'[o] = [swaps[o] EXCEPT !.rivalled = @ \/ done]
    BY <1>0, <1>3, SwapParts DEF MineSwap
  <2> QED BY <2>1 DEF SwapCalls
<1>4. /\ peg' \in 0..StartPeg /\ (~done => peg' = peg)
  <2>1. peg \in 0..StartPeg /\ q.exact \in Nat /\ StartPeg \in Nat
    BY <1>0, SwapParts, PathConstants, SMTT(30) DEF SwapTypeOK
  <2> QED BY <1>1, <2>1
<1>5. ~done /\ ~swaps[s].moved /\ ~swaps[s].rivalled =>
        (TargetOf[s] % rate) * 10000 > TargetOf[s] * SlippageBps
  <2> SUFFICES ASSUME ~done, ~swaps[s].moved, ~swaps[s].rivalled
               PROVE  (TargetOf[s] % rate) * 10000 > TargetOf[s] * SlippageBps
    OBVIOUS
  <2>1. /\ peg = swaps[s].held /\ q.exact <= q.most /\ q.most <= swaps[s].held
        /\ TargetOf[s] * rate # 0
        /\ q.exact = (TargetOf[s] * TargetOf[s]) \div (TargetOf[s] * rate)
        /\ q.least = (TargetOf[s] * (10000 - SlippageBps)) \div 10000
    BY <1>1 DEF QuoteStands
  <2>2. /\ q.exact \in Nat /\ q.most \in Nat /\ q.least \in Nat /\ swaps[s].held \in Nat /\ rate \in Nat
        /\ TargetOf[s] \in Nat \ {0} /\ SlippageBps \in 0..10000
    BY <1>0, SwapParts
  <2> HIDE DEF q
  <2>3. peg >= q.exact
    BY <2>1, <2>2
  <2>4. q.exact * rate < q.least
    <3>1. q.exact * rate \in Nat
      BY <2>2
    <3> QED BY <2>2, <2>3, <3>1
  <2>5. q.exact = ExactAt(TargetOf[s], rate) /\ q.least = LeastOf(TargetOf[s])
    BY <2>1 DEF ExactAt, LeastOf
  <2>6. RoundsAway(TargetOf[s], rate)
    BY <2>1, <2>2, <2>4, <2>5, ShortIsRounding
  <2> QED BY <2>6 DEF RoundsAway
<1> HIDE DEF done
<1>6. Queues(swapQueue, SwapsChained)' /\ OneSwapAtATime' /\ swapQueue' \in Seq(Swaps)
  BY <1>1, <1>2, <1>3, SwapLeaves
<1>7. SwapTypeOK'
  <2>1. swaps' \in [Swaps -> SwapCalls]
    BY <1>2, <1>3 DEF MineSwap
  <2> QED BY <1>0, <1>1, <1>4, <1>6, <2>1 DEF SwapTypeOK
<1>8. QuoteStands(s)' /\ RevertExplained(s)'
  BY <1>1, <1>2, <1>5 DEF QuoteStands, RevertExplained
<1>9. ASSUME NEW o \in Swaps \ {s} PROVE QuoteStands(o)' /\ RevertExplained(o)'
  BY <1>1, <1>3, <1>4 DEF SwapInv, QuoteStands, RevertExplained
<1> QED BY <1>6, <1>7, <1>8, <1>9 DEF SwapInv

\* Every step of the swaps keeps their invariant.
LEMMA SwapStep == SwapInv /\ [SwapNext]_swapVars => SwapInv'
<1> SUFFICES ASSUME SwapInv, [SwapNext]_swapVars PROVE SwapInv'
  OBVIOUS
<1>0. SwapTypeOK
  BY DEF SwapInv
<1>1. CASE UNCHANGED swapVars
  BY <1>1 DEF swapVars, SwapInv, SwapTypeOK, SwapsChained, OneSwapAtATime, FirstSwap, QuoteStands,
              RevertExplained
<1>2. ASSUME NEW s \in Swaps, ReadSheet(s) PROVE SwapInv'
  <2>1. PICK held \in {peg, 0} :
          swaps' = [swaps EXCEPT ![s].at = IF held > 0 THEN "sheet" ELSE "threw", ![s].held = held,
                                 ![s].rivalled = FALSE]
    BY <1>2 DEF ReadSheet
  <2> DEFINE w == [swaps[s] EXCEPT !.at = IF held > 0 THEN "sheet" ELSE "threw", !.held = held,
                                   !.rivalled = FALSE]
  <2>2. held \in Nat /\ swaps[s] \in SwapCalls /\ (held > 0 => held = peg)
    BY <1>0, SwapParts
  <2>3. w \in SwapCalls /\ w.held = held /\ w.at \in {"sheet", "threw"} /\ (w.at = "sheet" => held > 0)
        /\ w.reverted = swaps[s].reverted
    BY <2>2 DEF SwapCalls
  <2>4. swaps' = [swaps EXCEPT ![s] = w]
    BY <2>1, <1>0 DEF SwapTypeOK
  <2> HIDE DEF w
  <2>5. ~w.reverted /\ swaps[s].at = "idle" /\ UNCHANGED <<pathNow, rate, peg, swapQueue, swapBroken>>
    BY <1>2, <2>3 DEF ReadSheet, SwapInv, RevertExplained
  <2>6. swaps'[s] = w
    BY <2>4, <1>0 DEF SwapTypeOK
  <2>7. QuoteStands(s)'
    BY <2>2, <2>3, <2>5, <2>6 DEF QuoteStands
  <2> QED BY <2>3, <2>4, <2>5, <2>7, SwapStays
<1>3. ASSUME NEW s \in Swaps, QuoteSwap(s) PROVE SwapInv'
  <2> DEFINE probe == TargetOf[s] * rate
             quote == SwapQuote(TargetOf[s], probe)
  <2>1. /\ swaps[s].at = "sheet" /\ ~swaps[s].reverted
        /\ UNCHANGED <<pathNow, rate, peg, swapQueue, swapBroken>>
        /\ swaps[s] \in SwapCalls /\ pathNow \in Nat
    <3>1. swaps[s].at = "sheet" /\ UNCHANGED <<pathNow, rate, peg, swapQueue, swapBroken>>
      BY <1>3 DEF QuoteSwap
    <3>2. ~swaps[s].reverted
      BY <1>0, <3>1 DEF SwapInv, RevertExplained
    <3>3. pathNow \in 0..MaxPathTime /\ MaxPathTime \in Nat
      BY <1>0, PathConstants DEF SwapTypeOK
    <3>4. swaps[s] \in SwapCalls
      BY <1>0, SwapParts
    <3> QED BY <3>1, <3>2, <3>3, <3>4
  <2>2. ASSUME probe # 0, swaps[s].held >= quote.most,
               swaps' = [swaps EXCEPT ![s].at = "quoted", ![s].quote = quote, ![s].moved = FALSE]
        PROVE  SwapInv'
    <3>1. probe \in Nat \ {0} /\ TargetOf[s] \in Nat \ {0}
      BY <1>0, <2>2, SwapParts
    <3>2. /\ quote \in Quotes /\ quote.exact = (TargetOf[s] * TargetOf[s]) \div probe
          /\ quote.exact <= quote.most
          /\ quote.least = (TargetOf[s] * (10000 - SlippageBps)) \div 10000
      BY <2>1, <3>1, QuoteParts
    <3>3. TargetOf[s] * rate # 0 /\ quote.exact = (TargetOf[s] * TargetOf[s]) \div (TargetOf[s] * rate)
      BY <2>2, <3>2
    <3> HIDE DEF quote, probe
    <3> DEFINE w == [swaps[s] EXCEPT !.at = "quoted", !.quote = quote, !.moved = FALSE]
    <3>4. /\ w \in SwapCalls /\ w.held = swaps[s].held /\ w.at = "quoted" /\ w.quote = quote
          /\ w.rivalled = swaps[s].rivalled /\ w.reverted = swaps[s].reverted
      <4>1. swaps[s] \in SwapCalls /\ quote \in Quotes
        BY <2>1, <3>2
      <4> QED BY ONLY <4>1 DEF SwapCalls
    <3>5. swaps' = [swaps EXCEPT ![s] = w] /\ swaps'[s] = w
      BY <1>0, <2>2 DEF SwapTypeOK
    <3> HIDE DEF w
    <3>6. peg' = swaps'[s].held \/ swaps'[s].rivalled
      BY <2>1, <3>4, <3>5 DEF SwapInv, QuoteStands
    <3>7. quote.most \in Nat /\ swaps[s].held \in Nat
      BY <1>0, <3>2, SwapParts DEF Quotes
    <3>8. quote.most <= swaps'[s].held
      BY <2>2, <3>4, <3>5, <3>7
    <3>9. QuoteStands(s)'
      BY <2>1, <3>2, <3>3, <3>4, <3>5, <3>6, <3>8 DEF QuoteStands
    <3> QED BY <2>1, <3>4, <3>5, <3>9, SwapStays
  <2>3. ASSUME GoSwap(s, "threw") PROVE SwapInv'
    <3>1. PICK w \in SwapCalls : /\ swaps' = [swaps EXCEPT ![s] = w] /\ w.at = "threw" /\ ~w.reverted
                                 /\ QuoteStands(s)'
      BY <1>0, <2>1, <2>3, SwapMoves DEF SwapInv, SwapStates
    <3> QED BY <2>1, <3>1, SwapStays
  <2> QED BY <1>3, <2>2, <2>3 DEF QuoteSwap
<1>4. ASSUME NEW s \in Swaps, ExecuteSwap(s) PROVE SwapInv'
  <2>1. /\ swaps[s].at = "quoted" /\ ~swaps[s].reverted
        /\ UNCHANGED <<pathNow, rate, peg, swapBroken>> /\ QuoteStands(s)
    BY <1>4 DEF ExecuteSwap, SwapInv, RevertExplained
  <2>2. ASSUME GoSwap(s, "threw"), UNCHANGED swapQueue PROVE SwapInv'
    <3>1. PICK w \in SwapCalls : /\ swaps' = [swaps EXCEPT ![s] = w] /\ w.at = "threw" /\ ~w.reverted
                                 /\ QuoteStands(s)'
      BY <1>0, <2>1, <2>2, SwapMoves DEF SwapStates
    <3> QED BY <2>1, <2>2, <3>1, SwapStays
  <2>3. ASSUME GoSwap(s, "queued"), swapQueue' = Append(swapQueue, s) PROVE SwapInv'
    <3>1. PICK w \in SwapCalls : /\ swaps' = [swaps EXCEPT ![s] = w] /\ w.at = "queued" /\ ~w.reverted
                                 /\ QuoteStands(s)'
      BY <1>0, <2>1, <2>3, SwapMoves DEF SwapStates
    <3>2. s \notin SwapsChained /\ Queues(swapQueue, SwapsChained) /\ swapQueue \in Seq(Swaps)
      BY <2>1 DEF SwapsChained, SwapInv, SwapTypeOK
    <3>3. /\ swapQueue' \in Seq(Swaps) /\ Queues(swapQueue', SwapsChained \cup {s})
          /\ swapQueue # << >> => swapQueue' # << >> /\ Head(swapQueue') = Head(swapQueue)
      BY <2>3, <3>2, QueueJoined
    <3>4. SwapTypeOK'
      BY <2>1, <3>1, <3>3 DEF SwapInv, SwapTypeOK
    <3>5. /\ swaps'[s] = w /\ \A o \in Swaps \ {s} : swaps'[o] = swaps[o]
          /\ \A o \in Swaps : QuoteStands(o)' /\ RevertExplained(o)'
      BY <2>1, <3>1, <3>4, SwapAlone
    <3>6. SwapsChained' = SwapsChained \cup {s}
      BY <3>1, <3>5 DEF SwapsChained
    <3>7. OneSwapAtATime'
      BY <3>1, <3>3, <3>5 DEF SwapInv, OneSwapAtATime, FirstSwap
    <3> QED BY <3>3, <3>4, <3>5, <3>6, <3>7 DEF SwapInv
  <2> QED BY <1>4, <2>2, <2>3 DEF ExecuteSwap
<1>5. ASSUME NEW s \in Swaps, BeginSwap(s) \/ SendSwap(s) PROVE SwapInv'
  <2>1. /\ swaps[s].at \in {"queued", "signing"} /\ ~swaps[s].reverted /\ FirstSwap(s)
        /\ UNCHANGED <<pathNow, rate, peg, swapQueue, swapBroken>> /\ QuoteStands(s)
    BY <1>5 DEF BeginSwap, SendSwap, SwapInv, RevertExplained, OneSwapAtATime
  <2>2. PICK at \in {"signing", "sent"} : GoSwap(s, at)
    BY <1>5 DEF BeginSwap, SendSwap
  <2>3. PICK w \in SwapCalls : /\ swaps' = [swaps EXCEPT ![s] = w] /\ w.at = at /\ ~w.reverted
                               /\ QuoteStands(s)'
    BY <1>0, <2>1, <2>2, SwapMoves DEF SwapStates
  <2> QED BY <2>1, <2>2, <2>3, SwapStays
<1>6. ASSUME NEW s \in Swaps, SwapThrows(s) PROVE SwapInv'
  <2>1. /\ FirstSwap(s) /\ GoSwap(s, "threw") /\ swapQueue' = Tail(swapQueue) /\ swapBroken' = TRUE
        /\ UNCHANGED <<pathNow, rate, peg>> /\ ~swaps[s].reverted /\ QuoteStands(s)
    BY <1>6 DEF SwapThrows, SwapInv, OneSwapAtATime, RevertExplained
  <2>2. PICK w \in SwapCalls : /\ swaps' = [swaps EXCEPT ![s] = w] /\ w.at = "threw" /\ ~w.reverted
                               /\ QuoteStands(s)' /\ swaps'[s] = w
    BY <1>0, <2>1, SwapMoves DEF SwapStates
  <2>3. \A o \in Swaps \ {s} : swaps'[o] = swaps[o]
    BY <2>2, <1>0 DEF SwapTypeOK
  <2>4. Queues(swapQueue, SwapsChained)' /\ OneSwapAtATime' /\ swapQueue' \in Seq(Swaps)
    BY <2>1, <2>2, <2>3, SwapLeaves
  <2>5. SwapTypeOK'
    BY <2>1, <2>2, <2>4 DEF SwapInv, SwapTypeOK
  <2>6. \A o \in Swaps : QuoteStands(o)' /\ RevertExplained(o)'
    BY <2>1, <2>2, <2>5, SwapAlone
  <2> QED BY <2>4, <2>5, <2>6 DEF SwapInv
<1>7. ASSUME NEW s \in Swaps, MineSwap(s) PROVE SwapInv'
  BY <1>7, SwapMined
<1>8. CASE MoveRate
  <2>1. /\ rate' \in Rates /\ UNCHANGED <<pathNow, peg, swapQueue, swapBroken>>
        /\ swaps' = [s \in Swaps |-> [swaps[s] EXCEPT !.moved = TRUE]]
    BY <1>8 DEF MoveRate
  <2>2. ASSUME NEW s \in Swaps
        PROVE  /\ swaps'[s] \in SwapCalls /\ swaps'[s].moved
               /\ swaps'[s].at = swaps[s].at /\ swaps'[s].held = swaps[s].held
               /\ swaps'[s].quote = swaps[s].quote /\ swaps'[s].rivalled = swaps[s].rivalled
               /\ swaps'[s].reverted = swaps[s].reverted
    <3>1. swaps[s] \in SwapCalls
      BY <1>0 DEF SwapTypeOK
    <3> QED BY <2>1, <3>1 DEF SwapCalls
  <2>3. SwapTypeOK'
    BY <1>0, <2>1, <2>2 DEF SwapTypeOK
  <2>4. SwapsChained' = SwapsChained /\ OneSwapAtATime'
    BY <2>1, <2>2 DEF SwapInv, SwapsChained, OneSwapAtATime, FirstSwap
  <2>5. ASSUME NEW s \in Swaps PROVE QuoteStands(s)' /\ RevertExplained(s)'
    BY <2>1, <2>2 DEF SwapInv, QuoteStands, RevertExplained
  <2> QED BY <2>1, <2>3, <2>4, <2>5 DEF SwapInv
<1>9. CASE PathTick
  <2>1. pathNow' \in 0..MaxPathTime /\ UNCHANGED <<rate, peg, swaps, swapQueue, swapBroken>>
    BY <1>0, <1>9, PathConstants DEF PathTick, SwapTypeOK
  <2>2. SwapTypeOK'
    BY <1>0, <2>1 DEF SwapTypeOK
  <2> QED BY <2>1, <2>2 DEF SwapInv, SwapsChained, OneSwapAtATime, FirstSwap, QuoteStands,
              RevertExplained
<1> QED BY <1>1, <1>2, <1>3, <1>4, <1>5, <1>6, <1>7, <1>8, <1>9 DEF SwapNext

-------------------------------------------------------------------------------
(* The choice among the paths.                                             *)

\* What the sheet of a call shows is held; unless a read failed or a price was
\* too high it shows all of it, and a call that passed the swap had no use for it.
ChoiceStands(d) ==
    LET c == choices[d] IN
    /\ c.peg > 0 => c.peg = wealth.peg /\ Resolves("PegBTC")
    /\ \A p \in Partners : c.usdc[p] > 0 => c.usdc[p] = wealth.usdc[p]
    /\ c.at = "swap" /\ c.why = {} => c.peg = IF Resolves("PegBTC") THEN wealth.peg ELSE 0
    /\ c.at \in {"swap", "oft"} /\ c.why = {} /\ "oft" \in c.allowed => c.usdc = wealth.usdc
    /\ c.at = "oft" /\ c.why = {} => ~(Eligible(d, "swap") /\ Funded("swap"))
    /\ c.at \in {"reading", "swap", "oft", "chosen"} /\ ~c.dry => router.enabled
    /\ c.at \in {"idle", "reading", "swap", "oft"} => c.path = "none"
    /\ c.path # "none" => /\ c.path \in c.allowed /\ Funded(c.path)
                          /\ router.mock \/ Resolves("USDC")
    /\ c.at = "nopath" =>
          \/ c.why # {}
          \/ \A path \in c.allowed : Available(path) => ~Funded(path)
    /\ c.at = "receipt" => router.enabled /\ (router.mock \/ c.path = "swap")

ChoiceInv == ChoiceTypeOK /\ \A d \in Choosers : ChoiceStands(d)

\* At the start nothing is chosen.
LEMMA ChoiceInitially == ChoiceInit => ChoiceInv
<1> SUFFICES ASSUME ChoiceInit PROVE ChoiceInv
  OBVIOUS
<1> Wanted \in Nat \ {0}
  BY PathConstants
<1>1. ChoiceTypeOK
  <2>1. \A d \in Choosers : choices[d] \in ChoiceCalls
    BY DEF ChoiceInit, ChoiceCalls
  <2>2. wealth \in [peg : Nat, usdc : [Partners -> Nat]]
    BY DEF ChoiceInit
  <2>3. choices \in [Choosers -> ChoiceCalls]
    BY <2>1 DEF ChoiceInit
  <2> QED BY <2>2, <2>3 DEF ChoiceInit, ChoiceTypeOK
<1>2. ASSUME NEW d \in Choosers PROVE ChoiceStands(d)
  <2>1. /\ choices[d].at = "idle" /\ choices[d].path = "none" /\ choices[d].peg = 0
        /\ \A p \in Partners : choices[d].usdc[p] = 0
    BY DEF ChoiceInit
  <2> QED BY <2>1 DEF ChoiceStands
<1> QED BY <1>1, <1>2 DEF ChoiceInv

\* A call is on its own: the others keep what they know.
LEMMA ChoiceAlone ==
  ASSUME ChoiceInv, NEW d \in Choosers, NEW w \in ChoiceCalls, choices' = [choices EXCEPT ![d] = w],
         UNCHANGED <<router, wealth>>, oftModule' \in BOOLEAN, ChoiceStands(d)'
  PROVE  ChoiceInv'
<1>1. choices'[d] = w /\ \A o \in Choosers \ {d} : choices'[o] = choices[o]
  BY DEF ChoiceInv, ChoiceTypeOK
<1>2. ChoiceTypeOK'
  BY DEF ChoiceInv, ChoiceTypeOK
<1>3. ASSUME NEW o \in Choosers \ {d} PROVE ChoiceStands(o)'
  BY <1>1 DEF ChoiceInv, ChoiceStands, Resolves, Eligible, Available, Funded
<1> QED BY <1>2, <1>3 DEF ChoiceInv

\* It moves on with all that it knows.
ChoiceStates == {"idle", "reading", "swap", "oft", "chosen", "refused", "quoted", "receipt", "nopath", "threw"}
ChoiceMoved(d, w, at) ==
    /\ choices' = [choices EXCEPT ![d] = w] /\ choices'[d] = w
    /\ w.at = at /\ w.allowed = choices[d].allowed /\ w.dry = choices[d].dry
    /\ w.peg = choices[d].peg /\ w.usdc = choices[d].usdc /\ w.path = choices[d].path
    /\ w.why = choices[d].why

\* A choice that goes on is a choice.
LEMMA ChoiceMoves ==
  ASSUME ChoiceTypeOK, NEW d \in Choosers, NEW at \in ChoiceStates, GoChoice(d, at)
  PROVE  \E w \in ChoiceCalls : ChoiceMoved(d, w, at)
<1> DEFINE w == [choices[d] EXCEPT !.at = at]
<1>1. w \in ChoiceCalls /\ ChoiceMoved(d, w, at)
  BY ZenonT(30) DEF ChoiceMoved, ChoiceCalls, GoChoice, ChoiceTypeOK, ChoiceStates
<1> QED BY <1>1

\* Every step of the choosers keeps their invariant.
LEMMA ChoiceStep == ChoiceInv /\ [ChoiceNext]_choiceVars => ChoiceInv'
<1> SUFFICES ASSUME ChoiceInv, [ChoiceNext]_choiceVars PROVE ChoiceInv'
  OBVIOUS
<1>0. /\ ChoiceTypeOK /\ wealth.peg \in Nat /\ wealth.usdc \in [Partners -> Nat]
      /\ Wanted \in Nat \ {0}
  BY PathConstants DEF ChoiceInv, ChoiceTypeOK
<1>1. CASE UNCHANGED choiceVars
  BY <1>1 DEF choiceVars, ChoiceInv, ChoiceTypeOK, ChoiceStands, Resolves, Eligible, Available, Funded
<1>2. ASSUME NEW d \in Choosers, AskRouter(d) PROVE ChoiceInv'
  <2>1. PICK allowed \in PathSets, dry \in BOOLEAN :
          choices' = [choices EXCEPT
              ![d].at = IF ~router.enabled /\ ~dry THEN "refused"
                        ELSE IF Rejected THEN "threw" ELSE "reading",
              ![d].allowed = allowed, ![d].dry = dry]
    BY <1>2 DEF AskRouter
  <2> DEFINE at == IF ~router.enabled /\ ~dry THEN "refused"
                   ELSE IF Rejected THEN "threw" ELSE "reading"
             w == [choices[d] EXCEPT !.at = at, !.allowed = allowed, !.dry = dry]
  <2>2. at \in {"refused", "threw", "reading"} /\ (at = "reading" /\ ~dry => router.enabled)
    OBVIOUS
  <2>3. choices' = [choices EXCEPT ![d] = w] /\ choices'[d] = w
    BY <1>0, <2>1 DEF ChoiceTypeOK
  <2> HIDE DEF at
  <2>4. /\ w \in ChoiceCalls /\ w.at = at /\ w.allowed = allowed /\ w.dry = dry
        /\ w.peg = choices[d].peg /\ w.usdc = choices[d].usdc /\ w.path = choices[d].path
        /\ w.why = choices[d].why
    BY <1>0, <2>2, ZenonT(30) DEF ChoiceTypeOK, ChoiceCalls
  <2> HIDE DEF w
  <2>5. ChoiceStands(d) /\ choices[d].path = "none" /\ UNCHANGED <<router, wealth, oftModule>>
    BY <1>2 DEF ChoiceInv, ChoiceStands, AskRouter
  <2>6. ChoiceStands(d)'
    BY <2>2, <2>3, <2>4, <2>5 DEF ChoiceStands, Resolves
  <2> QED BY <2>3, <2>4, <2>5, <2>6, ChoiceAlone, <1>0 DEF ChoiceTypeOK
<1>3. ASSUME NEW d \in Choosers, ReadColumns(d) PROVE ChoiceInv'
  <2>1. PICK failed \in SUBSET (Partners \cup {"peg"}) :
          choices' = [choices EXCEPT
              ![d].at = "swap",
              ![d].peg = IF "peg" \in failed \/ ~Resolves("PegBTC") THEN 0 ELSE wealth.peg,
              ![d].usdc = [p \in Partners |-> IF WantsPartners(d) /\ p \notin failed
                                              THEN wealth.usdc[p] ELSE 0],
              ![d].why = IF failed = {} THEN {} ELSE {"read"}]
    BY <1>3 DEF ReadColumns
  <2> DEFINE seen == [p \in Partners |-> IF WantsPartners(d) /\ p \notin failed THEN wealth.usdc[p] ELSE 0]
             held == IF "peg" \in failed \/ ~Resolves("PegBTC") THEN 0 ELSE wealth.peg
             why == IF failed = {} THEN {} ELSE {"read"}
             w == [choices[d] EXCEPT !.at = "swap", !.peg = held, !.usdc = seen, !.why = why]
  <2>2. /\ seen \in [Partners -> Nat] /\ held \in Nat
        /\ why \in SUBSET {"read", "price"}
    BY <1>0
  <2>3. /\ held > 0 => held = wealth.peg /\ Resolves("PegBTC")
        /\ \A p \in Partners : seen[p] > 0 => seen[p] = wealth.usdc[p]
        /\ why = {} => held = IF Resolves("PegBTC") THEN wealth.peg ELSE 0
        /\ why = {} /\ "oft" \in choices[d].allowed => seen = wealth.usdc
    BY <1>0 DEF WantsPartners
  <2>4. choices' = [choices EXCEPT ![d] = w] /\ choices'[d] = w
    BY <1>0, <2>1 DEF ChoiceTypeOK
  <2> HIDE DEF seen, held, why
  <2>5. /\ w \in ChoiceCalls /\ w.at = "swap" /\ w.allowed = choices[d].allowed
        /\ w.dry = choices[d].dry /\ w.path = choices[d].path
        /\ w.peg = held /\ w.usdc = seen /\ w.why = why
    <3>1. choices[d] \in ChoiceCalls
      BY <1>0 DEF ChoiceTypeOK
    <3> QED BY ONLY <2>2, <3>1 DEF ChoiceCalls
  <2> HIDE DEF w
  <2>6. /\ choices[d].at = "reading" /\ choices[d].path = "none" /\ (~choices[d].dry => router.enabled)
        /\ UNCHANGED <<router, wealth, oftModule>>
    BY <1>3 DEF ChoiceInv, ChoiceStands, ReadColumns
  <2>7. ChoiceStands(d)'
    BY <2>3, <2>4, <2>5, <2>6 DEF ChoiceStands, Resolves
  <2> QED BY <2>4, <2>5, <2>6, <2>7, ChoiceAlone, <1>0 DEF ChoiceTypeOK
<1>4. ASSUME NEW d \in Choosers, TrySwap(d) PROVE ChoiceInv'
  <2>0. /\ choices[d].at = "swap" /\ UNCHANGED <<router, wealth, oftModule>> /\ ChoiceStands(d)
        /\ oftModule' \in BOOLEAN
    BY <1>0, <1>4 DEF TrySwap, ChoiceInv, ChoiceTypeOK
  <2>1. ASSUME GoChoice(d, "threw") PROVE ChoiceInv'
    <3>1. PICK w \in ChoiceCalls : ChoiceMoved(d, w, "threw")
      BY <1>0, <2>1, ChoiceMoves DEF ChoiceStates
    <3>2. ChoiceStands(d)'
      BY <2>0, <3>1 DEF ChoiceStands, ChoiceMoved, Resolves, Funded
    <3> QED BY <2>0, <3>1, <3>2, ChoiceAlone DEF ChoiceMoved
  <2>2. ASSUME Chooses(d, "swap"), Eligible(d, "swap"), choices[d].peg > 0 PROVE ChoiceInv'
    <3> DEFINE w == [choices[d] EXCEPT !.at = "chosen", !.path = "swap"]
    <3>1. /\ w \in ChoiceCalls /\ choices' = [choices EXCEPT ![d] = w] /\ choices'[d] = w
          /\ w.at = "chosen" /\ w.path = "swap" /\ w.allowed = choices[d].allowed /\ w.dry = choices[d].dry
          /\ w.peg = choices[d].peg /\ w.usdc = choices[d].usdc
      BY <1>0, <2>2, ZenonT(30) DEF Chooses, ChoiceTypeOK, ChoiceCalls, PathNames
    <3> HIDE DEF w
    <3>2. "swap" \in choices[d].allowed /\ (router.mock \/ Resolves("USDC")) /\ Funded("swap")
      BY <2>0, <2>2 DEF Eligible, Available, ChoiceStands, Funded
    <3>3. ChoiceStands(d)'
      BY <2>0, <3>1, <3>2 DEF ChoiceStands, Resolves, Funded
    <3> QED BY <2>0, <3>1, <3>3, ChoiceAlone
  <2>3. ASSUME choices' = [choices EXCEPT ![d].at = "oft", ![d].why = @ \cup {"price"}] PROVE ChoiceInv'
    <3> DEFINE w == [choices[d] EXCEPT !.at = "oft", !.why = @ \cup {"price"}]
    <3>1. /\ w \in ChoiceCalls /\ choices' = [choices EXCEPT ![d] = w] /\ choices'[d] = w
          /\ w.at = "oft" /\ w.path = choices[d].path /\ w.allowed = choices[d].allowed
          /\ w.peg = choices[d].peg /\ w.usdc = choices[d].usdc /\ w.why # {} /\ w.dry = choices[d].dry
      BY <1>0, <2>3, ZenonT(30) DEF ChoiceTypeOK, ChoiceCalls
    <3> HIDE DEF w
    <3>2. ChoiceStands(d)'
      BY <2>0, <3>1 DEF ChoiceStands, Resolves, Funded
    <3> QED BY <2>0, <3>1, <3>2, ChoiceAlone
  <2>4. ASSUME GoChoice(d, "oft"), ~(Eligible(d, "swap") /\ choices[d].peg > 0) PROVE ChoiceInv'
    <3>1. PICK w \in ChoiceCalls : ChoiceMoved(d, w, "oft")
      BY <1>0, <2>4, ChoiceMoves DEF ChoiceStates
    <3>2. choices[d].why = {} => ~(Eligible(d, "swap") /\ Funded("swap"))
      BY <2>0, <2>4 DEF ChoiceStands, Funded
    <3>3. choices'[d].why = {} => ~(Eligible(d, "swap")' /\ Funded("swap")')
      BY <2>0, <3>1, <3>2 DEF ChoiceMoved, Eligible, Available, Resolves, Funded
    <3>4. ChoiceStands(d)'
      BY <2>0, <3>1, <3>3 DEF ChoiceStands, ChoiceMoved, Resolves, Funded
    <3> QED BY <2>0, <3>1, <3>4, ChoiceAlone DEF ChoiceMoved
  <2> QED BY <1>4, <2>1, <2>2, <2>3, <2>4 DEF TrySwap
<1>5. ASSUME NEW d \in Choosers, TryOft(d) PROVE ChoiceInv'
  <2>0. /\ choices[d].at = "oft" /\ UNCHANGED <<router, wealth>> /\ ChoiceStands(d)
        /\ oftModule' \in BOOLEAN
    BY <1>0, <1>5 DEF TryOft, ChoiceInv, ChoiceTypeOK
  <2>1. ASSUME GoChoice(d, "threw") PROVE ChoiceInv'
    <3>1. PICK w \in ChoiceCalls : ChoiceMoved(d, w, "threw")
      BY <1>0, <2>1, ChoiceMoves DEF ChoiceStates
    <3>2. ChoiceStands(d)'
      BY <2>0, <3>1 DEF ChoiceStands, ChoiceMoved, Resolves, Funded
    <3> QED BY <2>0, <3>1, <3>2, ChoiceAlone DEF ChoiceMoved
  <2>2. ASSUME Chooses(d, "oft"), Eligible(d, "oft"), NEW p \in Partners, choices[d].usdc[p] >= Wanted
        PROVE  ChoiceInv'
    <3> DEFINE w == [choices[d] EXCEPT !.at = "chosen", !.path = "oft"]
    <3>1. /\ w \in ChoiceCalls /\ choices' = [choices EXCEPT ![d] = w] /\ choices'[d] = w
          /\ w.at = "chosen" /\ w.path = "oft" /\ w.allowed = choices[d].allowed /\ w.dry = choices[d].dry
          /\ w.peg = choices[d].peg /\ w.usdc = choices[d].usdc
      BY <1>0, <2>2, ZenonT(30) DEF Chooses, ChoiceTypeOK, ChoiceCalls, PathNames
    <3> HIDE DEF w
    <3>2. choices[d].usdc[p] \in Nat
      BY <1>0 DEF ChoiceTypeOK, ChoiceCalls
    <3>3. wealth.usdc[p] >= Wanted
      BY <1>0, <2>0, <2>2, <3>2 DEF ChoiceStands
    <3>4. "oft" \in choices[d].allowed /\ (router.mock \/ Resolves("USDC")) /\ Funded("oft")
      BY <2>2, <3>3 DEF Eligible, Available, Funded
    <3>5. ChoiceStands(d)'
      BY <2>0, <3>1, <3>4 DEF ChoiceStands, Resolves, Funded
    <3> QED BY <2>0, <3>1, <3>5, ChoiceAlone
  <2>3. ASSUME GoChoice(d, "nopath"),
               ~(Eligible(d, "oft") /\ \E p \in Partners : choices[d].usdc[p] >= Wanted)
        PROVE  ChoiceInv'
    <3>1. PICK w \in ChoiceCalls : ChoiceMoved(d, w, "nopath")
      BY <1>0, <2>3, ChoiceMoves DEF ChoiceStates
    <3>2. choices[d].why = {} => \A path \in choices[d].allowed : Available(path) => ~Funded(path)
      BY <2>0, <2>3 DEF ChoiceStands, Funded, Eligible
    <3>3. choices'[d].why = {} => \A path \in choices'[d].allowed : Available(path)' => ~Funded(path)'
      BY <2>0, <3>1, <3>2 DEF ChoiceMoved, Available, Resolves, Funded
    <3>4. ChoiceStands(d)'
      BY <2>0, <3>1, <3>3 DEF ChoiceStands, ChoiceMoved, Resolves, Funded
    <3> QED BY <2>0, <3>1, <3>4, ChoiceAlone DEF ChoiceMoved
  <2> QED BY <1>5, <2>1, <2>2, <2>3 DEF TryOft
<1>6. ASSUME NEW d \in Choosers, ExecuteChoice(d) PROVE ChoiceInv'
  <2>0. /\ choices[d].at = "chosen" /\ UNCHANGED <<router, wealth, oftModule>> /\ ChoiceStands(d)
        /\ oftModule' \in BOOLEAN
    BY <1>0, <1>6 DEF ExecuteChoice, ChoiceInv, ChoiceTypeOK
  <2>1. PICK at \in {"quoted", "receipt", "threw"} :
          /\ GoChoice(d, at)
          /\ at = "receipt" => ~choices[d].dry /\ (router.mock \/ choices[d].path = "swap")
    BY <1>6 DEF ExecuteChoice, MockAnswers
  <2>2. PICK w \in ChoiceCalls : ChoiceMoved(d, w, at)
    BY <1>0, <2>1, ChoiceMoves DEF ChoiceStates
  <2>3. at = "receipt" => router.enabled /\ (router.mock \/ choices[d].path = "swap")
    BY <2>0, <2>1 DEF ChoiceStands
  <2>4. ChoiceStands(d)'
    BY <2>0, <2>1, <2>2, <2>3 DEF ChoiceStands, ChoiceMoved, Resolves, Funded
  <2> QED BY <2>0, <2>2, <2>4, ChoiceAlone DEF ChoiceMoved
<1> QED BY <1>1, <1>2, <1>3, <1>4, <1>5, <1>6 DEF ChoiceNext

-------------------------------------------------------------------------------
(* The paths together.                                                     *)

\* The paths of the router stay well typed (goat/paths.ts).
THEOREM PathsTyped == PathsSpec => []PathsTypeOK
<1>1. SwapInv /\ PeginInv /\ ChoiceInv => PathsTypeOK
  BY DEF SwapInv, PeginInv, ChoiceInv, PathsTypeOK
<1> QED BY <1>1, SwapInitially, SwapStep, PeginInitially, PeginStep, ChoiceInitially, ChoiceStep, PTL
        DEF PathsSpec, SwapSpec, PeginSpec, ChoiceSpec

\* Whatever the wallet, the prices and the router are: the swaps of a wallet are
\* sent one at a time and one that reverts was overtaken or rounded away
\* (goat/paths.ts:402-450), the bitcoin of an intent is signed away once
\* (goat/paths.ts:617-690), and the choice among the paths explains itself
\* (goat/acquisition.ts:92-134).
THEOREM PathsAlwaysHold == PathsSpec => []PathsHold
<1>1. SwapInv => OneSwapAtATime /\ RevertsExplained
  BY DEF SwapInv, RevertsExplained, RevertExplained
<1>2. PeginInv => SignedOncePerIntent
  BY DEF PeginInv
<1>3. ChoiceInv => ChoiceExplained
  BY DEF ChoiceInv, ChoiceStands, ChoiceExplained
<1>4. SwapInv /\ PeginInv /\ ChoiceInv => PathsHold
  BY <1>1, <1>2, <1>3 DEF PathsHold
<1> QED BY <1>4, SwapInitially, SwapStep, PeginInitially, PeginStep, ChoiceInitially, ChoiceStep, PTL
        DEF PathsSpec, SwapSpec, PeginSpec, ChoiceSpec

-------------------------------------------------------------------------------
(* The Initia corridor.                                                    *)

\* A call that saw enough finds enough until another one pays, only a route that
\* was executed is under way, and the iUSD there is and the iUSD that was paid
\* came from the wallet or from a route that landed.
CorridorInv ==
    /\ CorridorTypeOK
    /\ \A c \in IusdPays :
        /\ transfers[c].at \in {"funded", "sending"} /\ ~transfers[c].raced => iusd >= PriceOf[c]
        /\ c \in flying => transfers[c].executed
        /\ transfers[c].at \in {"idle", "short", "picking", "quoting", "routed"} => ~transfers[c].executed
        /\ transfers[c].at \notin {"sent", "retried", "threw"} => c \notin iusdPaid
        /\ transfers[c].at \in {"sent", "retried"} => c \in iusdPaid
        /\ transfers[c].at \in {"quoting", "routed"} => transfers[c].from \in Range(Sources)
        /\ transfers[c].at = "rejected" => transfers[c].raced
    /\ iusd + SumFunctionOnSet(PriceOf, iusdPaid) <= StartIusd + SumFunctionOnSet(PriceOf, Landed)

Transfers == [at : TransferStates, from : Range(Sources) \cup {Nowhere},
              executed : BOOLEAN, landed : BOOLEAN, raced : BOOLEAN]

\* Whatever calls have paid or landed, their prices add up.
LEMMA PricesAdd ==
  ASSUME NEW S \in SUBSET IusdPays
  PROVE  /\ SumFunctionOnSet(PriceOf, S) \in Nat
         /\ \A c \in IusdPays \ S : SumFunctionOnSet(PriceOf, S \cup {c}) =
                                      SumFunctionOnSet(PriceOf, S) + PriceOf[c]
<1>1. IsFiniteSet(IusdPays) /\ \A c \in IusdPays : PriceOf[c] \in Nat
  BY CorridorAssumption
<1>2. SumFunctionOnSet(PriceOf, S) \in Nat
  BY <1>1, SumGrows
<1>3. ASSUME NEW c \in IusdPays \ S
      PROVE  SumFunctionOnSet(PriceOf, S \cup {c}) = SumFunctionOnSet(PriceOf, S) + PriceOf[c]
  <2> DEFINE U == S \cup {c}
  <2>1. IsFiniteSet(U) /\ c \in U /\ U \ {c} = S /\ \A x \in U : PriceOf[x] \in Int
    <3>1. U \in SUBSET IusdPays
      OBVIOUS
    <3> QED BY <1>1, <3>1, FS_Subset
  <2> HIDE DEF U
  <2>2. SumFunctionOnSet(PriceOf, U) = PriceOf[c] + SumFunctionOnSet(PriceOf, S)
    BY <2>1, SumSplit
  <2>3. PriceOf[c] \in Nat
    BY <1>1
  <2> QED BY <1>2, <2>2, <2>3 DEF U
<1> QED BY <1>2, <1>3

\* At the start no iUSD has moved.
LEMMA CorridorInitially == CorridorInit => CorridorInv
<1> SUFFICES ASSUME CorridorInit PROVE CorridorInv
  OBVIOUS
<1>1. /\ \A c \in IusdPays : transfers[c].at = "idle" /\ ~transfers[c].executed
      /\ iusdPaid = {} /\ flying = {} /\ iusd = StartIusd /\ Landed = {} /\ StartIusd \in Nat
  BY CorridorAssumption DEF CorridorInit, Landed
<1>2. CorridorTypeOK
  BY <1>1, CorridorAssumption DEF CorridorInit, CorridorTypeOK, TransferStates
<1>3. SumFunctionOnSet(PriceOf, {}) \in Nat
  BY PricesAdd
<1>4. iusd + SumFunctionOnSet(PriceOf, iusdPaid) <= StartIusd + SumFunctionOnSet(PriceOf, Landed)
  BY <1>1, <1>3
<1> QED BY <1>1, <1>2, <1>4 DEF CorridorInv

\* One call moves and no money does.
LEMMA TransferMoves ==
  ASSUME CorridorInv, NEW c \in IusdPays, NEW w \in Transfers, transfers' = [transfers EXCEPT ![c] = w],
         UNCHANGED <<iusd, usdc, flying, iusdPaid>>,
         w.executed = transfers[c].executed,
         w.at \in {"funded", "sending"} /\ ~w.raced => iusd >= PriceOf[c],
         w.at \in {"idle", "short", "picking", "quoting", "routed"} => ~w.executed,
         w.at \notin {"sent", "retried", "threw"} => c \notin iusdPaid,
         w.at \in {"sent", "retried"} => c \in iusdPaid,
         w.at \in {"quoting", "routed"} => w.from \in Range(Sources),
         w.at = "rejected" => w.raced
  PROVE  CorridorInv'
<1>1. transfers'[c] = w /\ \A d \in IusdPays \ {c} : transfers'[d] = transfers[d]
  BY DEF CorridorInv, CorridorTypeOK
<1>2. CorridorTypeOK'
  BY DEF CorridorInv, CorridorTypeOK, Transfers
<1>3. Landed' = Landed
  BY <1>1 DEF Landed
<1>4. (iusd + SumFunctionOnSet(PriceOf, iusdPaid) <= StartIusd + SumFunctionOnSet(PriceOf, Landed))'
  BY <1>3 DEF CorridorInv
<1> QED BY <1>1, <1>2, <1>4 DEF CorridorInv

\* A transfer that goes on is a transfer, with what it was about.
LEMMA TransferParts ==
  ASSUME CorridorTypeOK, NEW c \in IusdPays, NEW at \in TransferStates
  PROVE  /\ transfers[c] \in Transfers
         /\ LET w == [transfers[c] EXCEPT !.at = at] IN
            /\ w \in Transfers /\ w.at = at /\ w.from = transfers[c].from
            /\ w.executed = transfers[c].executed /\ w.raced = transfers[c].raced
            /\ GoTransfer(c, at) => transfers' = [transfers EXCEPT ![c] = w]
BY DEF CorridorTypeOK, Transfers, GoTransfer

\* A look tells what is there.
LEMMA Looked ==
  ASSUME CorridorInv, NEW c \in IusdPays, NEW short \in {"short", "refused", "picking", "asleep"},
         Look(c, "funded", short), transfers[c].at \in {"idle", "short", "looking"},
         short \in {"short", "picking"} => ~transfers[c].executed
  PROVE  CorridorInv'
<1> DEFINE w == [transfers[c] EXCEPT !.at = IF iusd >= PriceOf[c] THEN "funded" ELSE short,
                                     !.landed = transfers[c].executed /\ c \notin flying,
                                     !.raced = FALSE]
<1>1. transfers[c] \in Transfers
  BY DEF CorridorInv, CorridorTypeOK, Transfers
<1>2. /\ w \in Transfers /\ w.executed = transfers[c].executed /\ ~w.raced
      /\ w.at \in {"funded", short} /\ (w.at = "funded" => iusd >= PriceOf[c])
  BY <1>1 DEF Transfers, TransferStates
<1>3. transfers' = [transfers EXCEPT ![c] = w] /\ UNCHANGED <<iusd, usdc, flying, iusdPaid>>
  BY DEF Look, CorridorInv, CorridorTypeOK
<1>4. c \notin iusdPaid
  BY DEF CorridorInv
<1> HIDE DEF w
<1> QED BY <1>2, <1>3, <1>4, TransferMoves

\* Every step of the corridor keeps its invariant.
LEMMA CorridorStep == CorridorInv /\ [CorridorNext]_corridorVars => CorridorInv'
<1> SUFFICES ASSUME CorridorInv, [CorridorNext]_corridorVars PROVE CorridorInv'
  OBVIOUS
<1>0. CorridorTypeOK
  BY DEF CorridorInv
<1>1. CASE UNCHANGED corridorVars
  BY <1>1 DEF corridorVars, CorridorInv, CorridorTypeOK, Landed
<1>2. ASSUME NEW c \in IusdPays, LookFirst(c) \/ LookAgain(c) \/ Poll(c) PROVE CorridorInv'
  <2>1. CASE LookFirst(c)
    BY <2>1, Looked DEF LookFirst, CorridorInv
  <2>2. CASE LookAgain(c)
    BY <2>2, Looked DEF LookAgain, CorridorInv
  <2>3. CASE Poll(c)
    BY <2>3, Looked DEF Poll
  <2> QED BY <1>2, <2>1, <2>2, <2>3
<1>3. ASSUME NEW c \in IusdPays, Pick(c) PROVE CorridorInv'
  <2>0. /\ transfers[c].at = "picking" /\ UNCHANGED <<iusd, usdc, flying, iusdPaid>>
        /\ ~transfers[c].executed /\ c \notin iusdPaid /\ transfers[c] \in Transfers
    BY <1>0, <1>3, TransferParts DEF Pick, CorridorInv, TransferStates
  <2>1. CASE GoTransfer(c, "threw")
    <3> DEFINE w == [transfers[c] EXCEPT !.at = "threw"]
    <3>1. /\ w \in Transfers /\ w.at = "threw" /\ w.executed = transfers[c].executed
          /\ transfers' = [transfers EXCEPT ![c] = w]
      BY <1>0, <2>1, TransferParts DEF TransferStates
    <3> HIDE DEF w
    <3> QED BY <2>0, <3>1, TransferMoves
  <2>2. ASSUME NEW i \in DOMAIN Sources,
               transfers' = [transfers EXCEPT ![c].at = "quoting", ![c].from = Sources[i]]
        PROVE  CorridorInv'
    <3> DEFINE w == [transfers[c] EXCEPT !.at = "quoting", !.from = Sources[i]]
    <3>1. Sources[i] \in Range(Sources)
      BY DEF Range
    <3>2. /\ w \in Transfers /\ w.at = "quoting" /\ w.from = Sources[i]
          /\ w.executed = transfers[c].executed /\ transfers' = [transfers EXCEPT ![c] = w]
      BY <1>0, <2>0, <2>2, <3>1 DEF Transfers, TransferStates, CorridorTypeOK
    <3> HIDE DEF w
    <3> QED BY <2>0, <3>1, <3>2, TransferMoves
  <2> QED BY <1>3, <2>1, <2>2 DEF Pick
<1>4. ASSUME NEW c \in IusdPays, Quote(c) \/ WakeUp(c) \/ SendIusd(c) \/ RetryWithProof(c) PROVE CorridorInv'
  <2>1. PICK at \in TransferStates :
          /\ GoTransfer(c, at) /\ UNCHANGED <<iusd, usdc, flying, iusdPaid>>
          /\ at \in {"routed", "looking", "timeout", "sending", "retried", "threw"}
          /\ at = "routed" => transfers[c].at = "quoting"
          /\ at = "sending" => transfers[c].at = "funded"
          /\ at = "retried" => transfers[c].at = "sent"
          /\ at # "retried" => transfers[c].at \in {"quoting", "asleep", "funded"}
    BY <1>4 DEF Quote, WakeUp, SendIusd, RetryWithProof, TransferStates
  <2> DEFINE w == [transfers[c] EXCEPT !.at = at]
  <2>2. /\ w \in Transfers /\ w.at = at /\ w.from = transfers[c].from
        /\ w.executed = transfers[c].executed /\ w.raced = transfers[c].raced
        /\ transfers' = [transfers EXCEPT ![c] = w]
    BY <1>0, <2>1, TransferParts
  <2> HIDE DEF w
  <2>3. /\ w.at \in {"funded", "sending"} /\ ~w.raced => iusd >= PriceOf[c]
        /\ w.at \in {"idle", "short", "picking", "quoting", "routed"} => ~w.executed
        /\ w.at \notin {"sent", "retried", "threw"} => c \notin iusdPaid
        /\ w.at \in {"sent", "retried"} => c \in iusdPaid
        /\ w.at \in {"quoting", "routed"} => w.from \in Range(Sources)
        /\ w.at # "rejected"
    BY <2>1, <2>2 DEF CorridorInv
  <2> QED BY <2>1, <2>2, <2>3, TransferMoves
<1>5. ASSUME NEW c \in IusdPays, ExecuteRoute(c) PROVE CorridorInv'
  <2> DEFINE s == transfers[c].from
  <2>0. /\ transfers[c].at = "routed" /\ UNCHANGED <<iusd, iusdPaid>> /\ s \in Range(Sources)
        /\ ~transfers[c].executed /\ c \notin iusdPaid /\ transfers[c] \in Transfers
    BY <1>0, <1>5, TransferParts DEF ExecuteRoute, CorridorInv, TransferStates
  <2>1. ASSUME GoTransfer(c, "threw"), UNCHANGED <<usdc, flying>> PROVE CorridorInv'
    <3> DEFINE w == [transfers[c] EXCEPT !.at = "threw"]
    <3>1. /\ w \in Transfers /\ w.at = "threw" /\ w.executed = transfers[c].executed
          /\ transfers' = [transfers EXCEPT ![c] = w]
      BY <1>0, <2>1, TransferParts DEF TransferStates
    <3> HIDE DEF w
    <3> QED BY <2>0, <2>1, <3>1, TransferMoves
  <2>2. ASSUME usdc[s] >= PriceOf[c], usdc' = [usdc EXCEPT ![s] = @ - PriceOf[c]],
               flying' = flying \cup {c}, NEW at \in {"looking", "threw"},
               transfers' = [transfers EXCEPT ![c].at = at, ![c].executed = TRUE]
        PROVE  CorridorInv'
    <3> DEFINE w == [transfers[c] EXCEPT !.at = at, !.executed = TRUE]
    <3>1. /\ w \in Transfers /\ w.at = at /\ w.executed
          /\ transfers' = [transfers EXCEPT ![c] = w]
      BY <1>0, <2>0, <2>2 DEF Transfers, TransferStates, CorridorTypeOK
    <3>2. transfers'[c] = w /\ \A d \in IusdPays \ {c} : transfers'[d] = transfers[d]
      BY <1>0, <3>1 DEF CorridorTypeOK
    <3> HIDE DEF w
    <3>3. usdc' \in [Range(Sources) -> Nat]
      <4>1. usdc \in [Range(Sources) -> Nat] /\ PriceOf[c] \in Nat
        BY <1>0, CorridorAssumption DEF CorridorTypeOK
      <4>2. usdc[s] - PriceOf[c] \in Nat
        BY <2>0, <2>2, <4>1
      <4> QED BY <2>0, <2>2, <4>1, <4>2
    <3>4. CorridorTypeOK'
      BY <1>0, <2>0, <2>2, <3>1, <3>3 DEF CorridorTypeOK, Transfers
    <3>5. Landed' = Landed
      BY <2>0, <2>2, <3>2 DEF Landed
    <3>6. (iusd + SumFunctionOnSet(PriceOf, iusdPaid) <= StartIusd + SumFunctionOnSet(PriceOf, Landed))'
      BY <2>0, <3>5 DEF CorridorInv
    <3> QED BY <2>0, <2>2, <3>1, <3>2, <3>4, <3>6 DEF CorridorInv
  <2> QED BY <1>5, <2>1, <2>2 DEF ExecuteRoute
<1>6. ASSUME NEW c \in IusdPays, LandRoute(c) PROVE CorridorInv'
  <2> DEFINE came == IF PriceOf[c] > RouteFee THEN PriceOf[c] - RouteFee ELSE 0
  <2>1. /\ c \in flying /\ flying' = flying \ {c} /\ iusd' = iusd + came
        /\ UNCHANGED <<usdc, iusdPaid, transfers>> /\ transfers[c].executed
    BY <1>6 DEF LandRoute, CorridorInv
  <2>2. came \in Nat /\ came <= PriceOf[c] /\ iusd \in Nat /\ StartIusd \in Nat
        /\ \A d \in IusdPays : PriceOf[d] \in Nat
    BY <1>0, CorridorAssumption DEF CorridorTypeOK
  <2> HIDE DEF came
  <2>3. CorridorTypeOK'
    BY <1>0, <2>1, <2>2 DEF CorridorTypeOK
  <2>4. Landed' = Landed \cup {c} /\ c \in IusdPays \ Landed /\ Landed \in SUBSET IusdPays
    BY <2>1 DEF Landed
  <2>5. SumFunctionOnSet(PriceOf, Landed') = SumFunctionOnSet(PriceOf, Landed) + PriceOf[c]
    BY <2>4, PricesAdd
  <2>6. /\ SumFunctionOnSet(PriceOf, Landed) \in Nat /\ SumFunctionOnSet(PriceOf, iusdPaid) \in Nat
        /\ iusd + SumFunctionOnSet(PriceOf, iusdPaid) <= StartIusd + SumFunctionOnSet(PriceOf, Landed)
    BY <1>0, <2>4, PricesAdd DEF CorridorInv, CorridorTypeOK
  <2>7. iusd' + SumFunctionOnSet(PriceOf, iusdPaid) <= StartIusd + SumFunctionOnSet(PriceOf, Landed')
    BY <2>1, <2>2, <2>5, <2>6
  <2>8. \A d \in IusdPays : iusd >= PriceOf[d] => iusd' >= PriceOf[d]
    BY <2>1, <2>2
  <2> QED BY <2>1, <2>3, <2>7, <2>8 DEF CorridorInv
<1>7. ASSUME NEW c \in IusdPays, Broadcast(c) PROVE CorridorInv'
  <2>0. /\ transfers[c].at = "sending" /\ UNCHANGED <<usdc, flying>> /\ transfers[c] \in Transfers
        /\ c \notin iusdPaid
    BY <1>0, <1>7, TransferParts DEF Broadcast, CorridorInv, TransferStates
  <2>1. ASSUME ~(iusd >= PriceOf[c]), GoTransfer(c, "rejected"), UNCHANGED <<iusd, iusdPaid>>
        PROVE  CorridorInv'
    <3> DEFINE w == [transfers[c] EXCEPT !.at = "rejected"]
    <3>1. /\ w \in Transfers /\ w.at = "rejected" /\ w.executed = transfers[c].executed
          /\ w.raced = transfers[c].raced /\ transfers' = [transfers EXCEPT ![c] = w]
      BY <1>0, <2>1, TransferParts DEF TransferStates
    <3>2. w.raced
      BY <2>0, <2>1, <3>1 DEF CorridorInv
    <3> HIDE DEF w
    <3> QED BY <2>0, <2>1, <3>1, <3>2, TransferMoves
  <2>2. ASSUME iusd >= PriceOf[c], iusd' = iusd - PriceOf[c], iusdPaid' = iusdPaid \cup {c},
               NEW at \in {"sent", "threw"},
               transfers' = [d \in IusdPays |-> IF d = c THEN [transfers[c] EXCEPT !.at = at]
                                                ELSE [transfers[d] EXCEPT !.raced = TRUE]]
        PROVE  CorridorInv'
    <3>1. /\ transfers'[c] \in Transfers /\ transfers'[c].at = at
          /\ transfers'[c].executed = transfers[c].executed
      BY <2>0, <2>2 DEF Transfers, TransferStates
    <3>2. ASSUME NEW d \in IusdPays \ {c}
          PROVE  /\ transfers'[d] \in Transfers /\ transfers'[d].raced
                 /\ transfers'[d].at = transfers[d].at /\ transfers'[d].from = transfers[d].from
                 /\ transfers'[d].executed = transfers[d].executed
      <4>1. transfers[d] \in Transfers /\ transfers'[d] = [transfers[d] EXCEPT !.raced = TRUE]
        BY <1>0, <2>2, TransferParts DEF TransferStates
      <4> QED BY <4>1 DEF Transfers
    <3>3. iusd \in Nat /\ PriceOf[c] \in Nat /\ StartIusd \in Nat
      BY <1>0, CorridorAssumption DEF CorridorTypeOK
    <3>4. CorridorTypeOK'
      <4>1. iusd' \in Nat
        BY <2>2, <3>3
      <4>2. transfers' \in [IusdPays -> Transfers]
        BY <2>2, <3>1, <3>2
      <4> QED BY <1>0, <2>0, <2>2, <4>1, <4>2 DEF CorridorTypeOK, Transfers
    <3>5. Landed' = Landed
      BY <2>0, <3>1, <3>2 DEF Landed
    <3>6. SumFunctionOnSet(PriceOf, iusdPaid') = SumFunctionOnSet(PriceOf, iusdPaid) + PriceOf[c]
      BY <1>0, <2>0, <2>2, PricesAdd DEF CorridorTypeOK
    <3>7. /\ SumFunctionOnSet(PriceOf, Landed) \in Nat /\ SumFunctionOnSet(PriceOf, iusdPaid) \in Nat
          /\ iusd + SumFunctionOnSet(PriceOf, iusdPaid) <= StartIusd + SumFunctionOnSet(PriceOf, Landed)
      <4>1. Landed \in SUBSET IusdPays /\ iusdPaid \in SUBSET IusdPays
        BY <1>0 DEF CorridorTypeOK, Landed
      <4> QED BY <4>1, PricesAdd DEF CorridorInv
    <3>8. iusd' + SumFunctionOnSet(PriceOf, iusdPaid') <= StartIusd + SumFunctionOnSet(PriceOf, Landed')
      BY <2>2, <3>3, <3>5, <3>6, <3>7
    <3> QED BY <2>0, <2>2, <3>1, <3>2, <3>4, <3>8 DEF CorridorInv
  <2> QED BY <1>7, <2>1, <2>2 DEF Broadcast
<1> QED BY <1>1, <1>2, <1>3, <1>4, <1>5, <1>6, <1>7 DEF CorridorNext

\* No two calls pay with the same iUSD and none sends it before it has come,
\* however many calls, sources and prices there are: what the chain took is
\* covered by what the wallet held and by the routes that landed, and the chain
\* turns down only a call that another one overtook (initia/corridor.ts:395-493
\* and adapters/initia-iusd.ts:81-124).
THEOREM CorridorAlwaysHolds == CorridorSpec => []CorridorHolds
<1>1. CorridorInv => CorridorHolds
  <2>1. SUFFICES ASSUME CorridorInv PROVE ProofMeansPaid
    BY DEF CorridorHolds, CorridorInv, NoBlindSend
  <2>2. /\ iusd \in Nat /\ StartIusd \in Nat /\ Landed \in SUBSET IusdPays /\ iusdPaid \in SUBSET IusdPays
        /\ iusd + SumFunctionOnSet(PriceOf, iusdPaid) <= StartIusd + SumFunctionOnSet(PriceOf, Landed)
    BY <2>1, CorridorAssumption DEF CorridorInv, CorridorTypeOK, Landed
  <2>3. SumFunctionOnSet(PriceOf, Landed) \in Nat /\ SumFunctionOnSet(PriceOf, iusdPaid) \in Nat
    BY <2>2, PricesAdd
  <2>4. SumFunctionOnSet(PriceOf, iusdPaid) <= StartIusd + SumFunctionOnSet(PriceOf, Landed)
    BY <2>2, <2>3
  <2> QED BY <2>1, <2>4 DEF ProofMeansPaid, CorridorInv
<1> QED BY <1>1, CorridorInitially, CorridorStep, PTL DEF CorridorSpec

-------------------------------------------------------------------------------
(* Router, paths and corridor, beside one another.                         *)

\* The router, the paths and the corridor stay well typed, whichever of them
\* runs (goat/acquisition.ts, goat/paths.ts, initia/corridor.ts).
THEOREM AcquisitionTyped == MCSpec => []TypesOK
<1> DEFINE Inv == ChainInv /\ SwapInv /\ PeginInv /\ ChoiceInv /\ CorridorInv
<1>1. MCInit => Inv
  BY ChainInit, SwapInitially, PeginInitially, ChoiceInitially, CorridorInitially DEF MCInit
<1>2. [MCNext]_<<running, vars, pathVars, corridorVars>> =>
          /\ [Next]_vars /\ [SwapNext]_swapVars /\ [PeginNext]_peginVars
          /\ [ChoiceNext]_choiceVars /\ [CorridorNext]_corridorVars
  BY DEF MCNext, pathVars
<1>3. Inv /\ [MCNext]_<<running, vars, pathVars, corridorVars>> => Inv'
  BY <1>2, ChainStep, SwapStep, PeginStep, ChoiceStep, CorridorStep
<1>4. Inv => TypesOK
  BY DEF ChainInv, SwapInv, PeginInv, ChoiceInv, CorridorInv, TypesOK, PathsTypeOK
<1> HIDE DEF Inv
<1> QED BY <1>1, <1>3, <1>4, PTL DEF MCSpec
===============================================================================
