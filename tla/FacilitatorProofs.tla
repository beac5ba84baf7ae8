--------------------------- MODULE FacilitatorProofs ---------------------------
(***************************************************************************)
(* Proofs about the sponsored rails: the Morph facilitator and its buyer,  *)
(* the gasless relay, the bridge and the x402 rail of Flare.  They keep    *)
(* separate state, and each has an invariant of its own.  The module of    *)
(* their runs is extended for TypesOK alone; the values it gives the       *)
(* constants are not used.                                                 *)
(***************************************************************************)
EXTENDS MCFacilitators, DataLemmas

-------------------------------------------------------------------------------
(* Morph: the facilitator.                                                 *)

\* An authorization is served once at most and only when charged, and it is
\* the one request whose transaction charged it that serves it.
OnePays ==
    /\ \A s \in Slots : reqs[s].at = "mined" => reqs[s].auth \in charged /\ served[reqs[s].auth] = 0
    /\ \A s, t \in Slots :
          reqs[s].at = "mined" /\ reqs[t].at = "mined" /\ reqs[s].auth = reqs[t].auth => s = t
    /\ \A a \in Auths : served[a] \in {0, 1} /\ (served[a] = 1 => a \in charged)

\* No receipt came late, no call threw and nothing restarted.
Calm == late + lost + restarts = 0

\* As long as that is so, nothing is charged behind the back of the requests.
Accounted ==
    Calm =>
        /\ \A a \in Auths : loose[a] = 0
        /\ \A a \in charged :
              served[a] > 0 \/ \E s \in Slots : reqs[s].auth = a /\ reqs[s].at = "mined"

\* What the facilitator never breaks.
SettleInv == TypeOK /\ OnePays /\ SeenIsBacked /\ Accounted

\* The request is one that Settling counts.
Settles(r) == r.at \in {"submitting", "waiting", "mined", "reverted"}

\* A request goes from one state to the next without another authorization.
LEMMA RequestMoves ==
  ASSUME NEW r \in Request, NEW to \in {"reading", "used", "unused", "submitting", "waiting", "mined", "reverted"},
         \/ r.at = "recovering" /\ r.auth \in Signed /\ to = "reading"
         \/ r.at = "reading" /\ to \in {"used", "unused"}
         \/ r.at = "unused" /\ r.kind = "settle" /\ to = "submitting"
         \/ r.at = "submitting" /\ to = "waiting"
         \/ r.at = "waiting" /\ to \in {"mined", "reverted"}
  PROVE  /\ [r EXCEPT !.at = to] \in Request
         /\ [r EXCEPT !.at = to].at = to /\ [r EXCEPT !.at = to].auth = r.auth
BY DEF Request, Idle

\* A free slot is a request too.
LEMMA IdleRequest == Idle \in Request /\ Idle.at = "idle"
BY DEF Request, Idle

\* A request past the recovery of its signature has one, and only a settle is submitted.
LEMMA RequestAuth ==
  ASSUME NEW r \in Request, r.at # "idle"
  PROVE  /\ r.auth \in Auths
         /\ r.at # "recovering" => r.auth \in Signed
         /\ r.at \in {"submitting", "waiting", "mined", "reverted"} => r.kind = "settle"
BY FacilitatorAssumption DEF Request, Idle

\* A step that neither mines nor answers.
LEMMA SettleGoesOn ==
  ASSUME SettleInv, TypeOK', NEW s \in Slots, NEW w, reqs' = [reqs EXCEPT ![s] = w],
         reqs[s].at # "mined", w.at # "mined", UNCHANGED <<charged, served>>,
         seen' \subseteq seen \cup (IF Settles(w) THEN {w.auth} ELSE {}),
         Settles(reqs[s]) => (Settles(w) /\ w.auth = reqs[s].auth) \/ reqs[s].auth \notin seen',
         Calm' => Calm /\ loose' = loose
  PROVE  SettleInv'
<1>1. /\ reqs'[s] = w /\ \A t \in Slots : t # s => reqs'[t] = reqs[t]
      /\ reqs \in [Slots -> Request] /\ seen \subseteq Auths
  BY DEF SettleInv, TypeOK
<1>2. OnePays'
  BY <1>1 DEF SettleInv, OnePays
<1>3. SeenIsBacked'
  <2>1. ASSUME NEW a \in seen' PROVE a \in charged \/ \E t \in Slots : reqs'[t].auth = a /\ Settles(reqs'[t])
    <3>1. CASE a \in seen
      <4>1. a \in charged \/ \E t \in Slots : reqs[t].auth = a /\ Settles(reqs[t])
        BY <3>1 DEF SettleInv, SeenIsBacked, Settling, Settles
      <4> QED BY <4>1, <1>1, <2>1
    <3>2. CASE a \notin seen
      BY <3>2, <2>1, <1>1
    <3> QED BY <3>1, <3>2
  <2> QED BY <2>1 DEF SeenIsBacked, Settling, Settles
<1>4. Accounted'
  <2>1. SUFFICES ASSUME Calm' PROVE Accounted!2'
    BY DEF Accounted
  <2>2. (\A a \in Auths : loose'[a] = 0) /\ Accounted!2
    BY <2>1 DEF SettleInv, Accounted
  <2> QED BY <2>2, <1>1
<1> QED BY <1>2, <1>3, <1>4 DEF SettleInv

\* At the start nothing is charged, served or under way.
LEMMA SettleInitially == Init => SettleInv
<1> SUFFICES ASSUME Init PROVE SettleInv
  OBVIOUS
<1>1. TypeOK
  BY IdleRequest, FacilitatorAssumption DEF Init, TypeOK
<1>2. OnePays /\ SeenIsBacked /\ Accounted
  BY IdleRequest DEF Init, OnePays, SeenIsBacked, Accounted
<1> QED BY <1>1, <1>2 DEF SettleInv

\* Every step of the facilitator keeps its types.
LEMMA SettleTyped == SettleInv /\ Next => TypeOK'
<1> SUFFICES ASSUME SettleInv, Next PROVE TypeOK'
  OBVIOUS
<1>1. /\ charged \subseteq Signed /\ expired \subseteq Auths /\ loose \in [Auths -> Nat]
      /\ seen \subseteq Auths /\ reqs \in [Slots -> Request] /\ served \in [Auths -> Nat]
      /\ failed \subseteq Auths
      /\ lost \in 0..MaxLost /\ late \in 0..MaxLate /\ restarts \in 0..MaxRestarts
  BY DEF SettleInv, TypeOK
<1>2. MaxLost \in Nat /\ MaxLate \in Nat /\ MaxRestarts \in Nat /\ IsFiniteSet(Slots) /\ Signed \subseteq Auths
  BY FacilitatorAssumption
<1>3. ASSUME Throw PROVE lost' \in 0..MaxLost /\ late' \in 0..MaxLate /\ restarts' \in 0..MaxRestarts
  BY <1>1, <1>2, <1>3 DEF Throw
<1>4. ASSUME NEW a \in Auths, Abandon(a) PROVE loose' \in [Auths -> Nat]
  BY <1>1, <1>4 DEF Abandon
<1>5. ASSUME NEW s \in Slots, NEW w \in Request, reqs' = [reqs EXCEPT ![s] = w]
      PROVE reqs' \in [Slots -> Request]
  BY <1>1, <1>5
<1>6. ASSUME NEW s \in Slots, End(s) PROVE reqs' \in [Slots -> Request]
  BY <1>5, <1>6, IdleRequest DEF End
<1>7. ASSUME NEW s \in Slots,
             NEW to \in {"reading", "used", "unused", "submitting", "waiting", "mined", "reverted"},
             NEW from, Move(s, from, to),
             \/ from = "recovering" /\ reqs[s].auth \in Signed /\ to = "reading"
             \/ from = "reading" /\ to \in {"used", "unused"}
             \/ from = "unused" /\ reqs[s].kind = "settle" /\ to = "submitting"
             \/ from = "submitting" /\ to = "waiting"
             \/ from = "waiting" /\ to \in {"mined", "reverted"}
      PROVE reqs' \in [Slots -> Request]
  <2>1. reqs[s] \in Request /\ reqs[s].at = from /\ reqs' = [reqs EXCEPT ![s].at = to]
    BY <1>1, <1>7 DEF Move
  <2>2. [reqs[s] EXCEPT !.at = to] \in Request
    BY <1>7, <2>1, RequestMoves
  <2>3. reqs' = [reqs EXCEPT ![s] = [reqs[s] EXCEPT !.at = to]]
    BY <2>1
  <2> QED BY <2>2, <2>3, <1>5
<1>8. ASSUME NEW s \in Slots, reqs[s].at # "idle" PROVE reqs[s].auth \in Auths
  BY <1>1, <1>8, RequestAuth
<1>9. ASSUME NEW s \in Slots, reqs[s].at # "idle", Fail(s)
      PROVE seen' \subseteq Auths /\ failed' \subseteq Auths /\ reqs' \in [Slots -> Request]
            /\ charged' = charged /\ expired' = expired /\ served' = served
  BY <1>1, <1>6, <1>8, <1>9 DEF Fail
<1>10. ASSUME NEW a \in Auths, Charges(a) \/ Reverts PROVE charged' \subseteq Signed
  BY <1>1, <1>10 DEF Charges, Reverts
<1>20. ASSUME NEW s \in Slots, NEW a \in Auths, NEW kind \in {"verify", "settle"}, Arrive(s, a, kind)
       PROVE TypeOK'
  <2>1. [at |-> "recovering", auth |-> a, kind |-> kind] \in Request
    BY DEF Request
  <2> QED BY <1>1, <1>5, <1>20, <2>1 DEF Arrive, TypeOK, chain, answers, counters
<1>21. ASSUME NEW s \in Slots, Recover(s) PROVE TypeOK'
  <2>1. reqs' \in [Slots -> Request]
    BY <1>6, <1>7, <1>21 DEF Recover
  <2> QED BY <1>1, <1>21, <2>1 DEF Recover, TypeOK, chain, answers, counters
<1>22. ASSUME NEW s \in Slots, ReadUsed(s) PROVE TypeOK'
  <2>1. reqs' \in [Slots -> Request]
    BY <1>7, <1>22 DEF ReadUsed
  <2> QED BY <1>1, <1>22, <2>1 DEF ReadUsed, TypeOK, chain, answers, counters
<1>23. ASSUME NEW s \in Slots, VerifyEnds(s) PROVE TypeOK'
  BY <1>1, <1>6, <1>23 DEF VerifyEnds, TypeOK, chain, answers, counters
<1>24. ASSUME NEW s \in Slots, ReadThrows(s) PROVE TypeOK'
  BY <1>1, <1>3, <1>6, <1>24 DEF ReadThrows, TypeOK, chain, answers
<1>25. ASSUME NEW s \in Slots, Consume(s) PROVE TypeOK'
  <2>1. reqs' \in [Slots -> Request] /\ reqs[s].at = "unused"
    BY <1>7, <1>25 DEF Consume, Move
  <2>2. seen' \subseteq Auths
    BY <1>1, <1>8, <1>25, <2>1 DEF Consume
  <2> QED BY <1>1, <1>25, <2>1, <2>2 DEF Consume, TypeOK, chain, answers, counters
<1>26. ASSUME NEW s \in Slots, Submit(s) PROVE TypeOK'
  <2>1. reqs' \in [Slots -> Request]
    BY <1>7, <1>26 DEF Submit
  <2> QED BY <1>1, <1>26, <2>1 DEF Submit, TypeOK, chain, answers, counters
<1>27. ASSUME NEW s \in Slots, Mine(s) PROVE TypeOK'
  <2>1. reqs' \in [Slots -> Request] /\ reqs[s].at = "waiting"
    BY <1>7, <1>27 DEF Mine, Move
  <2>2. charged' \subseteq Signed
    BY <1>8, <1>10, <1>27, <2>1 DEF Mine
  <2> QED BY <1>1, <1>27, <2>1, <2>2 DEF Mine, TypeOK, answers, counters
<1>28. ASSUME NEW s \in Slots, Answer(s) PROVE TypeOK'
  BY <1>1, <1>6, <1>8, <1>28 DEF Answer, TypeOK, chain, counters
<1>29. ASSUME NEW s \in Slots, Revert(s) PROVE TypeOK'
  BY <1>1, <1>9, <1>29 DEF Revert, TypeOK, counters
<1>30. ASSUME NEW s \in Slots, SubmitThrows(s) PROVE TypeOK'
  <2>1. loose' \in [Auths -> Nat] /\ reqs[s].at # "idle" /\ Fail(s) /\ Throw
    BY <1>1, <1>4, <1>8, <1>30 DEF SubmitThrows
  <2> QED BY <1>1, <1>3, <1>9, <2>1 DEF TypeOK
<1>31. ASSUME NEW s \in Slots, ReceiptLate(s) PROVE TypeOK'
  <2>1. loose' \in [Auths -> Nat] /\ reqs[s].at # "idle" /\ Fail(s) /\ late' \in 0..MaxLate
    BY <1>1, <1>2, <1>4, <1>8, <1>31 DEF ReceiptLate
  <2> QED BY <1>1, <1>9, <1>31, <2>1 DEF ReceiptLate, TypeOK
<1>32. ASSUME NEW a \in Auths, MineLoose(a) PROVE TypeOK'
  <2>1. loose' \in [Auths -> Nat]
    BY <1>1, <1>32 DEF MineLoose
  <2> QED BY <1>1, <1>10, <1>32, <2>1 DEF MineLoose, TypeOK, answers, counters
<1>33. ASSUME NEW a \in Auths, Expire(a) PROVE TypeOK'
  BY <1>1, <1>33 DEF Expire, TypeOK, answers, counters
<1>34. ASSUME Restart PROVE TypeOK'
  <2>1. ASSUME NEW a \in Auths
        PROVE loose[a] + Cardinality({s \in Slots : reqs[s].at = "waiting" /\ reqs[s].auth = a}) \in Nat
    <3>1. Cardinality({s \in Slots : reqs[s].at = "waiting" /\ reqs[s].auth = a}) \in Nat
      BY <1>2, FS_Subset, FS_CardinalityType
    <3> QED BY <3>1, <1>1
  <2>2. loose' \in [Auths -> Nat]
    BY <2>1, <1>34 DEF Restart
  <2>3. restarts' \in 0..MaxRestarts /\ reqs' \in [Slots -> Request]
    BY <1>1, <1>2, <1>34, IdleRequest DEF Restart
  <2> QED BY <1>1, <1>34, <2>2, <2>3 DEF Restart, TypeOK, answers
<1> QED BY <1>20, <1>21, <1>22, <1>23, <1>24, <1>25, <1>26, <1>27, <1>28, <1>29, <1>30, <1>31,
           <1>32, <1>33, <1>34 DEF Next

\* Every step keeps the invariant.
LEMMA SettleStep == SettleInv /\ [Next]_vars => SettleInv'
<1> SUFFICES ASSUME SettleInv, [Next]_vars PROVE SettleInv'
  OBVIOUS
<1>1. CASE UNCHANGED vars
  BY <1>1 DEF SettleInv, vars, TypeOK, OnePays, SeenIsBacked, Settling, Accounted, Calm
<1> SUFFICES ASSUME Next PROVE SettleInv'
  BY <1>1
<1>2. TypeOK'
  BY SettleTyped
<1>3. /\ charged \subseteq Signed /\ loose \in [Auths -> Nat]
      /\ seen \subseteq Auths /\ reqs \in [Slots -> Request] /\ served \in [Auths -> Nat]
      /\ lost \in Nat /\ late \in Nat /\ restarts \in Nat /\ Signed \subseteq Auths
  BY FacilitatorAssumption DEF SettleInv, TypeOK
<1>4. UNCHANGED counters => (Calm <=> Calm')
  BY DEF counters, Calm
<1>5. Throw => ~Calm'
  BY <1>3 DEF Throw, Calm
<1>6. ASSUME NEW s \in Slots, End(s), reqs[s].at # "mined", UNCHANGED <<charged, served>>,
             seen' \subseteq seen, Settles(reqs[s]) => reqs[s].auth \notin seen', Calm' => Calm /\ loose' = loose
      PROVE SettleInv'
  <2>1. reqs' = [reqs EXCEPT ![s] = Idle] /\ Idle.at # "mined" /\ ~Settles(Idle)
    BY <1>6, IdleRequest DEF End, Settles
  <2> QED BY <1>2, <1>6, <2>1, SettleGoesOn
<1>7. ASSUME NEW s \in Slots, NEW to, NEW from, Move(s, from, to), from # "mined", to # "mined",
             UNCHANGED <<charged, served, counters, loose>>,
             seen' \subseteq seen \cup (IF to = "submitting" THEN {reqs[s].auth} ELSE {}),
             from \in {"submitting", "waiting"} => to \in {"submitting", "waiting", "reverted"},
             from # "reverted"
      PROVE SettleInv'
  <2> DEFINE w == [reqs[s] EXCEPT !.at = to]
  <2>1. /\ reqs[s].at = from /\ reqs' = [reqs EXCEPT ![s] = w] /\ reqs[s] \in Request
    BY <1>3, <1>7 DEF Move
  <2>2. w.at = to /\ w.auth = reqs[s].auth
    BY <2>1 DEF Request, Idle
  <2> HIDE DEF w
  <2> QED BY <1>2, <1>4, <1>7, <2>1, <2>2, SettleGoesOn DEF Settles
\* Whatever Charges does, no request is the worse for it.
<1>8. ASSUME NEW a \in Auths, Charges(a), UNCHANGED served
      PROVE /\ a \notin charged /\ charged' = charged \cup {a} /\ served[a] = 0
            /\ \A s \in Slots : reqs[s].at = "mined" => reqs[s].auth # a
  BY <1>8 DEF Charges, SettleInv, OnePays
<1>20. ASSUME NEW s \in Slots, NEW a \in Auths, NEW kind \in {"verify", "settle"}, Arrive(s, a, kind)
       PROVE SettleInv'
  <2> DEFINE w == [at |-> "recovering", auth |-> a, kind |-> kind]
  <2>1. w.at = "recovering" /\ reqs[s].at = "idle" /\ reqs' = [reqs EXCEPT ![s] = w]
    BY <1>20, IdleRequest DEF Arrive
  <2> HIDE DEF w
  <2> QED BY <1>2, <1>4, <1>20, <2>1, SettleGoesOn DEF Arrive, Settles, chain, answers
<1>21. ASSUME NEW s \in Slots, Recover(s) PROVE SettleInv'
  <2>1. CASE Move(s, "recovering", "reading")
    BY <1>7, <1>21, <2>1 DEF Recover, chain, answers
  <2>2. CASE End(s)
    BY <1>4, <1>6, <1>21, <2>2 DEF Recover, chain, answers, Settles
  <2> QED BY <1>21, <2>1, <2>2 DEF Recover
<1>22. ASSUME NEW s \in Slots, ReadUsed(s) PROVE SettleInv'
  BY <1>7, <1>22 DEF ReadUsed, chain, answers
<1>23. ASSUME NEW s \in Slots, VerifyEnds(s) PROVE SettleInv'
  BY <1>4, <1>6, <1>23 DEF VerifyEnds, chain, answers, Settles
<1>24. ASSUME NEW s \in Slots, ReadThrows(s) PROVE SettleInv'
  BY <1>5, <1>6, <1>24 DEF ReadThrows, chain, answers, Settles
<1>25. ASSUME NEW s \in Slots, Consume(s) PROVE SettleInv'
  BY <1>7, <1>25 DEF Consume, chain, answers
<1>26. ASSUME NEW s \in Slots, Submit(s) PROVE SettleInv'
  BY <1>7, <1>26 DEF Submit, chain, answers
<1>27. ASSUME NEW s \in Slots, Mine(s) PROVE SettleInv'
  <2>1. CASE Reverts /\ Move(s, "waiting", "reverted")
    BY <1>7, <1>27, <2>1 DEF Mine, Reverts, answers
  <2>2. CASE Charges(reqs[s].auth) /\ Move(s, "waiting", "mined")
    <3> DEFINE w == [reqs[s] EXCEPT !.at = "mined"]
               a == reqs[s].auth
    <3>1. reqs[s].at = "waiting" /\ reqs' = [reqs EXCEPT ![s] = w] /\ reqs[s] \in Request
      BY <1>3, <2>2 DEF Move
    <3>2. w.at = "mined" /\ w.auth = a /\ a \in Auths
      BY <3>1, RequestAuth DEF Request, Idle
    <3>3. /\ a \notin charged /\ charged' = charged \cup {a} /\ served[a] = 0 /\ served' = served
          /\ \A t \in Slots : reqs[t].at = "mined" => reqs[t].auth # a
          /\ loose' = loose /\ seen' = seen /\ UNCHANGED counters
      BY <1>8, <1>27, <2>2, <3>2 DEF Mine, answers
    <3>4. reqs'[s] = w /\ \A t \in Slots : t # s => reqs'[t] = reqs[t]
      BY <1>3, <3>1
    <3> HIDE DEF w, a
    <3>5. OnePays'
      <4>1. \A t \in Slots : reqs'[t].at = "mined" => reqs'[t].auth \in charged' /\ served'[reqs'[t].auth] = 0
        BY <3>2, <3>3, <3>4 DEF SettleInv, OnePays
      <4>2. \A t, u \in Slots :
              reqs'[t].at = "mined" /\ reqs'[u].at = "mined" /\ reqs'[t].auth = reqs'[u].auth => t = u
        BY <3>2, <3>3, <3>4 DEF SettleInv, OnePays
      <4> QED BY <3>3, <4>1, <4>2 DEF SettleInv, OnePays
    <3>6. SeenIsBacked'
      BY <3>1, <3>2, <3>3, <3>4 DEF SettleInv, SeenIsBacked, Settling, a
    <3>7. Accounted'
      <4>1. ASSUME Calm', NEW b \in charged'
            PROVE served'[b] > 0 \/ \E t \in Slots : reqs'[t].auth = b /\ reqs'[t].at = "mined"
        <5>1. Calm
          BY <1>4, <3>3, <4>1
        <5>2. CASE b = a
          BY <3>2, <3>4, <5>2
        <5>3. CASE b # a
          <6>1. served[b] > 0 \/ \E t \in Slots : reqs[t].auth = b /\ reqs[t].at = "mined"
            BY <3>3, <4>1, <5>1, <5>3 DEF SettleInv, Accounted
          <6> QED BY <6>1, <3>1, <3>3, <3>4
        <5> QED BY <5>2, <5>3
      <4>2. Calm' => \A b \in Auths : loose'[b] = 0
        BY <1>4, <3>3 DEF SettleInv, Accounted
      <4> QED BY <4>1, <4>2 DEF Accounted
    <3> QED BY <1>2, <3>5, <3>6, <3>7 DEF SettleInv
  <2> QED BY <1>27, <2>1, <2>2 DEF Mine
<1>28. ASSUME NEW s \in Slots, Answer(s) PROVE SettleInv'
  <2> DEFINE a == reqs[s].auth
  <2>1. /\ reqs[s].at = "mined" /\ reqs[s] \in Request /\ a \in charged /\ served[a] = 0 /\ a \in Auths
        /\ served' = [served EXCEPT ![a] = served[a] + 1]
        /\ UNCHANGED <<charged, loose, seen, counters>>
        /\ \A t \in Slots : reqs[t].at = "mined" /\ reqs[t].auth = a => t = s
    BY <1>3, <1>28 DEF Answer, chain, SettleInv, OnePays
  <2>2. reqs'[s] = Idle /\ Idle.at = "idle" /\ \A t \in Slots : t # s => reqs'[t] = reqs[t]
    BY <1>3, <1>28, IdleRequest DEF Answer, End
  <2>3. served'[a] = 1 /\ \A b \in Auths : b # a => served'[b] = served[b]
    BY <1>3, <2>1
  <2>4. reqs[s].auth = a
    OBVIOUS
  <2> HIDE DEF a
  <2>5. OnePays'
    <3>1. \A t \in Slots : reqs'[t].at = "mined" =>
             reqs'[t].auth \in charged' /\ served'[reqs'[t].auth] = 0
      <4>1. ASSUME NEW t \in Slots, reqs'[t].at = "mined"
            PROVE reqs'[t].auth \in charged' /\ served'[reqs'[t].auth] = 0
        <5>1. t # s /\ reqs'[t] = reqs[t] /\ reqs[t].auth # a
          BY <2>1, <2>2, <4>1
        <5>2. reqs[t].auth \in charged /\ served[reqs[t].auth] = 0 /\ reqs[t].auth \in Auths
          BY <4>1, <5>1, <1>3 DEF SettleInv, OnePays
        <5> QED BY <2>1, <2>3, <5>1, <5>2
      <4> QED BY <4>1
    <3>2. \A t, u \in Slots :
            reqs'[t].at = "mined" /\ reqs'[u].at = "mined" /\ reqs'[t].auth = reqs'[u].auth => t = u
      BY <2>2 DEF SettleInv, OnePays
    <3>3. \A b \in Auths : served'[b] \in {0, 1} /\ (served'[b] = 1 => b \in charged')
      BY <2>1, <2>3 DEF SettleInv, OnePays
    <3> QED BY <3>1, <3>2, <3>3 DEF OnePays
  <2>6. SeenIsBacked'
    BY <2>1, <2>2, <2>4 DEF SettleInv, SeenIsBacked, Settling
  <2>7. Accounted'
    <3>1. ASSUME Calm', NEW b \in charged'
          PROVE served'[b] > 0 \/ \E t \in Slots : reqs'[t].auth = b /\ reqs'[t].at = "mined"
      <4>1. served[b] > 0 \/ \E t \in Slots : reqs[t].auth = b /\ reqs[t].at = "mined"
        BY <1>4, <2>1, <3>1 DEF SettleInv, Accounted
      <4>2. b \in Auths
        BY <1>3, <2>1, <3>1
      <4> QED BY <4>1, <4>2, <2>2, <2>3, <2>4
    <3>2. Calm' => \A b \in Auths : loose'[b] = 0
      BY <1>4, <2>1 DEF SettleInv, Accounted
    <3> QED BY <3>1, <3>2 DEF Accounted
  <2> QED BY <1>2, <2>5, <2>6, <2>7 DEF SettleInv
<1>29. ASSUME NEW s \in Slots, Revert(s) PROVE SettleInv'
  BY <1>4, <1>6, <1>29 DEF Revert, Fail
<1>30. ASSUME NEW s \in Slots, SubmitThrows(s) PROVE SettleInv'
  BY <1>5, <1>6, <1>30 DEF SubmitThrows, Fail
<1>31. ASSUME NEW s \in Slots, ReceiptLate(s) PROVE SettleInv'
  <2>1. ~Calm'
    BY <1>3, <1>31 DEF ReceiptLate, Calm
  <2>2. CASE reqs[s].at # "mined"
    BY <1>6, <1>31, <2>1, <2>2 DEF ReceiptLate, Fail
  <2>3. CASE reqs[s].at = "mined"
    <3>1. /\ reqs'[s] = Idle /\ Idle.at = "idle" /\ \A t \in Slots : t # s => reqs'[t] = reqs[t]
          /\ seen' = seen \ {reqs[s].auth} /\ UNCHANGED <<charged, served>>
      BY <1>3, <1>31, IdleRequest DEF ReceiptLate, Fail, End
    <3>2. OnePays'
      BY <3>1 DEF SettleInv, OnePays
    <3>3. SeenIsBacked'
      BY <2>3, <3>1 DEF SettleInv, SeenIsBacked, Settling
    <3> QED BY <1>2, <2>1, <3>2, <3>3 DEF SettleInv, Accounted
  <2> QED BY <2>2, <2>3
<1>32. ASSUME NEW a \in Auths, MineLoose(a) PROVE SettleInv'
  <2>1. /\ loose[a] > 0 /\ UNCHANGED <<seen, reqs, served, counters>>
        /\ Charges(a) \/ charged' = charged
    BY <1>32 DEF MineLoose, answers, Reverts
  <2>2. ~Calm'
    BY <1>4, <2>1 DEF SettleInv, Accounted
  <2>3. charged \subseteq charged'
    BY <2>1 DEF Charges
  <2>4. OnePays'
    BY <2>1, <2>3 DEF SettleInv, OnePays
  <2>5. SeenIsBacked'
    BY <2>1, <2>3 DEF SettleInv, SeenIsBacked, Settling
  <2> QED BY <1>2, <2>2, <2>4, <2>5 DEF SettleInv, Accounted
<1>33. ASSUME NEW a \in Auths, Expire(a) PROVE SettleInv'
  BY <1>2, <1>33
     DEF Expire, answers, counters, SettleInv, OnePays, SeenIsBacked, Settling, Accounted, Calm
<1>34. ASSUME Restart PROVE SettleInv'
  <2>1. /\ seen' = {} /\ reqs' = [s \in Slots |-> Idle] /\ Idle.at = "idle"
        /\ UNCHANGED <<charged, served>> /\ restarts' = restarts + 1 /\ UNCHANGED <<lost, late>>
    BY <1>34, IdleRequest DEF Restart, answers
  <2>2. ~Calm'
    BY <1>3, <2>1 DEF Calm
  <2>3. OnePays'
    BY <2>1 DEF SettleInv, OnePays
  <2> QED BY <1>2, <2>1, <2>2, <2>3 DEF SettleInv, Accounted, SeenIsBacked
<1> QED BY <1>20, <1>21, <1>22, <1>23, <1>24, <1>25, <1>26, <1>27, <1>28, <1>29, <1>30, <1>31,
           <1>32, <1>33, <1>34 DEF Next

\* Hence it holds of every behaviour.
LEMMA SettleAlways == Spec => []SettleInv
BY SettleInitially, SettleStep, PTL DEF Spec

\* Refinement: each step charges one authorization, serves one, or does neither.
LEMMA SettleRefines == SettleInv /\ [Next]_vars => [Access!AccessNext]_Access!accessVars
<1> SUFFICES ASSUME SettleInv, [Next]_vars PROVE [Access!AccessNext]_Access!accessVars
  OBVIOUS
<1> USE DEF Access!AccessNext, Access!accessVars, Access!Charge, Access!Serve
<1>1. ASSUME UNCHANGED <<charged, served>> PROVE UNCHANGED Access!accessVars
  BY <1>1
<1>2. ASSUME NEW a \in Auths, Charges(a), UNCHANGED served PROVE Access!AccessNext
  BY <1>2 DEF Charges
<1>3. ASSUME NEW s \in Slots, Mine(s) PROVE [Access!AccessNext]_Access!accessVars
  <2>1. reqs[s].at = "waiting" /\ reqs[s] \in Request
    BY <1>3 DEF Mine, Move, SettleInv, TypeOK
  <2>2. reqs[s].auth \in Auths
    BY <2>1, RequestAuth
  <2>3. CASE Charges(reqs[s].auth)
    BY <1>2, <1>3, <2>2, <2>3 DEF Mine, answers
  <2>4. CASE Reverts
    BY <1>1, <1>3, <2>4 DEF Mine, answers, Reverts
  <2> QED BY <1>3, <2>3, <2>4 DEF Mine
<1>4. ASSUME NEW s \in Slots, Answer(s) PROVE Access!AccessNext
  <2>1. reqs[s].at = "mined" /\ reqs[s] \in Request /\ served \in [Auths -> Nat]
    BY <1>4 DEF Answer, SettleInv, TypeOK
  <2>2. reqs[s].auth \in Auths /\ reqs[s].auth \in charged /\ served[reqs[s].auth] = 0
    BY <2>1, RequestAuth DEF SettleInv, OnePays
  <2>3. served' = [served EXCEPT ![reqs[s].auth] = 1] /\ charged' = charged
    BY <1>4, <2>2 DEF Answer, chain
  <2> QED BY <2>2, <2>3
<1>5. ASSUME NEW a \in Auths, MineLoose(a) PROVE [Access!AccessNext]_Access!accessVars
  BY <1>1, <1>2, <1>5 DEF MineLoose, answers, Reverts
<1>6. ASSUME NEW s \in Slots,
             \/ \E a \in Auths, kind \in {"verify", "settle"} : Arrive(s, a, kind)
             \/ Recover(s) \/ ReadUsed(s) \/ VerifyEnds(s) \/ ReadThrows(s) \/ Consume(s)
             \/ Submit(s) \/ Revert(s) \/ SubmitThrows(s) \/ ReceiptLate(s)
      PROVE UNCHANGED <<charged, served>>
  BY <1>6 DEF Arrive, Recover, ReadUsed, VerifyEnds, ReadThrows, Consume, Submit, Revert, SubmitThrows,
     ReceiptLate, Fail, chain, answers
<1>7. ASSUME Restart \/ (\E a \in Auths : Expire(a)) \/ UNCHANGED vars PROVE UNCHANGED <<charged, served>>
  BY <1>7 DEF Restart, Expire, vars, answers
<1> QED BY <1>1, <1>3, <1>4, <1>5, <1>6, <1>7 DEF Next

\* The facilitator implements PaidAccess, for any number of authorizations and
\* requests: settle() answers success for an authorization once at most, and only
\* after its transfer is on the chain, whatever was late, lost or cut by a restart
\* (morph/facilitator.ts:101-123, 236-284).
THEOREM FacilitatorServesPaid == Spec => SuccessMeansCharged
<1>1. Init => Access!AccessInit
  BY DEF Init, Access!AccessInit
<1>2. Spec => Access!AccessInit
  BY <1>1 DEF Spec
<1>3. Spec => [][Next]_vars
  BY DEF Spec
<1> QED BY <1>2, <1>3, SettleAlways, SettleRefines, PTL DEF SuccessMeansCharged, Access!AccessSpec

-------------------------------------------------------------------------------
(* Morph: the buyer.                                                       *)

\* Everything the facilitator checks of a call, but for the time.
Fits == wire.mounted /\ wire.fields /\ domain = "right" /\ (~wire.guarded \/ wire.keys = "same")

\* A request under way, or a transfer that landed, belongs to the call the buyer
\* waits for or to one it was left unsure about.
CallInv(n) ==
    /\ buyer.call < n \/ (buyer.call = n /\ buyer.at = "verify") =>
          posts[n].at = "none" /\ posts[n].answer = "none" /\ n \notin movedBy
    /\ n \in movedBy => n \in unsure \/ (n = buyer.call /\ buyer.at \in {"settle", "done"})
    /\ posts[n].at \in {"none", "sent", "working"} => posts[n].answer = "none"
    /\ posts[n].answer = "none" => n \notin movedBy
    /\ posts[n].at \in {"sent", "working", "late"} =>
          n \in unsure \/ (n = buyer.call /\ buyer.at = "settle")
    /\ posts[n].at = "late" => n \in unsure /\ posts[n].answer = "failure"
    /\ posts[n].answer = "success" => n \in movedBy
    /\ posts[n].answer = "failure" /\ n \in movedBy => n \in unsure
    /\ posts[n].at \in {"working", "late"} \/ n \in movedBy => Fits

\* What the buyer of a Morph facilitator never breaks.
BuyerInv ==
    /\ MorphTypeOK
    /\ buyer.at \in {"verify", "settle", "done"} => buyer.call \in Calls
    /\ buyer.at = "done" => buyer.call \in movedBy
    /\ \A n \in Calls : CallInv(n)

\* What a step leaves alone of a call stays true of it.
LEMMA CallKept ==
  ASSUME NEW n \in Calls, CallInv(n), posts'[n] = posts[n], n \in movedBy' <=> n \in movedBy,
         n \in unsure => n \in unsure', Fits => Fits',
         (buyer'.call < n \/ (buyer'.call = n /\ buyer'.at = "verify")) =>
            buyer.call < n \/ (buyer.call = n /\ buyer.at = "verify"),
         n = buyer.call /\ buyer.at \in {"settle", "done"} =>
            \/ n \in unsure'
            \/ /\ n = buyer'.call
               /\ \/ buyer'.at = buyer.at
                  \/ buyer'.at \in {"settle", "done"} /\ posts[n].at \notin {"sent", "working", "late"}
            \/ (n \notin movedBy /\ posts[n].at \notin {"sent", "working", "late"})
  PROVE  CallInv(n)'
BY DEF CallInv

\* At the start no call was made.
LEMMA BuyerInitially == MorphInit => BuyerInv
<1> SUFFICES ASSUME MorphInit PROVE BuyerInv
  OBVIOUS
<1>1. /\ {MorphTries, MorphTimeout, SponsorWait, HmacSkew, AuthWindow, MaxMorphTime} \subseteq Nat
      /\ Calls \subseteq Nat /\ \A n \in Calls : 0 < n
  BY FacilitatorAssumption DEF Calls
<1>2. MorphTypeOK
  BY <1>1 DEF MorphInit, MorphTypeOK, NewBuyer, NoPost
<1>3. \A n \in Calls : posts[n].at = "none" /\ posts[n].answer = "none" /\ n \notin movedBy
  BY DEF MorphInit, NoPost
<1>4. buyer.at = "idle" /\ buyer.call = 0
  BY DEF MorphInit, NewBuyer
<1> QED BY <1>1, <1>2, <1>3, <1>4 DEF BuyerInv, CallInv

\* Every step of the buyer, its requests and the chain keeps it.
LEMMA BuyerStep == BuyerInv /\ [MorphNext]_morphVars => BuyerInv'
<1> SUFFICES ASSUME BuyerInv, [MorphNext]_morphVars PROVE BuyerInv'
  OBVIOUS
<1>1. CASE UNCHANGED morphVars
  BY <1>1 DEF morphVars, BuyerInv, MorphTypeOK, CallInv, Fits
<1> SUFFICES ASSUME MorphNext PROVE BuyerInv'
  BY <1>1
<1> DEFINE P == [at : {"none", "sent", "working", "late", "ended"}, stamp : 0..MaxMorphTime,
                 until : Nat, answer : {"none", "success", "failure"}]
           B == [at : {"idle", "verify", "settle", "done", "threw"}, call : 0..MorphTries,
                 since : 0..MaxMorphTime]
<1>2. /\ wire \in Wires /\ buyer \in B /\ posts \in [Calls -> P]
      /\ domain \in {"unknown", "right", "wrong"} /\ morphTime \in 0..MaxMorphTime
      /\ movedBy \subseteq Calls /\ unsure \subseteq Calls
  BY DEF BuyerInv, MorphTypeOK
<1>3. /\ MorphTries \in Nat /\ MaxMorphTime \in Nat /\ AuthWindow \in Nat
      /\ Calls \subseteq Nat /\ \A n \in Nat : n \in Calls <=> 0 < n /\ n <= MorphTries
  BY FacilitatorAssumption DEF Calls
<1>4. /\ buyer.call \in 0..MorphTries /\ buyer.call \in Nat /\ buyer.since \in 0..MaxMorphTime
      /\ buyer.at \in {"idle", "verify", "settle", "done", "threw"}
  BY <1>2, <1>3
<1>5. /\ buyer.at \in {"verify", "settle", "done"} => buyer.call \in Calls
      /\ buyer.at = "done" => buyer.call \in movedBy
      /\ \A n \in Calls : CallInv(n)
  BY DEF BuyerInv
<1>6. \A n \in Calls : posts[n] \in P /\ posts[n].until \in Nat
  BY <1>2
<1>7. MorphTypeOK' <=>
        /\ wire' \in Wires /\ buyer' \in B /\ posts' \in [Calls -> P]
        /\ domain' \in {"unknown", "right", "wrong"} /\ morphTime' \in 0..MaxMorphTime
        /\ movedBy' \subseteq Calls /\ unsure' \subseteq Calls
  BY DEF MorphTypeOK
<1>8. ASSUME NEW n \in Calls, NEW w \in P, posts' = [posts EXCEPT ![n] = w]
      PROVE posts' \in [Calls -> P] /\ posts'[n] = w /\ \A m \in Calls : m # n => posts'[m] = posts[m]
  BY <1>2, <1>8
<1> HIDE DEF P, B
\* MakeOut: the next call begins.
<1>10. ASSUME MakeOut PROVE BuyerInv'
  <2>0. PICK n \in Nat : n = buyer.call + 1
    BY <1>4
  <2> DEFINE w == [posts[n] EXCEPT !.stamp = morphTime, !.until = morphTime + AuthWindow]
  <2>1. n \in Calls /\ buyer.at = "idle" /\ buyer.call < n /\ n \in Nat
    BY <1>3, <1>4, <1>10, <2>0 DEF MakeOut
  <2>2. /\ posts' = [posts EXCEPT ![n] = w] /\ buyer' = [at |-> "verify", call |-> n, since |-> morphTime]
        /\ ResolveDomain /\ UNCHANGED <<wire, morphTime, movedBy, unsure>>
    BY <1>2, <1>10, <2>0, <2>1 DEF MakeOut
  <2>3. w \in P /\ w.at = posts[n].at /\ w.answer = posts[n].answer
    <3>1. posts[n] \in P /\ morphTime \in 0..MaxMorphTime /\ morphTime + AuthWindow \in Nat
      BY <1>2, <1>3, <1>6, <2>1
    <3> QED BY ONLY <3>1 DEF P, w
  <2>4. /\ posts[n].at = "none" /\ posts[n].answer = "none" /\ n \notin movedBy
    BY <1>5, <2>1 DEF CallInv
  <2>5. /\ buyer'.at = "verify" /\ buyer'.call = n /\ buyer' \in B
    BY <1>2, <1>3, <2>1, <2>2 DEF B
  <2>6. Fits => Fits'
    BY <2>2 DEF Fits, ResolveDomain
  <2>7. domain' \in {"unknown", "right", "wrong"}
    BY <1>2, <2>2 DEF ResolveDomain
  <2> HIDE DEF w
  <2>8. posts' \in [Calls -> P] /\ posts'[n] = w /\ \A m \in Calls : m # n => posts'[m] = posts[m]
    BY <1>8, <2>1, <2>2, <2>3
  <2>9. MorphTypeOK'
    BY <1>2, <1>7, <2>2, <2>5, <2>7, <2>8
  <2>10. CallInv(n)'
    BY <2>2, <2>3, <2>4, <2>5, <2>8 DEF CallInv
  <2>11. ASSUME NEW m \in Calls, m # n PROVE CallInv(m)'
    <3>1. m \in Nat /\ (n < m => buyer.call < m)
      BY <1>3, <1>4, <2>0, <2>1, <2>11
    <3> QED BY <1>5, <2>1, <2>2, <2>5, <2>6, <2>8, <2>11, <3>1, CallKept
  <2> QED BY <2>1, <2>5, <2>9, <2>10, <2>11 DEF BuyerInv
<1>11. ASSUME MorphVerified PROVE BuyerInv'
  <2>0. PICK n \in Nat : n = buyer.call
    BY <1>4
  <2> DEFINE w == [posts[n] EXCEPT !.at = "sent", !.stamp = morphTime]
  <2>1. /\ n \in Calls /\ buyer.at = "verify" /\ UNCHANGED <<wire, domain, morphTime, movedBy, unsure>>
        /\ posts[n].at = "none" /\ posts[n].answer = "none" /\ n \notin movedBy
    BY <1>4, <1>5, <1>11, <2>0 DEF MorphVerified, CallInv
  <2>2. \A m \in Calls : m # n => CallInv(m) /\ (m < n \/ n < m)
    BY <1>3, <1>5, <2>0, <2>1
  <2>3. CASE posts' = posts /\ buyer' = [buyer EXCEPT !.at = "threw"]
    <3>1. buyer' \in B /\ buyer'.at = "threw" /\ buyer'.call = n
      BY <1>2, <2>0, <2>3 DEF B
    <3>2. \A m \in Calls : CallInv(m)'
      BY <1>5, <2>0, <2>1, <2>3, <3>1 DEF CallInv, Fits
    <3> QED BY <1>2, <1>7, <2>1, <2>3, <3>1, <3>2 DEF BuyerInv
  <2>4. CASE /\ buyer' = [buyer EXCEPT !.at = "settle", !.since = morphTime]
             /\ posts' = [posts EXCEPT ![n] = w]
    <3>1. buyer' \in B /\ buyer'.at = "settle" /\ buyer'.call = n
      BY <1>2, <2>0, <2>4 DEF B
    <3>2. w \in P /\ w.at = "sent" /\ w.answer = posts[n].answer
      BY <1>2, <1>6, <2>1 DEF P
    <3> HIDE DEF w
    <3>3. posts' \in [Calls -> P] /\ posts'[n] = w /\ \A m \in Calls : m # n => posts'[m] = posts[m]
      BY <1>8, <2>1, <2>4, <3>2
    <3>4. CallInv(n)'
      BY <2>1, <3>1, <3>2, <3>3 DEF CallInv
    <3>5. \A m \in Calls : m # n => CallInv(m)'
      BY <2>0, <2>1, <2>2, <3>1, <3>3 DEF CallInv, Fits
    <3> QED BY <1>2, <1>7, <2>1, <3>1, <3>3, <3>4, <3>5 DEF BuyerInv
  <2>5. [posts EXCEPT ![n].at = "sent", ![n].stamp = morphTime] = [posts EXCEPT ![n] = w]
    BY <1>2, <2>1
  <2> QED BY <1>11, <2>0, <2>3, <2>4, <2>5 DEF MorphVerified
<1>12. ASSUME MorphSettled PROVE BuyerInv'
  <2>0. PICK n \in Nat : n = buyer.call
    BY <1>4
  <2> DEFINE to == IF posts[n].answer = "success" THEN "done" ELSE "threw"
  <2>1. /\ n \in Calls /\ buyer.at = "settle" /\ posts[n].answer # "none" /\ posts[n] \in P
        /\ UNCHANGED <<wire, posts, domain, morphTime, movedBy, unsure>>
        /\ buyer' = [buyer EXCEPT !.at = to]
    BY <1>5, <1>6, <1>12, <2>0 DEF MorphSettled
  <2>2. buyer' \in B /\ buyer'.at = to /\ buyer'.call = n
    BY <1>2, <2>0, <2>1 DEF B
  <2>3. posts[n].answer \in {"success", "failure"} /\ CallInv(n)
    BY <1>5, <2>1 DEF P
  <2>4. posts[n].at \notin {"none", "sent", "working"} /\ (to = "done" => n \in movedBy)
    BY <2>3 DEF CallInv
  <2>5. to = "threw" => (n \in movedBy => n \in unsure)
    BY <2>3 DEF CallInv
  <2>6. to \in {"done", "threw"}
    OBVIOUS
  <2> HIDE DEF to
  <2>7. \A m \in Calls : CallInv(m)'
    BY <1>5, <2>0, <2>1, <2>2, <2>4, <2>5, <2>6 DEF CallInv, Fits
  <2> QED BY <1>2, <1>7, <2>1, <2>2, <2>4, <2>6, <2>7 DEF BuyerInv
<1>13. ASSUME MorphTimesOut PROVE BuyerInv'
  <2>1. /\ buyer.at \in {"verify", "settle"} /\ buyer.call \in Calls
        /\ buyer' = [buyer EXCEPT !.at = "threw"]
        /\ unsure' = IF buyer.at = "settle" THEN unsure \cup {buyer.call} ELSE unsure
        /\ UNCHANGED <<wire, posts, domain, morphTime, movedBy>>
    BY <1>5, <1>13 DEF MorphTimesOut
  <2>2. buyer' \in B /\ buyer'.at = "threw" /\ buyer'.call = buyer.call
    BY <1>2, <2>1 DEF B
  <2>3. unsure' \subseteq Calls
    BY <1>2, <2>1
  <2>4. \A m \in Calls : CallInv(m)'
    BY <1>5, <2>1, <2>2 DEF CallInv, Fits
  <2> QED BY <1>2, <1>7, <2>1, <2>2, <2>3, <2>4 DEF BuyerInv
<1>14. ASSUME PayAgain PROVE BuyerInv'
  <2>1. buyer' \in B /\ buyer'.at = "idle" /\ buyer'.call = buyer.call /\ buyer.at = "threw"
    BY <1>2, <1>14 DEF B, PayAgain
  <2>2. UNCHANGED <<wire, posts, domain, morphTime, movedBy, unsure>>
    BY <1>14 DEF PayAgain
  <2>3. \A m \in Calls : CallInv(m)'
    BY <1>5, <2>1, <2>2 DEF CallInv, Fits
  <2> QED BY <1>2, <1>7, <2>1, <2>2, <2>3 DEF BuyerInv
<1>15. ASSUME MorphTick PROVE BuyerInv'
  <2>1. UNCHANGED <<wire, buyer, posts, domain, movedBy, unsure>> /\ morphTime' \in 0..MaxMorphTime
    BY <1>2, <1>3, <1>15 DEF MorphTick
  <2>2. \A m \in Calls : CallInv(m)'
    BY <1>5, <2>1 DEF CallInv, Fits
  <2> QED BY <1>2, <1>5, <1>7, <2>1, <2>2 DEF BuyerInv
\* What happens to the request of a call n.
<1>16. ASSUME NEW n \in Calls, NEW w \in P, posts' = [posts EXCEPT ![n] = w], CallInv(n)',
              UNCHANGED <<wire, buyer, domain, morphTime>>,
              movedBy' \in {movedBy, movedBy \cup {n}}, unsure' \in {unsure, unsure \cup {n}}
       PROVE BuyerInv'
  <2>1. posts' \in [Calls -> P] /\ posts'[n] = w /\ \A m \in Calls : m # n => posts'[m] = posts[m]
    BY <1>8, <1>16
  <2>2. \A m \in Calls : m # n => CallInv(m)'
    BY <1>5, <1>16, <2>1 DEF CallInv, Fits
  <2>3. movedBy' \subseteq Calls /\ unsure' \subseteq Calls
    BY <1>2, <1>16
  <2> QED BY <1>2, <1>5, <1>7, <1>16, <2>1, <2>2, <2>3 DEF BuyerInv
<1>17. ASSUME NEW n \in Calls, Admitted(n) PROVE BuyerInv'
  <2> DEFINE u == [posts[n] EXCEPT !.at = "working", !.stamp = morphTime]
             v == [posts[n] EXCEPT !.at = "ended", !.answer = "failure"]
  <2>1. /\ posts[n].at = "sent" /\ UNCHANGED <<wire, buyer, domain, morphTime, movedBy, unsure>>
        /\ \/ posts' = [posts EXCEPT ![n] = u] /\ Takes(posts[n].stamp, posts[n].until)
           \/ posts' = [posts EXCEPT ![n] = v]
    BY <1>2, <1>17 DEF Admitted
  <2>2. /\ u \in P /\ v \in P /\ u.at = "working" /\ u.answer = posts[n].answer
        /\ v.at = "ended" /\ v.answer = "failure"
    BY <1>2, <1>6 DEF P
  <2> HIDE DEF u, v
  <2>3. /\ posts' = [posts EXCEPT ![n] = u] => posts'[n] = u
        /\ posts' = [posts EXCEPT ![n] = v] => posts'[n] = v
    BY <1>2
  <2>4. Takes(posts[n].stamp, posts[n].until) => Fits
    BY DEF Takes, Fits, Routed, HmacFits, KeysFit, FieldsFit, SignerFits
  <2>5. CallInv(n) /\ (posts[n].at = "sent" => posts[n].answer = "none")
    BY <1>5 DEF CallInv
  <2>6. CASE posts' = [posts EXCEPT ![n] = u] /\ Takes(posts[n].stamp, posts[n].until)
    <3>1. CallInv(n)'
      BY <2>1, <2>2, <2>3, <2>4, <2>5, <2>6 DEF CallInv, Fits
    <3> QED BY <1>16, <2>1, <2>2, <2>6, <3>1
  <2>7. CASE posts' = [posts EXCEPT ![n] = v]
    <3>1. CallInv(n)'
      BY <2>1, <2>2, <2>3, <2>5, <2>7 DEF CallInv, Fits
    <3> QED BY <1>16, <2>1, <2>2, <2>7, <3>1
  <2> QED BY <2>1, <2>6, <2>7
<1>18. ASSUME NEW n \in Calls, Sponsored(n) PROVE BuyerInv'
  <2>1. /\ posts[n].at = "working" /\ UNCHANGED <<wire, buyer, domain, morphTime>> /\ CallInv(n)
        /\ posts[n] \in P /\ posts \in [Calls -> P]
    BY <1>2, <1>5, <1>6, <1>18 DEF Sponsored
  <2>2. ASSUME NEW at \in {"ended", "late"}, NEW answer \in {"success", "failure"},
               posts' = [posts EXCEPT ![n].at = at, ![n].answer = answer]
        PROVE \E w \in P : posts' = [posts EXCEPT ![n] = w] /\ w.at = at /\ w.answer = answer /\ posts'[n] = w
    <3> DEFINE w == [posts[n] EXCEPT !.at = at, !.answer = answer]
    <3>1. w \in P /\ w.at = at /\ w.answer = answer
      BY <2>1 DEF P
    <3>2. posts' = [posts EXCEPT ![n] = w] /\ posts'[n] = w
      BY <2>1, <2>2
    <3> QED BY <3>1, <3>2
  <2>3. CASE /\ movedBy' = movedBy \cup {n} /\ unsure' = unsure
             /\ posts' = [posts EXCEPT ![n].at = "ended", ![n].answer = "success"]
    <3>1. PICK w \in P : posts' = [posts EXCEPT ![n] = w] /\ w.at = "ended" /\ w.answer = "success"
                         /\ posts'[n] = w
      BY <2>2, <2>3
    <3>2. CallInv(n)'
      BY <2>1, <2>3, <3>1 DEF CallInv, Fits
    <3> QED BY <1>16, <2>1, <2>3, <3>1, <3>2
  <2>4. CASE /\ UNCHANGED <<movedBy, unsure>>
             /\ posts' = [posts EXCEPT ![n].at = "ended", ![n].answer = "failure"]
    <3>1. PICK w \in P : posts' = [posts EXCEPT ![n] = w] /\ w.at = "ended" /\ w.answer = "failure"
                         /\ posts'[n] = w
      BY <2>2, <2>4
    <3>2. CallInv(n)'
      BY <2>1, <2>4, <3>1 DEF CallInv, Fits
    <3> QED BY <1>16, <2>1, <2>4, <3>1, <3>2
  <2>5. CASE /\ unsure' = unsure \cup {n} /\ movedBy' = movedBy
             /\ posts' = [posts EXCEPT ![n].at = "late", ![n].answer = "failure"]
    <3>1. PICK w \in P : posts' = [posts EXCEPT ![n] = w] /\ w.at = "late" /\ w.answer = "failure"
                         /\ posts'[n] = w
      BY <2>2, <2>5
    <3>2. CallInv(n)'
      BY <2>1, <2>5, <3>1 DEF CallInv, Fits
    <3> QED BY <1>16, <2>1, <2>5, <3>1, <3>2
  <2> QED BY <1>18, <2>3, <2>4, <2>5 DEF Sponsored
<1>19. ASSUME NEW n \in Calls, LandsLate(n) PROVE BuyerInv'
  <2> DEFINE w == [posts[n] EXCEPT !.at = "ended"]
  <2>1. /\ posts[n].at = "late" /\ UNCHANGED <<wire, buyer, domain, morphTime, unsure>> /\ CallInv(n)
        /\ movedBy' = movedBy \cup {n} /\ posts' = [posts EXCEPT ![n] = w] /\ posts[n] \in P
    BY <1>2, <1>5, <1>6, <1>19 DEF LandsLate
  <2>2. w \in P /\ w.at = "ended" /\ w.answer = posts[n].answer /\ posts'[n] = w
    BY <1>2, <2>1 DEF P
  <2> HIDE DEF w
  <2>3. posts[n].answer # "none"
    BY <2>1 DEF CallInv
  <2>4. CallInv(n)'
    BY <2>1, <2>2, <2>3 DEF CallInv, Fits
  <2> QED BY <1>16, <2>1, <2>2, <2>4
<1> QED BY <1>10, <1>11, <1>12, <1>13, <1>14, <1>15, <1>17, <1>18, <1>19 DEF MorphNext

-------------------------------------------------------------------------------
(* Morph: the facilitator and its buyer.                                   *)

\* Hence the buyer's invariant holds of every behaviour.
LEMMA BuyerAlways == MorphSpec => []BuyerInv
BY BuyerInitially, BuyerStep, PTL DEF MorphSpec

\* The two invariants say what the facilitator and its buyer are told.
LEMMA MorphKept == SettleInv /\ BuyerInv => MorphHolds
<1> SUFFICES ASSUME SettleInv, BuyerInv PROVE MorphHolds
  OBVIOUS
<1>1. FailedMeansUnpaid
  <2> SUFFICES ASSUME Calm, NEW a \in failed \cap charged PROVE served[a] > 0 \/ Settling(a)
    BY DEF FailedMeansUnpaid, Calm
  <2> QED BY DEF SettleInv, Accounted, Settling
<1>2. \A n \in movedBy : n \in unsure \/ (n = buyer.call /\ buyer.at \in {"settle", "done"})
  BY DEF BuyerInv, MorphTypeOK, CallInv
<1>3. movedBy # {} => Fits
  BY DEF BuyerInv, MorphTypeOK, CallInv
<1>4. BuyerPaysOnce
  BY <1>2, <1>3 DEF BuyerInv, BuyerPaysOnce, Fits
<1> QED BY <1>1, <1>4 DEF SettleInv, MorphHolds

\* For any number of authorizations, requests and calls: a nonce refused as used
\* is being settled or was, one that was failed has not been paid with (unless a
\* receipt was late, a call threw or the process restarted), and a buyer pays
\* twice only after a wait ran out (morph/facilitator.ts:101-137,
\* adapters/morph-x402.ts:171-180).
THEOREM MorphAlwaysHolds == Spec /\ MorphSpec => []MorphHolds
BY SettleAlways, BuyerAlways, MorphKept, PTL

-------------------------------------------------------------------------------
(* Flare: the gasless relay.                                               *)

\* Where a job is while its answer is still to come.
Active == {"arrived", "read", "verified", "sent", "ok", "reverted"}
\* The buyer hears the answer of this job.
Awaited(j) == jobs[j].heard /\ jobs[j].at \in Active

\* A job is somebody's, of a payment that was posted; one that was stale on
\* arrival gets no further than the check of its signature.
JobInv(j) ==
    /\ jobs[j].at = "free" => jobs[j].pay = NoPay /\ ~jobs[j].heard /\ ~jobs[j].stale
    /\ jobs[j].at # "free" => /\ jobs[j].pay \in GaslessPays
                              /\ signed[jobs[j].pay].at \in {"posted", "paid", "threw"}
    /\ Awaited(j) => signed[jobs[j].pay].at = "posted"
    /\ jobs[j].at = "ok" => jobs[j].pay \in forwarder.paid
    /\ jobs[j].stale =>
          /\ jobs[j].at \in {"arrived", "read", "refused"}
          /\ signed[jobs[j].pay].nonce < forwarder.nonce
          /\ jobs[j].at = "read" => signed[jobs[j].pay].nonce < jobs[j].read

\* The buyer waits for one job of a payment at most.
OneAwaited ==
    \A j, k \in Jobs : Awaited(j) /\ Awaited(k) /\ jobs[j].pay = jobs[k].pay => j = k

\* Every payment that was made leaves a trace the buyer has heard or will hear
\* of, or an answer it lost.
Traced(p) ==
    \E j \in Jobs :
        /\ jobs[j].pay = p
        /\ jobs[j].at \in {"late", "ok"} \/ ~jobs[j].heard \/ signed[p].at = "paid"

\* The forwarder counts the payments it made, each of them once.
NonceCounts ==
    /\ forwarder.nonce = Cardinality(forwarder.paid)
    /\ \A p \in forwarder.paid : signed[p].nonce < forwarder.nonce /\ signed[p].at \notin {"idle", "nonce"}

\* What the relay never breaks.
RelayInv ==
    /\ GaslessTypeOK
    /\ \A j \in Jobs : JobInv(j)
    /\ OneAwaited
    /\ NonceCounts
    /\ \A p \in forwarder.paid : Traced(p)
    /\ PaidMeansTransferred

\* The sets the state is made of, by name.
Job == [at : {"free", "arrived", "read", "verified", "sent", "ok", "reverted", "answered", "refused", "late"},
        pay : GaslessPays \cup {NoPay}, read : Nonces, heard : BOOLEAN, stale : BOOLEAN]
SignedPay == [at : {"idle", "nonce", "signed", "posted", "paid", "threw"}, nonce : Nonces,
              deadline : 0..(MaxChainTime + Validity)]
Forwarder == [nonce : Nonces, funds : 0..StartFunds, approved : BOOLEAN, paid : SUBSET GaslessPays]

\* The types, one variable at a time.
LEMMA RelayTypes ==
  /\ GaslessTypeOK <=> /\ forwarder \in Forwarder /\ chainTime \in 0..MaxChainTime
                       /\ signed \in [GaslessPays -> SignedPay] /\ jobs \in [Jobs -> Job]
  /\ GaslessTypeOK' <=> /\ forwarder' \in Forwarder /\ chainTime' \in 0..MaxChainTime
                        /\ signed' \in [GaslessPays -> SignedPay] /\ jobs' \in [Jobs -> Job]
BY DEF GaslessTypeOK, Forwarder, SignedPay, Job

\* What the constants are.
LEMMA RelaySizes ==
  /\ Nonces \subseteq Nat /\ 0 \in Nonces
  /\ MaxChainTime \in Nat /\ Validity \in Nat /\ StartFunds \in Nat /\ NoPay \notin GaslessPays
  /\ IsFiniteSet(GaslessPays) /\ Cardinality(GaslessPays) \in Nat
BY GaslessAssumption, FS_CardinalityType DEF Nonces

\* RelayInv says what it must.
LEMMA RelayKept == RelayInv => RelayKeepsItsWord
<1> SUFFICES ASSUME RelayInv PROVE RelayKeepsItsWord
  OBVIOUS
<1>1. PaidMeansTransferred
  BY DEF RelayInv
<1>2. RejectedMeansUnpaid
  <2>1. ASSUME NEW p \in GaslessPays, signed[p].at = "threw", p \in forwarder.paid
        PROVE \E j \in Jobs : jobs[j].pay = p /\ (jobs[j].at = "late" \/ ~jobs[j].heard)
    <3>1. PICK j \in Jobs : /\ jobs[j].pay = p
                            /\ jobs[j].at \in {"late", "ok"} \/ ~jobs[j].heard \/ signed[p].at = "paid"
      BY <2>1 DEF RelayInv, Traced
    <3>2. Awaited(j) => signed[p].at = "posted"
      BY <3>1 DEF RelayInv, JobInv
    <3> QED BY <2>1, <3>1, <3>2 DEF Awaited, Active
  <2> QED BY <2>1 DEF RejectedMeansUnpaid
<1>3. NoGasForStale
  BY DEF RelayInv, JobInv, NoGasForStale
<1> QED BY <1>1, <1>2, <1>3 DEF RelayKeepsItsWord

\* At the start nothing is signed or paid.
LEMMA RelayInitially == GaslessInit => RelayInv
<1> SUFFICES ASSUME GaslessInit PROVE RelayInv
  OBVIOUS
<1>1. /\ chainTime = 0 /\ \A j \in Jobs : jobs[j] = NoJob
      /\ forwarder.nonce = 0 /\ forwarder.paid = {}
      /\ \A p \in GaslessPays : signed[p].at = "idle"
  BY DEF GaslessInit
<1>2. GaslessTypeOK
  BY RelaySizes, RelayTypes DEF GaslessInit, Forwarder, SignedPay, Job, NoJob
<1>3. \A j \in Jobs : JobInv(j) /\ ~Awaited(j)
  BY <1>1 DEF JobInv, Awaited, Active, NoJob
<1>4. NonceCounts
  BY <1>1, FS_EmptySet DEF NonceCounts
<1> QED BY <1>1, <1>2, <1>3, <1>4 DEF RelayInv, OneAwaited, PaidMeansTransferred

\* The buyer's own steps: a payment that is not out yet.
LEMMA BuyerSteps ==
  ASSUME RelayInv, GaslessTypeOK', NEW p \in GaslessPays, UNCHANGED <<forwarder, jobs>>,
         \A q \in GaslessPays : q # p => signed'[q] = signed[q],
         signed[p].at \in {"idle", "nonce"}, signed'[p].at \in {"nonce", "signed", "threw"}
  PROVE  RelayInv'
<1>1. \A j \in Jobs : jobs[j].at # "free" => jobs[j].pay # p
  BY DEF RelayInv, JobInv
<1>2. p \notin forwarder.paid
  BY DEF RelayInv, NonceCounts
<1>3. \A j \in Jobs : JobInv(j)'
  <2>1. ASSUME NEW j \in Jobs PROVE JobInv(j)'
    <3>1. JobInv(j) /\ (jobs[j].at # "free" => signed'[jobs[j].pay] = signed[jobs[j].pay])
      BY <1>1 DEF RelayInv, JobInv
    <3>2. Awaited(j)' <=> Awaited(j)
      BY DEF Awaited
    <3> QED BY <3>1, <3>2 DEF JobInv, Awaited, Active
  <2> QED BY <2>1
<1>4. OneAwaited'
  BY DEF RelayInv, OneAwaited, Awaited
<1>5. forwarder.paid \subseteq GaslessPays
  BY RelayTypes DEF RelayInv, Forwarder
<1>6. NonceCounts' /\ (\A q \in forwarder.paid : Traced(q)')
  BY <1>2, <1>5 DEF RelayInv, NonceCounts, Traced
<1>7. PaidMeansTransferred'
  BY DEF RelayInv, PaidMeansTransferred
<1> QED BY <1>3, <1>4, <1>6, <1>7 DEF RelayInv

\* The executor's job j goes on, and nobody is told anything yet.
LEMMA JobGoesOn ==
  ASSUME RelayInv, GaslessTypeOK', NEW j \in Jobs, NEW w, jobs' = [jobs EXCEPT ![j] = w],
         UNCHANGED <<forwarder, signed>>, jobs[j].at \in Active \ {"ok"},
         w.pay = jobs[j].pay, w.stale = jobs[j].stale, w.heard = jobs[j].heard,
         w.at \in Active \ {"ok"},
         w.stale => /\ w.at \in {"arrived", "read", "refused"}
                    /\ w.at = "read" => signed[w.pay].nonce < w.read
  PROVE  RelayInv'
<1>1. jobs'[j] = w /\ \A k \in Jobs : k # j => jobs'[k] = jobs[k]
  BY RelayTypes DEF RelayInv
<1>2. \A k \in Jobs : Awaited(k)' <=> Awaited(k)
  BY <1>1 DEF Awaited
<1>3. \A k \in Jobs : jobs'[k].pay = jobs[k].pay /\ jobs'[k].heard = jobs[k].heard
  BY <1>1
<1>4. ASSUME NEW k \in Jobs PROVE JobInv(k)'
  <2>1. JobInv(k)
    BY DEF RelayInv
  <2>2. CASE k = j
    BY <1>1, <1>2, <2>1, <2>2 DEF JobInv, Active
  <2>3. CASE k # j
    BY <1>1, <1>2, <2>1, <2>3 DEF JobInv
  <2> QED BY <2>2, <2>3
<1>5. OneAwaited'
  BY <1>2, <1>3 DEF RelayInv, OneAwaited
<1>6. \A p \in forwarder.paid : Traced(p)'
  <2>1. ASSUME NEW p \in forwarder.paid PROVE Traced(p)'
    <3>1. PICK k \in Jobs : jobs[k].pay = p /\ (jobs[k].at \in {"late", "ok"} \/ ~jobs[k].heard \/ signed[p].at = "paid")
      BY DEF RelayInv, Traced
    <3>2. jobs'[k].pay = p /\ (jobs'[k].at \in {"late", "ok"} \/ ~jobs'[k].heard \/ signed[p].at = "paid")
      BY <1>1, <1>3, <3>1 DEF Active
    <3> QED BY <3>2 DEF Traced
  <2> QED BY <2>1
<1>7. NonceCounts' /\ PaidMeansTransferred'
  BY DEF RelayInv, NonceCounts, PaidMeansTransferred
<1> QED BY <1>4, <1>5, <1>6, <1>7 DEF RelayInv

\* The job ends or loses its listener, who is told of the outcome.
LEMMA JobEnds ==
  ASSUME RelayInv, GaslessTypeOK', NEW j \in Jobs, NEW w, jobs' = [jobs EXCEPT ![j] = w],
         NEW outcome \in {"paid", "threw"}, Tell(j, outcome),
         forwarder' = forwarder, jobs[j].at \in Active,
         w.pay = jobs[j].pay, w.stale = jobs[j].stale, w.heard => jobs[j].heard,
         w.at # "free", w.at = "ok" => jobs[j].at = "ok", ~(w.heard /\ w.at \in Active),
         w.stale => /\ w.at \in {"arrived", "read", "refused"}
                    /\ w.at = "read" => signed[w.pay].nonce < w.read,
         outcome = "paid" => jobs[j].at = "ok",
         outcome = "threw" /\ jobs[j].at = "ok" => ~w.heard
  PROVE  RelayInv'
<1>0. PICK p \in GaslessPays : p = jobs[j].pay
  BY DEF RelayInv, JobInv, Active
<1>1. /\ jobs'[j] = w /\ \A k \in Jobs : k # j => jobs'[k] = jobs[k]
      /\ signed \in [GaslessPays -> SignedPay] /\ forwarder.paid \subseteq GaslessPays
  BY RelayTypes DEF RelayInv, Forwarder
<1>2. \A q \in GaslessPays :
        /\ q # p \/ ~jobs[j].heard => signed'[q] = signed[q]
        /\ signed'[q].nonce = signed[q].nonce
        /\ q = p /\ jobs[j].heard => signed'[q].at = outcome
  BY <1>0, <1>1 DEF Tell, SignedPay
<1>3. \A k \in Jobs : (Awaited(k)' <=> Awaited(k) /\ k # j) /\ jobs'[k].pay = jobs[k].pay
  BY <1>1 DEF Awaited
<1>4. jobs[j].heard => /\ signed[p].at = "posted"
                       /\ \A k \in Jobs : Awaited(k) /\ jobs[k].pay = p => k = j
  BY <1>0 DEF RelayInv, JobInv, OneAwaited, Awaited
<1>5. ASSUME NEW k \in Jobs PROVE JobInv(k)'
  <2>1. JobInv(k)
    BY DEF RelayInv
  <2>2. CASE k = j
    BY <1>0, <1>1, <1>2, <1>3, <2>1, <2>2 DEF JobInv, Active
  <2>3. CASE k # j
    <3>1. jobs'[k] = jobs[k] /\ (Awaited(k)' <=> Awaited(k))
      BY <1>1, <1>3, <2>3
    <3>2. jobs[k].pay \in GaslessPays =>
             /\ signed'[jobs[k].pay].nonce = signed[jobs[k].pay].nonce
             /\ signed'[jobs[k].pay].at = signed[jobs[k].pay].at \/ signed'[jobs[k].pay].at = outcome
             /\ Awaited(k) => signed'[jobs[k].pay].at = signed[jobs[k].pay].at
      BY <1>2, <1>4, <2>3
    <3> QED BY <2>1, <3>1, <3>2 DEF JobInv, Awaited, Active
  <2> QED BY <2>2, <2>3
<1>6. OneAwaited'
  BY <1>3 DEF RelayInv, OneAwaited
<1>7. ASSUME NEW q \in forwarder.paid PROVE Traced(q)'
  <2>1. PICK k \in Jobs : jobs[k].pay = q /\ (jobs[k].at \in {"late", "ok"} \/ ~jobs[k].heard \/ signed[q].at = "paid")
    BY DEF RelayInv, Traced
  <2>2. CASE q = p /\ jobs[j].heard /\ outcome = "paid"
    BY <1>0, <1>1, <1>2, <1>3, <2>2 DEF Traced
  <2>3. CASE q = p /\ jobs[j].heard /\ outcome = "threw"
    <3>1. jobs[k].at \in {"late", "ok"} \/ ~jobs[k].heard
      BY <1>4, <2>1, <2>3
    <3>2. CASE k = j
      BY <1>0, <1>1, <2>3, <3>1, <3>2 DEF Traced, Active
    <3>3. CASE k # j
      <4>1. jobs'[k] = jobs[k]
        BY <1>1, <3>3
      <4> QED BY <2>1, <3>1, <4>1 DEF Traced
    <3> QED BY <3>2, <3>3
  <2>4. CASE q # p \/ ~jobs[j].heard
    <3>1. signed'[q] = signed[q]
      BY <1>1, <1>2, <2>4
    <3>2. CASE k = j
      BY <1>0, <1>1, <2>1, <2>4, <3>1, <3>2 DEF Traced
    <3>3. CASE k # j
      <4>1. jobs'[k] = jobs[k]
        BY <1>1, <3>3
      <4> QED BY <2>1, <3>1, <4>1 DEF Traced
    <3> QED BY <3>2, <3>3
  <2> QED BY <2>2, <2>3, <2>4
<1>8. NonceCounts'
  <2>1. \A q \in forwarder.paid : signed'[q].nonce < forwarder.nonce /\ signed'[q].at \notin {"idle", "nonce"}
    <3>1. ASSUME NEW q \in forwarder.paid
          PROVE signed'[q].nonce < forwarder.nonce /\ signed'[q].at \notin {"idle", "nonce"}
      BY <1>1, <1>2 DEF RelayInv, NonceCounts
    <3> QED BY <3>1
  <2> QED BY <2>1 DEF RelayInv, NonceCounts
<1>9. PaidMeansTransferred'
  <2>1. outcome = "paid" => p \in forwarder.paid
    BY <1>0 DEF RelayInv, JobInv
  <2> QED BY <1>2, <2>1 DEF RelayInv, PaidMeansTransferred
<1> QED BY <1>5, <1>6, <1>7, <1>8, <1>9 DEF RelayInv

\* A transaction of j makes its payment.
LEMMA JobPays ==
  ASSUME RelayInv, NEW j \in Jobs, jobs[j].at \in {"sent", "late"},
         ContractTakes(jobs[j].pay), Pull(jobs[j].pay), UNCHANGED <<chainTime, signed>>,
         \/ jobs[j].at = "late" /\ jobs' = jobs
         \/ jobs[j].at = "sent" /\ GoJob(j, "ok")
  PROVE  RelayInv'
<1>0. PICK p \in GaslessPays : p = jobs[j].pay
  BY DEF RelayInv, JobInv
<1>1. /\ signed \in [GaslessPays -> SignedPay] /\ forwarder \in Forwarder /\ jobs \in [Jobs -> Job]
      /\ forwarder.paid \subseteq GaslessPays /\ forwarder.nonce \in Nat /\ forwarder.funds \in 0..StartFunds
      /\ chainTime \in 0..MaxChainTime
  BY RelayTypes, RelaySizes DEF RelayInv, Forwarder
<1>2. /\ forwarder' = [forwarder EXCEPT !.nonce = @ + 1, !.funds = @ - 1, !.paid = @ \cup {p}]
      /\ signed[p].nonce = forwarder.nonce /\ forwarder.funds > 0
  BY <1>0 DEF Pull, ContractTakes
<1>3. p \notin forwarder.paid
  BY <1>1, <1>2 DEF RelayInv, NonceCounts
<1>4. /\ forwarder'.nonce = forwarder.nonce + 1 /\ forwarder'.paid = forwarder.paid \cup {p}
      /\ forwarder'.funds = forwarder.funds - 1 /\ forwarder'.approved = forwarder.approved
  BY <1>1, <1>2 DEF Forwarder
<1>5. /\ Cardinality(forwarder'.paid) = forwarder.nonce + 1
      /\ forwarder.nonce + 1 \in Nonces
  <2>1. IsFiniteSet(forwarder.paid) /\ forwarder'.paid \subseteq GaslessPays
    BY <1>1, <1>4, RelaySizes, FS_Subset
  <2>2. Cardinality(forwarder'.paid) = Cardinality(forwarder.paid) + 1
    BY <1>3, <1>4, <2>1, FS_AddElement, ZenonT(30)
  <2>3. Cardinality(forwarder'.paid) <= Cardinality(GaslessPays)
    BY <2>1, RelaySizes, FS_Subset
  <2>4. Cardinality(forwarder.paid) = forwarder.nonce
    BY DEF RelayInv, NonceCounts
  <2> QED BY <1>1, <2>2, <2>3, <2>4, RelaySizes DEF Nonces
<1>6. forwarder' \in Forwarder
  <2>1. forwarder.funds - 1 \in 0..StartFunds
    BY <1>1, <1>2, RelaySizes
  <2> QED BY <1>0, <1>1, <1>2, <1>5, <2>1 DEF Forwarder
<1>7. /\ jobs' \in [Jobs -> Job]
      /\ \A k \in Jobs : k # j => jobs'[k] = jobs[k]
      /\ \A k \in Jobs : jobs'[k].pay = jobs[k].pay /\ jobs'[k].heard = jobs[k].heard
                         /\ jobs'[k].stale = jobs[k].stale /\ jobs'[k].read = jobs[k].read
      /\ jobs'[j].at \in {"late", "ok"}
      /\ \A k \in Jobs : jobs'[k].at # "free" <=> jobs[k].at # "free"
      /\ \A k \in Jobs : Awaited(k)' <=> Awaited(k)
  <2>1. [jobs[j] EXCEPT !.at = "ok"] \in Job
    BY <1>1 DEF Job
  <2>2. jobs' \in [Jobs -> Job]
    BY <1>1, <2>1 DEF GoJob
  <2> QED BY <1>1, <2>2 DEF GoJob, Awaited, Active, Job
<1>8. GaslessTypeOK'
  BY <1>1, <1>6, <1>7, RelayTypes
<1>9. ASSUME NEW k \in Jobs PROVE JobInv(k)'
  <2>1. JobInv(k) /\ JobInv(j)
    BY DEF RelayInv
  <2>2. jobs[k].stale => signed[jobs[k].pay].nonce < forwarder'.nonce
    <3>1. SUFFICES ASSUME jobs[k].stale PROVE signed[jobs[k].pay].nonce < forwarder'.nonce
      OBVIOUS
    <3>2. jobs[k].pay \in GaslessPays /\ signed[jobs[k].pay].nonce < forwarder.nonce
      BY <2>1, <3>1 DEF JobInv
    <3>3. signed[jobs[k].pay].nonce \in Nat
      BY <1>1, <3>2, RelaySizes DEF SignedPay
    <3> QED BY <1>1, <1>4, <3>2, <3>3
  <2>3. CASE k = j
    <3>1. ~jobs[j].stale
      BY <2>1 DEF JobInv
    <3> QED BY <1>0, <1>4, <1>7, <2>1, <2>3, <3>1 DEF JobInv
  <2>4. CASE k # j
    BY <1>4, <1>7, <2>1, <2>2, <2>4 DEF JobInv
  <2> QED BY <2>3, <2>4
<1>10. OneAwaited'
  BY <1>7 DEF RelayInv, OneAwaited
<1>11. NonceCounts'
  <2>1. ASSUME NEW q \in forwarder'.paid
        PROVE signed[q].nonce < forwarder'.nonce /\ signed[q].at \notin {"idle", "nonce"}
    <3>1. CASE q = p
      BY <1>0, <1>1, <1>2, <1>4, <3>1 DEF RelayInv, JobInv
    <3>2. CASE q # p
      <4>1. signed[q].nonce < forwarder.nonce /\ signed[q].at \notin {"idle", "nonce"} /\ q \in GaslessPays
        BY <1>1, <1>4, <2>1, <3>2 DEF RelayInv, NonceCounts
      <4>2. signed[q].nonce \in Nat
        BY <1>1, <4>1, RelaySizes DEF SignedPay
      <4> QED BY <1>1, <1>4, <4>1, <4>2
    <3> QED BY <3>1, <3>2
  <2> QED BY <1>4, <1>5, <2>1 DEF NonceCounts
<1>12. ASSUME NEW q \in forwarder'.paid PROVE Traced(q)'
  <2>1. CASE q = p
    BY <1>0, <1>7, <2>1 DEF Traced
  <2>2. CASE q # p
    <3>1. PICK k \in Jobs :
             jobs[k].pay = q /\ (jobs[k].at \in {"late", "ok"} \/ ~jobs[k].heard \/ signed[q].at = "paid")
      BY <1>4, <1>12, <2>2 DEF RelayInv, Traced
    <3>2. k # j /\ jobs'[k] = jobs[k]
      BY <1>0, <1>7, <2>2, <3>1
    <3> QED BY <3>1, <3>2 DEF Traced
  <2> QED BY <2>1, <2>2
<1>13. PaidMeansTransferred'
  BY <1>4 DEF RelayInv, PaidMeansTransferred
<1> QED BY <1>8, <1>9, <1>10, <1>11, <1>12, <1>13 DEF RelayInv

\* Every step of the buyer, the executor and the chain keeps it.
LEMMA RelayStep == RelayInv /\ [GaslessNext]_gaslessVars => RelayInv'
<1> SUFFICES ASSUME RelayInv, [GaslessNext]_gaslessVars PROVE RelayInv'
  OBVIOUS
<1>1. CASE UNCHANGED gaslessVars
  BY <1>1 DEF gaslessVars, RelayInv, GaslessTypeOK, JobInv, OneAwaited, Awaited, NonceCounts, Traced,
     PaidMeansTransferred
<1> SUFFICES ASSUME GaslessNext PROVE RelayInv'
  BY <1>1
<1>2. /\ forwarder \in Forwarder /\ chainTime \in 0..MaxChainTime
      /\ signed \in [GaslessPays -> SignedPay] /\ jobs \in [Jobs -> Job]
  BY RelayTypes DEF RelayInv
<1>3. forwarder.nonce \in Nonces /\ forwarder.paid \subseteq GaslessPays
  BY <1>2 DEF Forwarder
<1>4. ASSUME NEW j \in Jobs, jobs[j].at # "free"
      PROVE JobInv(j) /\ jobs[j].pay \in GaslessPays /\ signed[jobs[j].pay] \in SignedPay
  BY <1>2, <1>4 DEF RelayInv, JobInv
\* Of types.
<1>5. ASSUME NEW j \in Jobs, NEW at \in {"read", "verified", "sent", "ok", "reverted", "answered", "refused", "late"},
             jobs[j].at # "free"
      PROVE  /\ [jobs[j] EXCEPT !.at = at] \in Job
             /\ [jobs[j] EXCEPT !.at = at].at = at
             /\ [jobs[j] EXCEPT !.at = at].pay = jobs[j].pay
             /\ [jobs[j] EXCEPT !.at = at].read = jobs[j].read
             /\ [jobs[j] EXCEPT !.at = at].heard = jobs[j].heard
             /\ [jobs[j] EXCEPT !.at = at].stale = jobs[j].stale
  BY <1>2 DEF Job
<1>6. ASSUME NEW j \in Jobs, NEW w \in Job, jobs' = [jobs EXCEPT ![j] = w], UNCHANGED <<forwarder, chainTime>>,
             jobs[j].at # "free",
             \/ signed' = signed
             \/ \E outcome \in {"paid", "threw"} : Tell(j, outcome)
      PROVE  GaslessTypeOK'
  <2>1. ASSUME NEW outcome \in {"paid", "threw"} PROVE [signed[jobs[j].pay] EXCEPT !.at = outcome] \in SignedPay
    BY <1>4, <1>6 DEF SignedPay
  <2>2. signed' \in [GaslessPays -> SignedPay]
    BY <1>2, <1>4, <1>6, <2>1 DEF Tell
  <2> QED BY <1>2, <1>6, <2>2, RelayTypes
\* A job that goes on, and one that ends.
<1>7. ASSUME NEW j \in Jobs, GoJob(j, "verified") \/ GoJob(j, "sent") \/ GoJob(j, "reverted"),
             UNCHANGED <<forwarder, chainTime, signed>>, jobs[j].at \in Active \ {"ok"}, ~jobs[j].stale
      PROVE RelayInv'
  <2>1. PICK at \in {"verified", "sent", "reverted"} : GoJob(j, at)
    BY <1>7
  <2> DEFINE w == [jobs[j] EXCEPT !.at = at]
  <2>2. jobs' = [jobs EXCEPT ![j] = w]
    BY <1>2, <2>1 DEF GoJob
  <2>3. /\ w \in Job /\ w.at = at /\ w.pay = jobs[j].pay /\ w.heard = jobs[j].heard /\ w.stale = jobs[j].stale
    BY <1>2 DEF Job
  <2> HIDE DEF w
  <2>4. GaslessTypeOK'
    BY <1>6, <1>7, <2>2, <2>3 DEF Active
  <2> QED BY <1>7, <2>2, <2>3, <2>4, JobGoesOn DEF Active
<1>8. ASSUME NEW j \in Jobs, NEW at \in {"answered", "refused", "late"}, NEW outcome \in {"paid", "threw"},
             GoJob(j, at), Tell(j, outcome), UNCHANGED <<forwarder, chainTime>>, jobs[j].at \in Active,
             jobs[j].stale => at = "refused",
             outcome = "paid" <=> jobs[j].at = "ok"
      PROVE RelayInv'
  <2> DEFINE w == [jobs[j] EXCEPT !.at = at]
  <2>1. jobs' = [jobs EXCEPT ![j] = w]
    BY <1>2, <1>8 DEF GoJob
  <2>2. /\ w \in Job /\ w.at = at /\ w.pay = jobs[j].pay /\ w.heard = jobs[j].heard /\ w.stale = jobs[j].stale
    BY <1>2 DEF Job
  <2> HIDE DEF w
  <2>3. GaslessTypeOK'
    BY <1>6, <1>8, <2>1, <2>2 DEF Active
  <2>4. outcome = "threw" => jobs[j].at # "ok"
    BY <1>8
  <2> QED BY <1>8, <2>1, <2>2, <2>3, <2>4, JobEnds DEF Active
<1>10. ASSUME Approve PROVE RelayInv'
  <2>1. UNCHANGED <<chainTime, signed, jobs>> /\ forwarder' = [forwarder EXCEPT !.approved = TRUE]
    BY <1>10 DEF Approve
  <2>2. forwarder' \in Forwarder /\ forwarder'.nonce = forwarder.nonce /\ forwarder'.paid = forwarder.paid
    BY <1>2, <2>1 DEF Forwarder
  <2>3. GaslessTypeOK'
    BY <1>2, <2>1, <2>2, RelayTypes
  <2> QED BY <2>1, <2>2, <2>3
          DEF RelayInv, JobInv, OneAwaited, Awaited, NonceCounts, Traced, PaidMeansTransferred
<1>11. ASSUME GaslessTick PROVE RelayInv'
  <2>1. UNCHANGED <<forwarder, signed, jobs>> /\ chainTime' \in 0..MaxChainTime
    BY <1>2, <1>11, RelaySizes DEF GaslessTick
  <2>2. GaslessTypeOK'
    BY <1>2, <2>1, RelayTypes
  <2> QED BY <2>1, <2>2
          DEF RelayInv, JobInv, OneAwaited, Awaited, NonceCounts, Traced, PaidMeansTransferred
<1>12. ASSUME NEW p \in GaslessPays, ReadNonce(p) PROVE RelayInv'
  <2> DEFINE w == [signed[p] EXCEPT !.at = "nonce", !.nonce = forwarder.nonce]
  <2>1. signed[p].at = "idle" /\ signed' = [signed EXCEPT ![p] = w] /\ UNCHANGED <<forwarder, chainTime, jobs>>
    BY <1>2, <1>12 DEF ReadNonce
  <2>2. w \in SignedPay /\ w.at = "nonce"
    BY <1>2, <1>3 DEF SignedPay
  <2> HIDE DEF w
  <2>3. GaslessTypeOK' /\ signed'[p] = w /\ \A q \in GaslessPays : q # p => signed'[q] = signed[q]
    BY <1>2, <2>1, <2>2, RelayTypes
  <2> QED BY <2>1, <2>2, <2>3, BuyerSteps
<1>13. ASSUME NEW p \in GaslessPays, SignRequest(p) PROVE RelayInv'
  <2>1. signed[p].at = "nonce" /\ UNCHANGED <<forwarder, chainTime, jobs>>
    BY <1>13 DEF SignRequest
  <2>2. ASSUME NEW w \in SignedPay, w.at \in {"signed", "threw"}, signed' = [signed EXCEPT ![p] = w] PROVE RelayInv'
    <3>1. GaslessTypeOK' /\ signed'[p] = w /\ \A q \in GaslessPays : q # p => signed'[q] = signed[q]
      BY <1>2, <2>1, <2>2, RelayTypes
    <3> QED BY <2>1, <2>2, <3>1, BuyerSteps
  <2>3. CASE signed' = [signed EXCEPT ![p].at = "signed", ![p].deadline = chainTime + Validity]
    <3> DEFINE w == [signed[p] EXCEPT !.at = "signed", !.deadline = chainTime + Validity]
    <3>1. chainTime + Validity \in 0..(MaxChainTime + Validity)
      BY <1>2, RelaySizes
    <3>2. w \in SignedPay /\ w.at = "signed"
      BY <1>2, <3>1 DEF SignedPay
    <3>3. signed' = [signed EXCEPT ![p] = w]
      BY <1>2, <2>3
    <3> QED BY <2>2, <3>2, <3>3
  <2>4. CASE signed' = [signed EXCEPT ![p].at = "threw"]
    <3> DEFINE w == [signed[p] EXCEPT !.at = "threw"]
    <3>1. w \in SignedPay /\ w.at = "threw" /\ signed' = [signed EXCEPT ![p] = w]
      BY <1>2, <2>4 DEF SignedPay
    <3> QED BY <2>2, <3>1
  <2> QED BY <1>13, <2>3, <2>4 DEF SignRequest
<1>14. ASSUME NEW p \in GaslessPays, NEW j \in Jobs, PostRequest(p, j) PROVE RelayInv'
  <2>0. PICK b \in BOOLEAN : b = (forwarder.nonce > signed[p].nonce)
    <3> WITNESS (forwarder.nonce > signed[p].nonce) \in BOOLEAN
    <3> QED OBVIOUS
  <2> DEFINE v == [signed[p] EXCEPT !.at = "posted"]
             w == [at |-> "arrived", pay |-> p, read |-> 0, heard |-> TRUE, stale |-> b]
  <2>1. /\ jobs[j].at = "free" /\ signed[p].at \in {"signed", "threw"} /\ UNCHANGED <<forwarder, chainTime>>
        /\ signed' = [signed EXCEPT ![p] = v] /\ jobs' = [jobs EXCEPT ![j] = w]
    BY <1>2, <1>14, <2>0 DEF PostRequest
  <2>2. v \in SignedPay /\ v.at = "posted" /\ v.nonce = signed[p].nonce /\ v.nonce \in Nat
    BY <1>2, RelaySizes DEF SignedPay
  <2>3. /\ w \in Job /\ w.at = "arrived" /\ w.pay = p /\ w.heard /\ (w.stale => v.nonce < forwarder.nonce)
    <3>1. w \in Job /\ w.at = "arrived" /\ w.pay = p /\ w.heard /\ w.stale = b
      BY RelaySizes DEF Job
    <3>2. b => v.nonce < forwarder.nonce
      BY <1>3, <2>0, <2>2, RelaySizes
    <3> QED BY <3>1, <3>2
  <2> HIDE DEF v, w
  <2>4. /\ jobs'[j] = w /\ signed'[p] = v
        /\ \A k \in Jobs : k # j => jobs'[k] = jobs[k]
        /\ \A q \in GaslessPays : q # p => signed'[q] = signed[q]
        /\ GaslessTypeOK'
    BY <1>2, <2>1, <2>2, <2>3, RelayTypes
  <2>5. \A k \in Jobs : Awaited(k) => jobs[k].pay # p
    BY <2>1 DEF RelayInv, JobInv
  <2>6. \A k \in Jobs : Awaited(k)' => (k = j /\ jobs'[k].pay = p) \/ (k # j /\ Awaited(k) /\ jobs'[k].pay = jobs[k].pay)
    BY <2>3, <2>4 DEF Awaited
  <2>7. ASSUME NEW k \in Jobs PROVE JobInv(k)'
    <3>1. CASE k = j
      BY <2>1, <2>2, <2>3, <2>4, <3>1 DEF JobInv
    <3>2. CASE k # j
      BY <2>1, <2>2, <2>4, <2>5, <2>6, <3>2 DEF RelayInv, JobInv
    <3> QED BY <3>1, <3>2
  <2>8. OneAwaited'
    BY <2>5, <2>6 DEF RelayInv, OneAwaited
  <2>9. ASSUME NEW q \in forwarder.paid PROVE Traced(q)'
    <3>1. PICK k \in Jobs :
             jobs[k].pay = q /\ (jobs[k].at \in {"late", "ok"} \/ ~jobs[k].heard \/ signed[q].at = "paid")
      BY DEF RelayInv, Traced
    <3>2. k # j
      BY <1>3, <2>1, <3>1, RelaySizes DEF RelayInv, JobInv
    <3>3. signed[q].at = "paid" => q # p
      BY <2>1
    <3> QED BY <1>3, <2>4, <3>1, <3>2, <3>3 DEF Traced
  <2>10. NonceCounts'
    BY <1>3, <2>1, <2>2, <2>4 DEF RelayInv, NonceCounts
  <2>11. PaidMeansTransferred'
    BY <2>1, <2>2, <2>4 DEF RelayInv, PaidMeansTransferred
  <2> QED BY <2>1, <2>4, <2>7, <2>8, <2>9, <2>10, <2>11 DEF RelayInv
<1>15. ASSUME NEW j \in Jobs, ReadExpected(j) PROVE RelayInv'
  <2> DEFINE w == [jobs[j] EXCEPT !.at = "read", !.read = forwarder.nonce]
  <2>1. jobs[j].at = "arrived" /\ jobs' = [jobs EXCEPT ![j] = w] /\ UNCHANGED <<forwarder, chainTime, signed>>
    BY <1>2, <1>15 DEF ReadExpected
  <2>2. /\ w \in Job /\ w.at = "read" /\ w.pay = jobs[j].pay /\ w.heard = jobs[j].heard
        /\ w.stale = jobs[j].stale /\ w.read = forwarder.nonce
    BY <1>2, <1>3 DEF Job
  <2> HIDE DEF w
  <2>3. GaslessTypeOK'
    BY <1>6, <2>1, <2>2
  <2>4. w.stale => signed[w.pay].nonce < w.read
    BY <1>4, <2>1, <2>2 DEF JobInv
  <2> QED BY <2>1, <2>2, <2>3, <2>4, JobGoesOn DEF Active
<1>16. ASSUME NEW j \in Jobs, VerifySignature(j) PROVE RelayInv'
  <2>1. jobs[j].at = "read" /\ UNCHANGED <<forwarder, chainTime>>
    BY <1>16 DEF VerifySignature
  <2>2. CASE signed[jobs[j].pay].nonce = jobs[j].read
    <3>1. ~jobs[j].stale
      <4>1. signed[jobs[j].pay].nonce \in Nat
        BY <1>4, <2>1, RelaySizes DEF SignedPay
      <4> QED BY <1>4, <2>1, <2>2, <4>1 DEF JobInv
    <3> QED BY <1>7, <1>16, <2>1, <2>2, <3>1 DEF VerifySignature, Active
  <2>3. CASE signed[jobs[j].pay].nonce # jobs[j].read
    BY <1>8, <1>16, <2>1, <2>3 DEF VerifySignature, Active
  <2> QED BY <2>2, <2>3
<1>17. ASSUME NEW j \in Jobs, CheckDeadline(j) PROVE RelayInv'
  <2>1. jobs[j].at = "verified" /\ UNCHANGED <<forwarder, chainTime>> /\ ~jobs[j].stale
    BY <1>4, <1>17 DEF CheckDeadline, JobInv
  <2>2. CASE GoJob(j, "sent") /\ UNCHANGED signed
    BY <1>7, <2>1, <2>2 DEF Active
  <2>3. CASE GoJob(j, "refused") /\ Tell(j, "threw")
    BY <1>8, <2>1, <2>3 DEF Active
  <2> QED BY <1>17, <2>2, <2>3 DEF CheckDeadline
<1>18. ASSUME NEW j \in Jobs, ExecutorFails(j) PROVE RelayInv'
  BY <1>8, <1>18 DEF ExecutorFails, Active
<1>19. ASSUME NEW j \in Jobs, AnswerReceipt(j) PROVE RelayInv'
  <2>1. jobs[j].at \in {"ok", "reverted"} /\ ~jobs[j].stale /\ UNCHANGED <<forwarder, chainTime>>
    BY <1>4, <1>19 DEF AnswerReceipt, JobInv
  <2>2. CASE jobs[j].at = "ok" /\ GoJob(j, "answered") /\ Tell(j, "paid")
    BY <1>8, <2>1, <2>2 DEF Active
  <2>3. CASE jobs[j].at = "reverted" /\ GoJob(j, "refused") /\ Tell(j, "threw")
    BY <1>8, <2>1, <2>3 DEF Active
  <2> QED BY <1>19, <2>2, <2>3 DEF AnswerReceipt
<1>20. ASSUME NEW j \in Jobs, RelayReceiptLate(j) PROVE RelayInv'
  <2>1. jobs[j].at = "sent" /\ ~jobs[j].stale
    BY <1>4, <1>20 DEF RelayReceiptLate, JobInv
  <2> QED BY <1>8, <1>20, <2>1 DEF RelayReceiptLate, Active
<1>21. ASSUME NEW j \in Jobs, Disconnect(j) PROVE RelayInv'
  <2> DEFINE w == [jobs[j] EXCEPT !.heard = FALSE]
  <2>1. /\ jobs[j].heard /\ jobs[j].at \notin {"answered", "refused", "late"} /\ Tell(j, "threw")
        /\ jobs' = [jobs EXCEPT ![j] = w] /\ UNCHANGED <<forwarder, chainTime>>
    BY <1>2, <1>21 DEF Disconnect
  <2>2. jobs[j].at # "free" /\ jobs[j].at \in Active /\ JobInv(j)
    BY <1>2, <2>1 DEF RelayInv, JobInv, Active, Job
  <2>3. /\ w \in Job /\ w.at = jobs[j].at /\ w.pay = jobs[j].pay /\ ~w.heard
        /\ w.stale = jobs[j].stale /\ w.read = jobs[j].read
    BY <1>2 DEF Job
  <2> HIDE DEF w
  <2>4. GaslessTypeOK'
    BY <1>6, <2>1, <2>2, <2>3
  <2>5. w.stale => /\ w.at \in {"arrived", "read", "refused"}
                   /\ w.at = "read" => signed[w.pay].nonce < w.read
    BY <2>2, <2>3 DEF JobInv
  <2> QED BY <2>1, <2>2, <2>3, <2>4, <2>5, JobEnds
<1>22. ASSUME NEW j \in Jobs, MineExecution(j) PROVE RelayInv'
  <2>1. jobs[j].at = "sent" /\ ~jobs[j].stale /\ UNCHANGED <<chainTime, signed>>
    BY <1>4, <1>22 DEF MineExecution, JobInv
  <2>2. CASE ContractTakes(jobs[j].pay)
    BY <1>22, <2>1, <2>2, JobPays DEF MineExecution
  <2>3. CASE ~ContractTakes(jobs[j].pay)
    BY <1>7, <1>22, <2>1, <2>3 DEF MineExecution, Active
  <2> QED BY <2>2, <2>3
<1>23. ASSUME NEW j \in Jobs, MineLate(j) PROVE RelayInv'
  BY <1>23, JobPays DEF MineLate
<1> QED BY <1>10, <1>11, <1>12, <1>13, <1>14, <1>15, <1>16, <1>17, <1>18, <1>19, <1>20, <1>21, <1>22, <1>23
        DEF GaslessNext

\* The gasless relay stays well typed, for any number of payments and jobs
\* (flare/gasless.ts).
THEOREM RelayTyped == GaslessSpec => []GaslessTypeOK
<1>1. RelayInv => GaslessTypeOK
  BY DEF RelayInv
<1> QED BY <1>1, RelayInitially, RelayStep, PTL DEF GaslessSpec

\* However the pays of one buyer overlap, with lost answers and late receipts: a
\* pay that reports success was made, one that was rejected while its listener
\* stayed was not, and a nonce used up on arrival never costs the executor gas
\* (flare/gasless.ts:235-315, 376-450).
THEOREM RelayAlwaysKeepsItsWord == GaslessSpec => []RelayKeepsItsWord
BY RelayInitially, RelayStep, RelayKept, PTL DEF GaslessSpec

-------------------------------------------------------------------------------
(* Flare: the x402 rail.                                                   *)

\* A delivery with a successful receipt stands for its payment's one
\* settlement, which has not been served yet.
ServeInv ==
    /\ FlareX402TypeOK
    /\ \A d \in Deliveries :
          /\ visits[d].at # "free" => visits[d].of \in FlarePays
          /\ visits[d].at = "ok" => visits[d].of \in settled /\ servings[visits[d].of] = 0
    /\ \A d, e \in Deliveries :
          visits[d].at = "ok" /\ visits[e].at = "ok" /\ visits[d].of = visits[e].of => d = e
    /\ FlareServesOnce

\* The sets the state is made of, by name.
Visit == [at : {"free", "verify", "settle", "sent", "ok", "reverted", "next", "402", "late"},
          of : FlarePays \cup {NoFlarePay}]
Offer == [at : {"idle", "challenged", "covered", "signed", "threw"},
          value : Prices \cup {0}, before : 0..(MaxFlareTime + AuthValidity)]

\* The types, one variable at a time.
LEMMA X402Types ==
  /\ FlareX402TypeOK <=>
        /\ price \in Prices /\ flareNow \in 0..MaxFlareTime /\ token \in 0..StartToken
        /\ settled \subseteq FlarePays /\ offers \in [FlarePays -> Offer]
        /\ visits \in [Deliveries -> Visit] /\ servings \in [FlarePays -> 0..Cardinality(Deliveries)]
  /\ FlareX402TypeOK' <=>
        /\ price' \in Prices /\ flareNow' \in 0..MaxFlareTime /\ token' \in 0..StartToken
        /\ settled' \subseteq FlarePays /\ offers' \in [FlarePays -> Offer]
        /\ visits' \in [Deliveries -> Visit] /\ servings' \in [FlarePays -> 0..Cardinality(Deliveries)]
BY DEF FlareX402TypeOK, Visit, Offer

\* What the constants are.
LEMMA X402Sizes ==
  /\ (\A v \in Prices \cup {0} : v \in Nat) /\ StartToken \in Nat /\ AuthValidity \in Nat /\ MaxFlareTime \in Nat
  /\ NoFlarePay \notin FlarePays /\ Cardinality(Deliveries) \in Nat
  /\ \A d \in Deliveries : Cardinality(Deliveries) >= 1
<1>1. IsFiniteSet(Deliveries) /\ Cardinality(Deliveries) \in Nat
  BY FlareX402Assumption, FS_CardinalityType
<1>2. ASSUME NEW d \in Deliveries PROVE Cardinality(Deliveries) # 0
  BY <1>1, <1>2, FS_EmptySet
<1> QED BY <1>1, <1>2, FlareX402Assumption

\* At the start nobody has paid or been served.
LEMMA ServeInitially == FlareX402Init => ServeInv
<1> SUFFICES ASSUME FlareX402Init PROVE ServeInv
  OBVIOUS
<1>1. FlareX402TypeOK
  BY X402Types, X402Sizes DEF FlareX402Init, NoOffer, NoVisit, Offer, Visit
<1> QED BY <1>1 DEF FlareX402Init, ServeInv, NoVisit, FlareServesOnce

\* Nothing is settled and nobody is served: a delivery goes on.
LEMMA VisitGoesOn ==
  ASSUME ServeInv, FlareX402TypeOK', NEW d \in Deliveries, NEW w, visits' = [visits EXCEPT ![d] = w],
         UNCHANGED <<settled, servings>>, visits[d].at \notin {"ok", "late"}, w.at \notin {"ok"},
         w.of \in FlarePays
  PROVE  ServeInv'
<1>1. visits'[d] = w /\ \A e \in Deliveries : e # d => visits'[e] = visits[e]
  BY X402Types DEF ServeInv
<1>2. FlareServesOnce'
  <2>1. ASSUME NEW p \in FlarePays, p \in settled, servings[p] = 0
        PROVE \E e \in Deliveries : visits'[e].of = p /\ visits'[e].at \in {"ok", "late"}
    <3>1. PICK e \in Deliveries : visits[e].of = p /\ visits[e].at \in {"ok", "late"}
      BY <2>1 DEF ServeInv, FlareServesOnce
    <3>2. e # d
      BY <3>1
    <3> QED BY <1>1, <3>1, <3>2
  <2> QED BY <2>1 DEF ServeInv, FlareServesOnce
<1> QED BY <1>1, <1>2 DEF ServeInv

\* Every step of the buyers, the middleware and the chain keeps it.
LEMMA ServeStep == ServeInv /\ [FlareX402Next]_flareX402Vars => ServeInv'
<1> SUFFICES ASSUME ServeInv, [FlareX402Next]_flareX402Vars PROVE ServeInv'
  OBVIOUS
<1>1. ASSUME UNCHANGED <<settled, visits, servings>>, FlareX402TypeOK' PROVE ServeInv'
  BY <1>1 DEF ServeInv, FlareServesOnce
<1>2. /\ price \in Prices /\ flareNow \in 0..MaxFlareTime /\ token \in 0..StartToken
      /\ settled \subseteq FlarePays /\ offers \in [FlarePays -> Offer]
      /\ visits \in [Deliveries -> Visit] /\ servings \in [FlarePays -> 0..Cardinality(Deliveries)]
  BY X402Types DEF ServeInv
<1>3. CASE UNCHANGED flareX402Vars
  BY <1>1, <1>2, <1>3, X402Types DEF flareX402Vars
<1> SUFFICES ASSUME FlareX402Next PROVE ServeInv'
  BY <1>3
<1>4. ASSUME NEW p \in FlarePays, NEW w \in Offer, offers' = [offers EXCEPT ![p] = w],
             UNCHANGED <<price, flareNow, token, settled, visits, servings>>
      PROVE ServeInv'
  BY <1>1, <1>2, <1>4, X402Types
<1>5. ASSUME NEW d \in Deliveries, NEW w \in Visit, visits' = [visits EXCEPT ![d] = w]
      PROVE visits' \in [Deliveries -> Visit] /\ visits'[d] = w
            /\ \A e \in Deliveries : e # d => visits'[e] = visits[e]
  BY <1>2, <1>5
<1>6. ASSUME NEW d \in Deliveries, visits[d].at # "free", NEW at, GoVisit(d, at),
             at \in {"settle", "sent", "reverted", "402", "late", "next", "ok"}
      PROVE \E w \in Visit : visits' = [visits EXCEPT ![d] = w] /\ w.at = at /\ w.of = visits[d].of
                             /\ w.of \in FlarePays
  <2> DEFINE w == [visits[d] EXCEPT !.at = at]
  <2>1. visits' = [visits EXCEPT ![d] = w]
    BY <1>2, <1>6 DEF GoVisit
  <2>2. visits[d].of \in FlarePays
    BY <1>6 DEF ServeInv
  <2>3. w \in Visit /\ w.at = at /\ w.of = visits[d].of
    BY <1>2, <1>6 DEF Visit
  <2> HIDE DEF w
  <2> QED BY <2>1, <2>2, <2>3
<1>7. ASSUME NEW d \in Deliveries, NEW at, GoVisit(d, at), at \in {"settle", "sent", "reverted", "402", "late"},
             visits[d].at \in {"verify", "settle", "sent", "reverted"},
             UNCHANGED <<price, flareNow, token, settled, offers, servings>>
      PROVE ServeInv'
  <2>1. PICK w \in Visit : visits' = [visits EXCEPT ![d] = w] /\ w.at = at /\ w.of \in FlarePays
    BY <1>6, <1>7
  <2>2. FlareX402TypeOK'
    BY <1>2, <1>5, <1>7, <2>1, X402Types
  <2> QED BY <1>7, <2>1, <2>2, VisitGoesOn
<1>10. ASSUME NEW p \in FlarePays, Challenge(p) PROVE ServeInv'
  <2>1. [at |-> "challenged", value |-> price, before |-> 0] \in Offer
    BY <1>2, X402Sizes DEF Offer
  <2> QED BY <1>4, <1>10, <2>1 DEF Challenge
<1>11. ASSUME NEW p \in FlarePays, Cover(p) PROVE ServeInv'
  <2> DEFINE at == IF token >= offers[p].value THEN "covered" ELSE "threw"
             w == [offers[p] EXCEPT !.at = at]
  <2>1. w \in Offer
    BY <1>2 DEF Offer
  <2>2. offers' = [offers EXCEPT ![p] = w]
    BY <1>2, <1>11 DEF Cover
  <2> QED BY <1>4, <1>11, <2>1, <2>2 DEF Cover
<1>12. ASSUME NEW p \in FlarePays, Authorize(p) PROVE ServeInv'
  <2> DEFINE w == [offers[p] EXCEPT !.at = "signed", !.before = flareNow + AuthValidity]
  <2>0. flareNow + AuthValidity \in 0..(MaxFlareTime + AuthValidity)
    BY <1>2, X402Sizes
  <2>1. w \in Offer
    BY <1>2, <2>0 DEF Offer
  <2>2. offers' = [offers EXCEPT ![p] = w]
    BY <1>2, <1>12 DEF Authorize
  <2> QED BY <1>4, <1>12, <2>1, <2>2 DEF Authorize
<1>13. ASSUME NEW p \in FlarePays, NEW d \in Deliveries, Deliver(p, d) PROVE ServeInv'
  <2> DEFINE w == [at |-> IF offers[p].value < price THEN "402" ELSE "verify", of |-> p]
  <2>1. w \in Visit /\ w.at # "ok" /\ w.of \in FlarePays
    BY DEF Visit
  <2>2. visits[d].at = "free" /\ visits' = [visits EXCEPT ![d] = w]
        /\ UNCHANGED <<price, flareNow, token, settled, offers, servings>>
    BY <1>13 DEF Deliver, NoVisit
  <2> HIDE DEF w
  <2>3. FlareX402TypeOK'
    BY <1>2, <1>5, <2>1, <2>2, X402Types
  <2> QED BY <2>1, <2>2, <2>3, VisitGoesOn
<1>14. ASSUME NEW d \in Deliveries, VerifyPayment(d) PROVE ServeInv'
  BY <1>7, <1>14 DEF VerifyPayment
<1>15. ASSUME NEW d \in Deliveries, SettlePayment(d) PROVE ServeInv'
  BY <1>7, <1>15 DEF SettlePayment
<1>16. ASSUME NEW d \in Deliveries, Serve(d) PROVE ServeInv'
  <2>1. CASE visits[d].at = "reverted" /\ GoVisit(d, "402") /\ UNCHANGED servings
    BY <1>7, <1>16, <2>1 DEF Serve
  <2>2. CASE visits[d].at = "ok" /\ GoVisit(d, "next") /\ servings' = [servings EXCEPT ![visits[d].of] = @ + 1]
    <3>1. PICK w \in Visit : /\ visits' = [visits EXCEPT ![d] = w] /\ w.at = "next" /\ w.of = visits[d].of
                             /\ w.of \in FlarePays
      BY <1>6, <2>2
    <3>2. PICK p \in FlarePays : p = w.of
      BY <3>1
    <3>3. /\ visits'[d] = w /\ \A e \in Deliveries : e # d => visits'[e] = visits[e]
          /\ visits' \in [Deliveries -> Visit] /\ UNCHANGED <<price, flareNow, token, settled, offers>>
      BY <1>5, <1>16, <3>1 DEF Serve
    <3>4. p \in settled /\ servings[p] = 0 /\ \A e \in Deliveries : visits[e].at = "ok" /\ visits[e].of = p => e = d
      BY <2>2, <3>1, <3>2 DEF ServeInv
    <3>5. /\ servings' = [servings EXCEPT ![p] = 1] /\ servings'[p] = 1
          /\ \A q \in FlarePays : q # p => servings'[q] = servings[q]
      BY <1>2, <2>2, <3>1, <3>2, <3>4
    <3>6. servings' \in [FlarePays -> 0..Cardinality(Deliveries)]
      <4>1. 1 \in 0..Cardinality(Deliveries)
        BY X402Sizes
      <4> QED BY <1>2, <3>5, <4>1
    <3>7. FlareX402TypeOK'
      BY <1>2, <3>3, <3>6, X402Types
    <3>8. FlareServesOnce'
      <4>1. ASSUME NEW q \in FlarePays, q # p
            PROVE /\ servings'[q] <= (IF q \in settled THEN 1 ELSE 0)
                  /\ q \in settled /\ servings'[q] = 0 =>
                       \E e \in Deliveries : visits'[e].of = q /\ visits'[e].at \in {"ok", "late"}
        <5>1. servings'[q] = servings[q] /\ servings[q] <= (IF q \in settled THEN 1 ELSE 0)
          BY <3>5, <4>1 DEF ServeInv, FlareServesOnce
        <5>2. ASSUME q \in settled, servings[q] = 0
              PROVE \E e \in Deliveries : visits'[e].of = q /\ visits'[e].at \in {"ok", "late"}
          <6>1. PICK e \in Deliveries : visits[e].of = q /\ visits[e].at \in {"ok", "late"}
            BY <5>2 DEF ServeInv, FlareServesOnce
          <6> QED BY <3>1, <3>2, <3>3, <4>1, <6>1
        <5> QED BY <5>1, <5>2
      <4>2. servings'[p] <= (IF p \in settled THEN 1 ELSE 0) /\ servings'[p] # 0
        BY <3>4, <3>5
      <4> QED BY <3>3, <4>1, <4>2 DEF FlareServesOnce
    <3>9. ASSUME NEW e \in Deliveries
          PROVE /\ visits'[e].at # "free" => visits'[e].of \in FlarePays
                /\ visits'[e].at = "ok" => visits'[e].of \in settled /\ servings'[visits'[e].of] = 0
      <4>1. CASE e = d
        BY <3>1, <3>3, <4>1
      <4>2. CASE e # d
        <5>1. visits[e].at = "ok" => visits[e].of # p
          BY <3>4, <4>2
        <5> QED BY <3>3, <3>5, <4>2, <5>1 DEF ServeInv
      <4> QED BY <4>1, <4>2
    <3>10. \A e, f \in Deliveries :
              visits'[e].at = "ok" /\ visits'[f].at = "ok" /\ visits'[e].of = visits'[f].of => e = f
      BY <3>1, <3>3 DEF ServeInv
    <3> QED BY <3>3, <3>7, <3>8, <3>9, <3>10 DEF ServeInv
  <2> QED BY <1>16, <2>1, <2>2 DEF Serve
<1>17. ASSUME NEW d \in Deliveries, SettleLate(d) PROVE ServeInv'
  BY <1>7, <1>17 DEF SettleLate
<1>18. ASSUME NEW d \in Deliveries, MineSettlement(d) PROVE ServeInv'
  <2>1. visits[d].at \in {"sent", "late"} /\ UNCHANGED <<price, flareNow, offers, servings>>
    BY <1>18 DEF MineSettlement
  <2>2. PICK p \in FlarePays : p = visits[d].of
    BY <2>1 DEF ServeInv
  <2>3. CASE ~Payable(p)
    BY <1>7, <1>18, <2>1, <2>2, <2>3 DEF MineSettlement
  <2>4. CASE Payable(p)
    <3>1. /\ p \notin settled /\ token' = token - offers[p].value /\ settled' = settled \cup {p}
          /\ token >= offers[p].value
      BY <1>18, <2>2, <2>4 DEF MineSettlement, Payable, Acceptable
    <3>2. \E w \in Visit : visits' = [visits EXCEPT ![d] = w] /\ w.of = p /\ w.at \in {"ok", "late"}
      <4>1. CASE visits[d].at = "late"
        <5>1. visits' = [visits EXCEPT ![d] = visits[d]]
          BY <1>2, <1>18, <4>1 DEF MineSettlement
        <5> QED BY <1>2, <2>2, <4>1, <5>1
      <4>2. CASE visits[d].at = "sent"
        <5>1. GoVisit(d, "ok")
          BY <1>18, <2>2, <2>4, <4>2 DEF MineSettlement
        <5> QED BY <1>6, <2>2, <4>2, <5>1
      <4> QED BY <2>1, <4>1, <4>2
    <3>3. PICK w \in Visit : visits' = [visits EXCEPT ![d] = w] /\ w.of = p /\ w.at \in {"ok", "late"}
      BY <3>2
    <3>4. /\ visits'[d] = w /\ \A e \in Deliveries : e # d => visits'[e] = visits[e]
          /\ visits' \in [Deliveries -> Visit]
      BY <1>5, <3>3
    <3>5. token' \in 0..StartToken
      <4>1. offers[p].value \in Nat
        <5>1. offers[p].value \in Prices \cup {0}
          BY <1>2 DEF Offer
        <5> QED BY <5>1, X402Sizes
      <4> QED BY <1>2, <3>1, <4>1, X402Sizes
    <3>6. FlareX402TypeOK'
      BY <1>2, <2>1, <3>1, <3>4, <3>5, X402Types
    <3>7. servings[p] = 0
      BY <1>2, <3>1 DEF ServeInv, FlareServesOnce
    <3>8. FlareServesOnce'
      <4>1. ASSUME NEW q \in FlarePays, q # p
            PROVE /\ servings[q] <= (IF q \in settled' THEN 1 ELSE 0)
                  /\ q \in settled' /\ servings[q] = 0 =>
                       \E e \in Deliveries : visits'[e].of = q /\ visits'[e].at \in {"ok", "late"}
        <5>1. servings[q] <= (IF q \in settled THEN 1 ELSE 0) /\ (q \in settled' <=> q \in settled)
          BY <3>1, <4>1 DEF ServeInv, FlareServesOnce
        <5>2. ASSUME q \in settled, servings[q] = 0
              PROVE \E e \in Deliveries : visits'[e].of = q /\ visits'[e].at \in {"ok", "late"}
          <6>1. PICK e \in Deliveries : visits[e].of = q /\ visits[e].at \in {"ok", "late"}
            BY <5>2 DEF ServeInv, FlareServesOnce
          <6> QED BY <2>2, <3>4, <4>1, <6>1
        <5> QED BY <5>1, <5>2
      <4>2. /\ servings[p] <= (IF p \in settled' THEN 1 ELSE 0)
            /\ \E e \in Deliveries : visits'[e].of = p /\ visits'[e].at \in {"ok", "late"}
        BY <3>1, <3>3, <3>4, <3>7
      <4> QED BY <2>1, <4>1, <4>2 DEF FlareServesOnce
    <3>9. ASSUME NEW e \in Deliveries
          PROVE /\ visits'[e].at # "free" => visits'[e].of \in FlarePays
                /\ visits'[e].at = "ok" => visits'[e].of \in settled' /\ servings'[visits'[e].of] = 0
      BY <2>1, <3>1, <3>3, <3>4, <3>7 DEF ServeInv
    <3>10. \A e \in Deliveries : visits[e].at = "ok" => visits[e].of # p
      BY <3>1 DEF ServeInv
    <3>11. \A e, f \in Deliveries :
              visits'[e].at = "ok" /\ visits'[f].at = "ok" /\ visits'[e].of = visits'[f].of => e = f
      BY <3>3, <3>4, <3>10 DEF ServeInv
    <3> QED BY <3>6, <3>8, <3>9, <3>11 DEF ServeInv
  <2> QED BY <2>3, <2>4
<1>19. ASSUME Reprice PROVE ServeInv'
  BY <1>1, <1>2, <1>19, X402Types DEF Reprice
<1>20. ASSUME FlareX402Tick PROVE ServeInv'
  <2>1. flareNow' \in 0..MaxFlareTime
    BY <1>2, <1>20, X402Sizes DEF FlareX402Tick
  <2> QED BY <1>1, <1>2, <1>20, <2>1, X402Types DEF FlareX402Tick
<1> QED BY <1>10, <1>11, <1>12, <1>13, <1>14, <1>15, <1>16, <1>17, <1>18, <1>19, <1>20 DEF FlareX402Next

\* The x402 middleware of Flare serves an authorization once at most and only once
\* it is settled, though parallel deliveries of it are all verified before the
\* first one settles; a settled one was served, is about to be, or its receipt was
\* late (flare/x402.ts:363-406).
THEOREM FlareAlwaysServesOnce == FlareX402Spec => []FlareServesOnce
<1>1. ServeInv => FlareServesOnce
  BY DEF ServeInv
<1> QED BY <1>1, ServeInitially, ServeStep, PTL DEF FlareX402Spec

-------------------------------------------------------------------------------
(* Flare: the redemptions of the bridge.                                   *)

\* What the last look of a poll found, as BridgeHolds wants it of a timeout.
LookStands(r) ==
    \/ requests[r].is = "pending"
    \/ requests[r].since >= polls[r].looked
    \/ polls[r].looked - requests[r].since > Window

\* What the redemptions never break.
RedeemInv ==
    /\ RedeemTypeOK
    /\ \A r \in Redeems :
          /\ redeems[r] \in {"burned", "receipt"} <=> requests[r].is # "none"
          /\ polls[r].at # "idle" => redeems[r] = "receipt"
          /\ requests[r].since <= height /\ polls[r].looked <= height
          /\ polls[r].at \in {"performed", "failed"} => requests[r].is = polls[r].at
          /\ polls[r].at \in {"asleep", "looking", "timeout"} => LookStands(r)

\* The sets the state is made of, by name.
AtManager == [is : {"none", "pending", "performed", "failed"}, since : 0..MaxHeight]
Polling == [at : {"idle", "looking", "asleep"} \cup Verdicts, from : 0..MaxHeight, looked : -1..MaxHeight]

\* The types, one variable at a time.
LEMMA RedeemTypes ==
  /\ RedeemTypeOK <=> /\ height \in 0..MaxHeight /\ fxrp \in 0..StartFxrp
                      /\ redeems \in [Redeems -> RedeemStates] /\ requests \in [Redeems -> AtManager]
                      /\ polls \in [Redeems -> Polling]
  /\ RedeemTypeOK' <=> /\ height' \in 0..MaxHeight /\ fxrp' \in 0..StartFxrp
                       /\ redeems' \in [Redeems -> RedeemStates] /\ requests' \in [Redeems -> AtManager]
                       /\ polls' \in [Redeems -> Polling]
BY DEF RedeemTypeOK, AtManager, Polling

\* What the constants are.
LEMMA BridgeSizes ==
  /\ MaxHeight \in Nat /\ StartFxrp \in Nat /\ StartXrp \in Nat /\ Window \in Nat /\ NoMint \notin Mints
  /\ IsFiniteSet(Mints) /\ Cardinality(Mints) \in Nat /\ MaxMintDrops \in Nat
  /\ \A c \in Mints \cup Redeems : AmountOf[c] \in Nat
BY BridgeAssumption, FS_CardinalityType

\* At the start nothing is redeemed.
LEMMA RedeemInitially == RedeemInit => RedeemInv
<1> SUFFICES ASSUME RedeemInit PROVE RedeemInv
  OBVIOUS
<1>1. 0 \in 0..MaxHeight /\ -1 \in -1..MaxHeight
  BY BridgeSizes
<1>2. RedeemTypeOK
  BY <1>1, RedeemTypes DEF RedeemInit, AtManager, Polling, RedeemStates, Verdicts
<1> QED BY <1>2 DEF RedeemInit, RedeemInv

\* A poll of r goes on.
LEMMA PollGoesOn ==
  ASSUME RedeemInv, NEW r \in Redeems, NEW w \in Polling, polls' = [polls EXCEPT ![r] = w],
         UNCHANGED <<height, fxrp, redeems, requests>>, redeems[r] = "receipt", w.looked <= height,
         w.at \in {"performed", "failed"} => requests[r].is = w.at,
         w.at \in {"asleep", "looking", "timeout"} =>
            requests[r].is = "pending" \/ requests[r].since >= w.looked \/ w.looked - requests[r].since > Window
  PROVE  RedeemInv'
<1>1. polls'[r] = w /\ \A s \in Redeems : s # r => polls'[s] = polls[s]
  BY RedeemTypes DEF RedeemInv
<1>2. RedeemTypeOK'
  BY RedeemTypes DEF RedeemInv
<1>3. LookStands(r)' <=>
         requests[r].is = "pending" \/ requests[r].since >= w.looked \/ w.looked - requests[r].since > Window
  BY <1>1 DEF LookStands
<1>4. \A s \in Redeems : s # r => (LookStands(s)' <=> LookStands(s))
  BY <1>1 DEF LookStands
<1> QED BY <1>1, <1>2, <1>3, <1>4 DEF RedeemInv

\* A call of redeemXRP goes on, and a request of it may come to be.
LEMMA RedeemGoesOn ==
  ASSUME RedeemInv, NEW r \in Redeems, NEW at \in RedeemStates, GoRedeem(r, at), UNCHANGED <<height, polls>>,
         redeems[r] # "receipt", fxrp' \in 0..StartFxrp,
         \/ requests' = requests /\ (at \in {"burned", "receipt"} <=> requests[r].is # "none")
         \/ at = "burned" /\ requests' = [requests EXCEPT ![r] = [is |-> "pending", since |-> height]]
  PROVE  RedeemInv'
<1>1. /\ redeems' \in [Redeems -> RedeemStates] /\ redeems'[r] = at
      /\ \A s \in Redeems : s # r => redeems'[s] = redeems[s]
  BY RedeemTypes DEF RedeemInv, GoRedeem
<1>2. [is |-> "pending", since |-> height] \in AtManager /\ height \in 0..MaxHeight
  BY RedeemTypes DEF RedeemInv, AtManager
<1>3. /\ requests' \in [Redeems -> AtManager]
      /\ \A s \in Redeems : s # r => requests'[s] = requests[s]
      /\ requests'[r] = requests[r] \/ requests'[r] = [is |-> "pending", since |-> height]
  BY <1>2, RedeemTypes DEF RedeemInv
<1>4. RedeemTypeOK'
  BY <1>1, <1>3, RedeemTypes DEF RedeemInv
<1>5. polls[r].at = "idle"
  BY DEF RedeemInv
<1>6. at \in {"burned", "receipt"} <=> requests'[r].is # "none"
  BY <1>3, RedeemTypes DEF RedeemInv
<1>7. requests'[r].since <= height
  BY <1>2, <1>3, BridgeSizes DEF RedeemInv
<1>8. \A s \in Redeems : s # r => (LookStands(s)' <=> LookStands(s))
  BY <1>3 DEF LookStands
<1> QED BY <1>1, <1>3, <1>4, <1>5, <1>6, <1>7, <1>8 DEF RedeemInv

\* Every step of the calls, the polls, the agents and the chain keeps it.
LEMMA RedeemStep == RedeemInv /\ [RedeemNext]_redeemVars => RedeemInv'
<1> SUFFICES ASSUME RedeemInv, [RedeemNext]_redeemVars PROVE RedeemInv'
  OBVIOUS
<1>1. CASE UNCHANGED redeemVars
  BY <1>1, RedeemTypes DEF redeemVars, RedeemInv, LookStands
<1> SUFFICES ASSUME RedeemNext PROVE RedeemInv'
  BY <1>1
<1>2. /\ height \in 0..MaxHeight /\ fxrp \in 0..StartFxrp
      /\ redeems \in [Redeems -> RedeemStates] /\ requests \in [Redeems -> AtManager]
      /\ polls \in [Redeems -> Polling]
  BY RedeemTypes DEF RedeemInv
<1>3. \A r \in Redeems : /\ requests[r].since \in Int /\ polls[r].looked \in Int /\ polls[r].from \in 0..MaxHeight
                         /\ requests[r].is \in {"none", "pending", "performed", "failed"}
                         /\ requests[r].since \in 0..MaxHeight /\ polls[r].looked \in -1..MaxHeight
  BY <1>2 DEF AtManager, Polling
<1>4. /\ {"idle", "quoted", "sent", "burned", "reverted", "receipt", "threw"} = RedeemStates
  BY DEF RedeemStates
<1>10. ASSUME NEW r \in Redeems, ReadRedeem(r) PROVE RedeemInv'
  <2>1. PICK at \in {"quoted", "threw"} : GoRedeem(r, at)
    BY <1>10 DEF ReadRedeem
  <2> QED BY <1>2, <1>4, <1>10, <2>1, RedeemGoesOn DEF ReadRedeem, RedeemInv
<1>11. ASSUME NEW r \in Redeems, SubmitRedeem(r) PROVE RedeemInv'
  <2>1. PICK at \in {"sent", "threw"} : GoRedeem(r, at)
    BY <1>11 DEF SubmitRedeem
  <2> QED BY <1>2, <1>4, <1>11, <2>1, RedeemGoesOn DEF SubmitRedeem, RedeemInv
<1>12. ASSUME NEW r \in Redeems, MineRedeem(r) PROVE RedeemInv'
  <2>1. redeems[r] = "sent" /\ UNCHANGED <<height, polls>>
    BY <1>12 DEF MineRedeem
  <2>2. CASE fxrp >= AmountOf[r]
    <3>1. fxrp' \in 0..StartFxrp
      <4>1. fxrp' = fxrp - AmountOf[r] /\ AmountOf[r] \in Nat
        BY <1>12, <2>2, BridgeSizes DEF MineRedeem
      <4> QED BY <1>2, <2>2, <4>1, BridgeSizes
    <3> QED BY <1>4, <1>12, <2>1, <2>2, <3>1, RedeemGoesOn DEF MineRedeem
  <2>3. CASE ~(fxrp >= AmountOf[r])
    BY <1>2, <1>4, <1>12, <2>1, <2>3, RedeemGoesOn DEF MineRedeem, RedeemInv
  <2> QED BY <2>2, <2>3
<1>13. ASSUME NEW r \in Redeems, ParseReceipt(r) PROVE RedeemInv'
  <2>1. redeems[r] \in {"burned", "reverted"} /\ UNCHANGED <<height, fxrp, requests, polls>>
    BY <1>13 DEF ParseReceipt
  <2>2. CASE redeems[r] = "burned"
    BY <1>2, <1>4, <1>13, <2>1, <2>2, RedeemGoesOn DEF ParseReceipt, RedeemInv
  <2>3. CASE redeems[r] = "reverted"
    BY <1>2, <1>4, <1>13, <2>1, <2>3, RedeemGoesOn DEF ParseReceipt, RedeemInv
  <2> QED BY <2>1, <2>2, <2>3
<1>14. ASSUME NEW r \in Redeems, StartPoll(r) PROVE RedeemInv'
  <2> DEFINE w == [at |-> "asleep", from |-> height, looked |-> -1]
  <2>1. w \in Polling
    <3>1. -1 \in -1..MaxHeight
      BY BridgeSizes
    <3> QED BY <1>2, <3>1 DEF Polling
  <2>2. -1 <= height /\ requests[r].since >= -1
    BY <1>2, <1>3, BridgeSizes
  <2> QED BY <1>14, <2>1, <2>2, PollGoesOn DEF StartPoll
<1>15. ASSUME NEW r \in Redeems, WakePoll(r) PROVE RedeemInv'
  <2>1. /\ polls[r].at = "asleep" /\ UNCHANGED <<height, fxrp, redeems, requests>>
        /\ \E at \in {"looking", "aborted", "timeout"} : polls' = [polls EXCEPT ![r].at = at]
    BY <1>15 DEF WakePoll
  <2>2. PICK at \in {"looking", "aborted", "timeout"} : polls' = [polls EXCEPT ![r].at = at]
    BY <2>1
  <2> DEFINE w == [polls[r] EXCEPT !.at = at]
  <2>3. w \in Polling /\ w.at = at /\ w.looked = polls[r].looked /\ polls' = [polls EXCEPT ![r] = w]
    BY <1>2, <2>2 DEF Polling, Verdicts
  <2> HIDE DEF w
  <2>4. redeems[r] = "receipt" /\ polls[r].looked <= height /\ LookStands(r)
    BY <2>1 DEF RedeemInv
  <2> QED BY <2>1, <2>3, <2>4, PollGoesOn DEF LookStands
<1>16. ASSUME NEW r \in Redeems, Look(r) PROVE RedeemInv'
  <2> DEFINE at == IF InWindow(r) THEN requests[r].is ELSE "asleep"
             w == [polls[r] EXCEPT !.looked = height, !.at = at]
  <2>1. /\ polls[r].at = "looking" /\ UNCHANGED <<height, fxrp, redeems, requests>>
        /\ polls' = [polls EXCEPT ![r] = w]
    BY <1>2, <1>16 DEF Look
  <2>2. redeems[r] = "receipt" /\ requests[r].is # "none" /\ requests[r].since <= height
    BY <2>1 DEF RedeemInv
  <2>3. at \in {"performed", "failed", "asleep"} /\ (at # "asleep" => requests[r].is = at)
    BY <1>3 DEF InWindow
  <2>4. at = "asleep" => requests[r].is = "pending" \/ height - requests[r].since > Window
    <3>1. SUFFICES ASSUME at = "asleep" PROVE requests[r].is = "pending" \/ height - requests[r].since > Window
      OBVIOUS
    <3>2. ~InWindow(r)
      BY <3>1 DEF InWindow
    <3>3. requests[r].is \in {"performed", "failed"} => height - requests[r].since > Window
      <4>1. requests[r].is \in {"performed", "failed"} => ~(height - requests[r].since <= Window)
        BY <3>2 DEF InWindow
      <4>2. requests[r].since \in Int /\ height \in Int /\ Window \in Int
        BY <1>2, <1>3, BridgeSizes
      <4> QED BY <4>1, <4>2
    <3> QED BY <1>3, <2>2, <3>3
  <2> HIDE DEF at
  <2>5. -1 <= height /\ height \in -1..MaxHeight
    BY <1>2, BridgeSizes
  <2>6. w \in Polling /\ w.at = at /\ w.looked = height
    BY <1>2, <2>3, <2>5 DEF Polling, Verdicts
  <2> HIDE DEF w
  <2>7. height <= height
    BY <1>2
  <2> QED BY <2>1, <2>2, <2>3, <2>4, <2>6, <2>7, PollGoesOn
<1>17. ASSUME NEW r \in Redeems, AgentActs(r) PROVE RedeemInv'
  <2>1. PICK is \in {"performed", "failed"} : requests' = [requests EXCEPT ![r] = [is |-> is, since |-> height]]
    BY <1>17 DEF AgentActs
  <2> DEFINE w == [is |-> is, since |-> height]
  <2>2. w \in AtManager /\ w.is = is /\ w.since = height
    BY <1>2 DEF AtManager
  <2> HIDE DEF w
  <2>3. /\ requests' \in [Redeems -> AtManager] /\ requests'[r] = w
        /\ \A s \in Redeems : s # r => requests'[s] = requests[s]
        /\ UNCHANGED <<height, fxrp, redeems, polls>> /\ requests[r].is = "pending"
    BY <1>2, <1>17, <2>1, <2>2 DEF AgentActs, w
  <2>4. RedeemTypeOK'
    BY <1>2, <2>3, RedeemTypes
  <2>5. polls[r].looked <= height
    BY DEF RedeemInv
  <2>6. height >= polls[r].looked /\ height <= height
    BY <1>2, <1>3, <2>5
  <2>7. LookStands(r)' /\ \A s \in Redeems : s # r => (LookStands(s)' <=> LookStands(s))
    BY <2>2, <2>3, <2>6 DEF LookStands
  <2>8. polls[r].at \notin {"performed", "failed"}
    BY <2>3 DEF RedeemInv
  <2> QED BY <2>2, <2>3, <2>4, <2>5, <2>6, <2>7, <2>8 DEF RedeemInv
<1>18. ASSUME FlareBlock PROVE RedeemInv'
  <2>1. /\ height' = height + 1 /\ height' \in 0..MaxHeight /\ UNCHANGED <<fxrp, redeems, requests, polls>>
    BY <1>2, <1>18, BridgeSizes DEF FlareBlock
  <2>2. \A r \in Redeems : requests[r].since <= height' /\ polls[r].looked <= height'
    <3>1. ASSUME NEW r \in Redeems PROVE requests[r].since <= height' /\ polls[r].looked <= height'
      <4>1. requests[r].since <= height /\ polls[r].looked <= height
        BY DEF RedeemInv
      <4>2. requests[r].since \in Int /\ polls[r].looked \in Int /\ height \in Int
        BY <1>2, <1>3
      <4> QED BY <2>1, <4>1, <4>2
    <3> QED BY <3>1
  <2>3. \A r \in Redeems : LookStands(r)' <=> LookStands(r)
    BY <2>1 DEF LookStands
  <2> QED BY <1>2, <2>1, <2>2, <2>3, RedeemTypes DEF RedeemInv
<1> QED BY <1>10, <1>11, <1>12, <1>13, <1>14, <1>15, <1>16, <1>17, <1>18 DEF RedeemNext

-------------------------------------------------------------------------------
(* Flare: the mints of the bridge.                                         *)

\* Where a mint is while it is its turn.
AtWork == {"reads", "quoted", "prepared", "sent", "validated"}

\* The calls whose work is chained and has not settled.
Chained == {m \in Mints : mints[m].at \in AtWork \cup {"queued"}}

\* Nobody is ahead of m any longer.
Free(m) == mints[m].behind = NoMint \/ Settled(mints[m].behind)

\* They stand in line: the first is at work or may begin, each of the others
\* waits for the one before it, and the lock is the last one's.
Line(q) ==
    /\ Queues(q, Chained)
    /\ q # << >> => Free(q[1])
    /\ \A i \in 1..Len(q) : i # 1 => mints[q[i]].behind = q[i - 1] /\ mints[q[i]].at = "queued"
    /\ mintLock = IF q = << >> THEN NoMint ELSE q[Len(q)]
\* There is such a line.
InLine == \E q \in Seq(Mints) : Line(q)

\* The sequence numbers not used up leave one to each call that may still pay.
Owing ==
    {m \in Mints : \/ mints[m].at \in MintStates \ {"validated", "receipt", "threw"}
                   \/ \E l \in looseMints : l.of = m}
SequencesSuffice == xrpSeq + Cardinality(Owing) <= Cardinality(Mints) + 1

\* A payment nobody waits for is that of a call that threw, and its only one.
LooseOnce ==
    /\ \A l \in looseMints : mints[l.of].at = "threw"
    /\ \A l, k \in looseMints : l.of = k.of => l = k

\* Unless an answer was lost, who has a sequence has the next one.
SequenceStands ==
    mintDrops = 0 =>
        /\ pastSeq = 0 /\ looseMints = {}
        /\ \A m \in Mints : mints[m].at \in {"prepared", "sent"} => mints[m].seq = xrpSeq

\* A payment that was prepared has a sequence.
Sequenced == \A m \in Mints : mints[m].at \in {"prepared", "sent"} => mints[m].seq \in Sequences

\* What the mints never break.
MintInv == MintTypeOK /\ InLine /\ SequencesSuffice /\ LooseOnce /\ SequenceStands /\ Sequenced

\* The sets the state is made of, by name.
Minting == [at : MintStates, behind : Mints \cup {NoMint}, seq : Sequences \cup {0}]
Loose == [of : Mints, seq : Sequences]

\* The types, one variable at a time.
LEMMA MintTypes ==
  /\ MintTypeOK <=> /\ xrpSeq \in Sequences /\ xrp \in 0..StartXrp /\ mintLock \in Mints \cup {NoMint}
                    /\ mints \in [Mints -> Minting] /\ looseMints \subseteq Loose
                    /\ mintDrops \in 0..MaxMintDrops /\ pastSeq \in Nat
  /\ MintTypeOK' <=> /\ xrpSeq' \in Sequences /\ xrp' \in 0..StartXrp /\ mintLock' \in Mints \cup {NoMint}
                     /\ mints' \in [Mints -> Minting] /\ looseMints' \subseteq Loose
                     /\ mintDrops' \in 0..MaxMintDrops /\ pastSeq' \in Nat
BY DEF MintTypeOK, Minting, Loose

\* What a mint costs is a natural number.
LEMMA MintCosts == ASSUME NEW m \in Mints PROVE MintTotal(AmountOf[m]) \in Nat
<1> DEFINE a == AmountOf[m]
           p == a * MintFees.bips
<1>1. a \in Nat /\ MintFees.bips \in Nat /\ MintFees.min \in Nat /\ MintFees.executor \in Nat
      /\ Denominator \in Nat \ {0}
  BY BridgeAssumption
<1>2. p \in Nat
  BY <1>1
<1> HIDE DEF p
<1>3. p \div Denominator \in Nat
  BY <1>1, <1>2
<1>4. FeeOn(a, MintFees) \in Nat
  BY <1>1, <1>3 DEF FeeOn, p
<1> HIDE DEF a
<1> QED BY <1>1, <1>4 DEF MintTotal, a

\* Whoever may work is the first in line.
LEMMA FirstInLine ==
  ASSUME MintTypeOK, NEW q \in Seq(Mints), Line(q), NEW m \in Chained,
         mints[m].at # "queued" \/ Free(m)
  PROVE  q # << >> /\ m = q[1] /\ Len(q) \in Nat \ {0} /\ 1 \in 1..Len(q)
<1>1. PICK i \in 1..Len(q) : q[i] = m
  BY DEF Line, Queues
<1>2. i = 1
  <2>1. SUFFICES ASSUME i # 1 PROVE FALSE
    OBVIOUS
  <2>2. mints[m].behind = q[i - 1] /\ mints[m].at = "queued"
    BY <1>1, <2>1 DEF Line
  <2>3. i - 1 \in 1..Len(q)
    BY <2>1
  <2>4. q[i - 1] \in Chained
    BY <2>3 DEF Line, Queues
  <2> QED BY <2>2, <2>4, BridgeSizes DEF Chained, Free, Settled, AtWork
<1> QED BY <1>1, <1>2

\* No two calls are at work together.
LEMMA OneAtWork ==
  ASSUME MintTypeOK, InLine, NEW m \in Mints, NEW n \in Mints,
         mints[m].at \in AtWork, mints[n].at \in AtWork
  PROVE  m = n
<1>1. PICK q \in Seq(Mints) : Line(q)
  BY DEF InLine
<1>2. m \in Chained /\ n \in Chained /\ mints[m].at # "queued" /\ mints[n].at # "queued"
  BY DEF Chained, AtWork
<1> QED BY <1>1, <1>2, FirstInLine

\* A call goes to the end of the line.
LEMMA LineJoined ==
  ASSUME MintTypeOK, InLine, NEW m \in Mints, Enqueue(m)
  PROVE  InLine'
<1>1. PICK q \in Seq(Mints) : Line(q)
  BY DEF InLine
<1> DEFINE r == Append(q, m)
<1>2. /\ mints[m].at = "idle" /\ mintLock' = m
      /\ mints'[m].at = "queued" /\ mints'[m].behind = mintLock
      /\ \A n \in Mints : n # m => mints'[n] = mints[n]
  BY MintTypes DEF Enqueue, Minting
<1>3. m \notin Chained /\ Chained' = Chained \cup {m}
  BY <1>2 DEF Chained, AtWork
<1>4. r \in Seq(Mints) /\ Queues(r, Chained') /\ (q # << >> => r # << >> /\ Head(r) = Head(q))
  BY <1>1, <1>3, QueueJoined DEF Line
<1>5. /\ Len(q) \in Nat /\ Len(r) = Len(q) + 1 /\ r[Len(r)] = m /\ r # << >>
      /\ \A i \in 1..Len(q) : r[i] = q[i]
      /\ q # << >> <=> Len(q) # 0
  OBVIOUS
<1> HIDE DEF r
<1>6. \A i \in 1..Len(q) : q[i] \in Mints /\ q[i] # m /\ mints'[q[i]] = mints[q[i]]
  BY <1>1, <1>2, <1>3 DEF Line, Queues, Chained
<1>7. ASSUME NEW n \in Mints, n # m, Free(n) PROVE Free(n)'
  <2>1. mints[n].behind \in Mints \cup {NoMint} /\ mints'[n] = mints[n]
    BY <1>2, <1>7, MintTypes DEF Minting
  <2> QED BY <1>2, <1>7, <2>1 DEF Free, Settled
<1>8. Free(r[1])'
  <2>1. CASE q = << >>
    <3>1. r[1] = m /\ mintLock = NoMint
      BY <1>1, <1>5, <2>1 DEF Line
    <3> QED BY <1>2, <3>1 DEF Free
  <2>2. CASE q # << >>
    <3>1. 1 \in 1..Len(q)
      BY <1>5, <2>2
    <3>2. r[1] = q[1] /\ q[1] \in Mints /\ q[1] # m /\ Free(q[1])
      BY <1>1, <1>5, <1>6, <2>2, <3>1 DEF Line
    <3> QED BY <1>7, <3>2
  <2> QED BY <2>1, <2>2
<1>9. ASSUME NEW i \in 1..Len(r), i # 1 PROVE mints'[r[i]].behind = r[i - 1] /\ mints'[r[i]].at = "queued"
  <2>1. i \in 1..Len(q) \/ (i = Len(q) + 1 /\ Len(q) # 0)
    BY <1>5, <1>9
  <2>2. CASE i \in 1..Len(q)
    <3>1. i - 1 \in 1..Len(q)
      BY <1>9, <2>2
    <3>2. mints[q[i]].behind = q[i - 1] /\ mints[q[i]].at = "queued"
      BY <1>1, <1>9, <2>2 DEF Line
    <3> QED BY <1>5, <1>6, <2>2, <3>1, <3>2
  <2>3. CASE i = Len(q) + 1 /\ Len(q) # 0
    <3>1. i - 1 = Len(q) /\ Len(q) \in 1..Len(q) /\ r[i] = m /\ q # << >>
      BY <1>5, <2>3
    <3>2. mintLock = q[Len(q)]
      BY <1>1, <3>1 DEF Line
    <3> QED BY <1>2, <1>5, <3>1, <3>2
  <2> QED BY <2>1, <2>2, <2>3
<1>10. Line(r)'
  BY <1>2, <1>4, <1>5, <1>8, <1>9 DEF Line
<1> QED BY <1>4, <1>10 DEF InLine

\* The first goes on with its work, and the line stands.
LEMMA LineGoesOn ==
  ASSUME MintTypeOK, InLine, NEW m \in Mints, NEW w, mints' = [mints EXCEPT ![m] = w], mintLock' = mintLock,
         mints[m].at \in AtWork
           \/ (mints[m].at = "queued" /\ Free(m)),
         w.at \in AtWork, w.behind = mints[m].behind
  PROVE  InLine'
<1>1. PICK q \in Seq(Mints) : Line(q)
  BY DEF InLine
<1>2. mints'[m] = w /\ \A n \in Mints : n # m => mints'[n] = mints[n]
  BY MintTypes
<1>3. m \in Chained /\ Chained' = Chained
  BY <1>2 DEF Chained
<1>4. q # << >> /\ m = q[1] /\ Len(q) \in Nat \ {0} /\ 1 \in 1..Len(q)
  BY <1>1, <1>3, FirstInLine DEF AtWork
<1>5. \A i \in 1..Len(q) : i # 1 => q[i] \in Mints /\ q[i] # m
  BY <1>1, <1>4 DEF Line, Queues, Chained
<1>6. Free(m)'
  <2>1. Free(m) /\ mints[m].behind \in Mints \cup {NoMint}
    BY <1>1, <1>4, MintTypes DEF Line, Minting
  <2> QED BY <1>2, <2>1 DEF Free, Settled, AtWork
<1>7. \A i \in 1..Len(q) : i # 1 => mints'[q[i]].behind = q[i - 1] /\ mints'[q[i]].at = "queued"
  BY <1>1, <1>2, <1>5 DEF Line
<1>8. Line(q)'
  BY <1>1, <1>3, <1>4, <1>6, <1>7 DEF Line
<1> QED BY <1>8 DEF InLine

\* The first settles, and the next may begin.
LEMMA LineLeft ==
  ASSUME MintTypeOK, InLine, NEW m \in Mints, NEW at \in {"receipt", "threw"}, EndMint(m, at),
         mints[m].at \in AtWork
  PROVE  InLine'
<1>1. PICK q \in Seq(Mints) : Line(q)
  BY DEF InLine
<1> DEFINE r == Tail(q)
<1>2. /\ mints'[m].at = at /\ \A n \in Mints : n # m => mints'[n] = mints[n]
      /\ \A n \in Mints : mints'[n].behind = mints[n].behind
      /\ mintLock' = IF mintLock = m THEN NoMint ELSE mintLock
  BY MintTypes DEF EndMint, GoMint, Minting
<1>3. m \in Chained /\ Chained' = Chained \ {m}
  BY <1>2 DEF Chained, AtWork
<1>4. q # << >> /\ m = q[1] /\ Len(q) \in Nat \ {0} /\ 1 \in 1..Len(q)
  BY <1>1, <1>3, FirstInLine DEF AtWork
<1>5. Head(q) = m
  BY <1>4
<1>6. r \in Seq(Mints) /\ Queues(r, Chained')
  BY <1>1, <1>3, <1>4, <1>5, QueueLeft DEF Line
<1>7. /\ Len(r) = Len(q) - 1 /\ \A i \in 1..Len(r) : r[i] = q[i + 1]
      /\ r # << >> <=> Len(r) # 0
  <2>1. Len(r) = Len(q) - 1 /\ \A i \in 1..Len(r) : r[i] = q[i + 1]
    BY <1>4
  <2> HIDE DEF r
  <2>2. r # << >> <=> Len(r) # 0
    BY <1>6
  <2> QED BY <2>1, <2>2
<1> HIDE DEF r
<1>8. \A i \in 1..Len(r) : /\ i + 1 \in 1..Len(q) /\ i + 1 # 1 /\ (i + 1) - 1 = i
                           /\ i # 1 => i - 1 \in 1..Len(r) /\ (i - 1) + 1 = i
  BY <1>4, <1>7
<1>9. ASSUME NEW i \in 1..Len(r)
      PROVE /\ mints'[r[i]].behind = q[i] /\ mints'[r[i]].at = "queued"
            /\ i # 1 => q[i] = r[i - 1]
  <2>1. mints[q[i + 1]].behind = q[(i + 1) - 1] /\ mints[q[i + 1]].at = "queued"
    BY <1>1, <1>8 DEF Line
  <2>2. q[i + 1] \in Mints /\ q[i + 1] # m /\ r[i] = q[i + 1] /\ (i + 1) - 1 = i
    BY <1>1, <1>4, <1>7, <1>8 DEF Line, Queues, Chained
  <2> QED BY <1>2, <1>7, <1>8, <2>1, <2>2
<1>10. r # << >> => Free(r[1])'
  <2>1. SUFFICES ASSUME r # << >> PROVE Free(r[1])'
    OBVIOUS
  <2>2. 1 \in 1..Len(r)
    BY <1>4, <1>7, <2>1
  <2>3. mints'[r[1]].behind = m
    BY <1>4, <1>9, <2>2
  <2>4. mints'[m].at \in {"receipt", "threw"}
    BY <1>2
  <2> QED BY <2>3, <2>4 DEF Free, Settled
<1>11. mintLock' = IF r = << >> THEN NoMint ELSE r[Len(r)]
  <2>1. mintLock = q[Len(q)] /\ Len(q) \in 1..Len(q)
    BY <1>1, <1>4 DEF Line
  <2>2. CASE Len(q) = 1
    BY <1>2, <1>4, <1>7, <2>1, <2>2
  <2>3. CASE Len(q) # 1
    <3>1. Len(r) \in 1..Len(r) /\ Len(r) + 1 = Len(q) /\ r # << >>
      BY <1>4, <1>7, <2>3
    <3>2. r[Len(r)] = q[Len(q)] /\ q[Len(q)] # q[1]
      BY <1>1, <1>4, <1>7, <2>1, <2>3, <3>1 DEF Line, Queues
    <3> QED BY <1>2, <1>4, <2>1, <3>1, <3>2
  <2> QED BY <2>2, <2>3
<1>12. Line(r)'
  BY <1>6, <1>9, <1>10, <1>11 DEF Line
<1> QED BY <1>6, <1>12 DEF InLine

\* No sequence is used up, and nobody more may pay.
LEMMA SequencesKept ==
  ASSUME MintTypeOK, SequencesSuffice, Owing' \subseteq Owing, xrpSeq' = xrpSeq
  PROVE  SequencesSuffice'
<1>1. IsFiniteSet(Owing)
  BY BridgeSizes, FS_Subset DEF Owing
<1>2. Cardinality(Owing') <= Cardinality(Owing) /\ Cardinality(Owing) \in Nat /\ Cardinality(Owing') \in Nat
  BY <1>1, FS_Subset, FS_CardinalityType
<1>3. xrpSeq \in Nat
  BY BridgeSizes DEF MintTypeOK, Sequences
<1>4. xrpSeq + Cardinality(Owing) <= Cardinality(Mints) + 1
  BY DEF SequencesSuffice
<1>5. xrpSeq + Cardinality(Owing') <= Cardinality(Mints) + 1
  BY <1>2, <1>3, <1>4, BridgeSizes
<1> QED BY <1>5 DEF SequencesSuffice

\* A sequence is used up by a call that may pay no more.
LEMMA SequenceUsed ==
  ASSUME MintTypeOK, SequencesSuffice, NEW m \in Owing, Owing' \subseteq Owing \ {m}, xrpSeq' = xrpSeq + 1
  PROVE  SequencesSuffice' /\ xrpSeq' \in Sequences
<1>1. IsFiniteSet(Owing)
  BY BridgeSizes, FS_Subset DEF Owing
<1>2. Cardinality(Owing \ {m}) = Cardinality(Owing) - 1 /\ IsFiniteSet(Owing \ {m})
  BY <1>1, FS_RemoveElement
<1>3. Cardinality(Owing') <= Cardinality(Owing) - 1 /\ Cardinality(Owing) \in Nat /\ Cardinality(Owing') \in Nat
  BY <1>1, <1>2, FS_Subset, FS_CardinalityType
<1>4. xrpSeq \in Nat /\ xrpSeq >= 1
  BY BridgeSizes DEF MintTypeOK, Sequences
<1>5. xrpSeq + Cardinality(Owing) <= Cardinality(Mints) + 1
  BY DEF SequencesSuffice
<1>6. (xrpSeq + 1) + Cardinality(Owing') <= Cardinality(Mints) + 1 /\ xrpSeq + 1 \in 1..(Cardinality(Mints) + 1)
  BY <1>3, <1>4, <1>5, BridgeSizes
<1> QED BY <1>6 DEF SequencesSuffice, Sequences

\* At the start nobody stands in line.
LEMMA MintInitially == MintInit => MintInv
<1> SUFFICES ASSUME MintInit PROVE MintInv
  OBVIOUS
<1>1. \A m \in Mints : mints[m].at = "idle"
  BY DEF MintInit
<1>2. MintTypeOK
  BY MintTypes, BridgeSizes DEF MintInit, Minting, MintStates, Sequences
<1>3. InLine
  <2>1. << >> \in Seq(Mints)
    OBVIOUS
  <2>2. Chained = {}
    BY <1>1 DEF Chained, AtWork
  <2>3. Line(<< >>)
    BY <2>2 DEF Line, Queues, MintInit
  <2> QED BY <2>1, <2>3 DEF InLine
<1>4. SequencesSuffice
  <2>1. xrpSeq = 1 /\ Owing = Mints
    BY <1>1 DEF MintInit, Owing, MintStates
  <2> QED BY <2>1, BridgeSizes DEF SequencesSuffice
<1> QED BY <1>1, <1>2, <1>3, <1>4 DEF MintInit, MintInv, LooseOnce, SequenceStands, Sequenced

\* A call of mintFXRP that has not settled goes on or settles, and no sequence
\* is used up.
LEMMA MintGoesOn ==
  ASSUME MintInv, NEW m \in Mints, NEW w \in Minting, mints' = [mints EXCEPT ![m] = w],
         mints[m].at \notin {"receipt", "threw"},
         UNCHANGED <<xrpSeq, looseMints, mintDrops>>,
         mintLock' \in Mints \cup {NoMint}, xrp' \in 0..StartXrp, InLine',
         w.at \in {"validated", "receipt", "threw"} \/ mints[m].at \notin {"validated"},
         pastSeq' \in Nat, mintDrops = 0 => pastSeq' = pastSeq,
         mintDrops = 0 /\ w.at \in {"prepared", "sent"} => w.seq = xrpSeq,
         w.at \in {"prepared", "sent"} => w.seq \in Sequences
  PROVE  MintInv'
<1>1. /\ mints'[m] = w /\ mints' \in [Mints -> Minting] /\ \A n \in Mints : n # m => mints'[n] = mints[n]
      /\ looseMints \subseteq Loose
  BY MintTypes DEF MintInv
<1>2. MintTypeOK'
  BY <1>1, MintTypes DEF MintInv
<1>3. mints[m].at \in MintStates \ {"validated", "receipt", "threw"} \/ mints[m].at = "validated"
  BY MintTypes DEF MintInv, Minting
<1>4. Owing' \subseteq Owing
  BY <1>1, <1>3 DEF Owing
<1>5. SequencesSuffice'
  BY <1>4, SequencesKept DEF MintInv
<1>6. LooseOnce'
  BY <1>1 DEF MintInv, LooseOnce, Loose
<1>7. SequenceStands'
  BY <1>1 DEF MintInv, SequenceStands
<1>8. Sequenced'
  BY <1>1 DEF MintInv, Sequenced
<1> QED BY <1>2, <1>5, <1>6, <1>7, <1>8 DEF MintInv

\* Every step of the calls, the lock and the XRP Ledger keeps it.
LEMMA MintStep == MintInv /\ [MintNext]_mintVars => MintInv'
<1> SUFFICES ASSUME MintInv, [MintNext]_mintVars PROVE MintInv'
  OBVIOUS
<1>1. CASE UNCHANGED mintVars
  <2>1. UNCHANGED <<xrpSeq, xrp, mintLock, mints, looseMints, mintDrops, pastSeq>>
    BY <1>1 DEF mintVars
  <2>2. InLine'
    BY <2>1 DEF MintInv, InLine, Line, Free, Settled, Chained
  <2> QED BY <2>1, <2>2 DEF MintInv, MintTypeOK, SequencesSuffice, Owing, LooseOnce, SequenceStands, Sequenced
<1> SUFFICES ASSUME MintNext PROVE MintInv'
  BY <1>1
<1>2. /\ MintTypeOK /\ InLine /\ xrpSeq \in Sequences /\ xrp \in 0..StartXrp /\ mintLock \in Mints \cup {NoMint}
      /\ mints \in [Mints -> Minting] /\ looseMints \subseteq Loose
      /\ mintDrops \in 0..MaxMintDrops /\ pastSeq \in Nat
  BY MintTypes DEF MintInv
<1>3. \A m \in Mints : mints[m] \in Minting /\ mints[m].seq \in Sequences \cup {0} /\ mints[m].at \in MintStates
  BY <1>2 DEF Minting
<1>4. ASSUME NEW m \in Mints, NEW at \in MintStates, GoMint(m, at)
      PROVE \E w \in Minting : mints' = [mints EXCEPT ![m] = w] /\ w.at = at /\ w.behind = mints[m].behind
                               /\ w.seq = mints[m].seq
  <2> DEFINE w == [mints[m] EXCEPT !.at = at]
  <2>1. w \in Minting /\ w.at = at /\ w.behind = mints[m].behind /\ w.seq = mints[m].seq
    BY <1>3 DEF Minting
  <2>2. mints' = [mints EXCEPT ![m] = w]
    BY <1>2, <1>4 DEF GoMint
  <2> HIDE DEF w
  <2> QED BY <2>1, <2>2
<1>5. /\ "threw" \in MintStates /\ "receipt" \in MintStates /\ "reads" \in MintStates /\ "quoted" \in MintStates
      /\ "sent" \in MintStates /\ "validated" \in MintStates /\ "prepared" \in MintStates /\ "queued" \in MintStates
  BY DEF MintStates
\* The first in line settles.
<1>6. ASSUME NEW m \in Mints, NEW at \in {"receipt", "threw"}, EndMint(m, at), mints[m].at \in AtWork
      PROVE /\ InLine' /\ mintLock' \in Mints \cup {NoMint}
            /\ \E w \in Minting : mints' = [mints EXCEPT ![m] = w] /\ w.at = at
  BY <1>2, <1>4, <1>5, <1>6, LineLeft DEF EndMint
<1>7. ASSUME NEW m \in Mints, NEW at \in {"receipt", "threw"}, EndMint(m, at), mints[m].at \in AtWork,
             UNCHANGED <<xrpSeq, xrp, looseMints, mintDrops>>, pastSeq' \in Nat, mintDrops = 0 => pastSeq' = pastSeq
      PROVE MintInv'
  BY <1>2, <1>6, <1>7, MintGoesOn DEF AtWork
\* It goes on with its work.
<1>8. ASSUME NEW m \in Mints, NEW w \in Minting, mints' = [mints EXCEPT ![m] = w], w.behind = mints[m].behind,
             w.at \in AtWork, mints[m].at \in AtWork \/ (mints[m].at = "queued" /\ Free(m)),
             UNCHANGED <<xrpSeq, xrp, mintLock, looseMints, mintDrops, pastSeq>>,
             w.at = "validated" \/ mints[m].at # "validated",
             mintDrops = 0 /\ w.at \in {"prepared", "sent"} => w.seq = xrpSeq,
             w.at \in {"prepared", "sent"} => w.seq \in Sequences
      PROVE MintInv'
  <2>1. InLine'
    BY <1>2, <1>8, LineGoesOn
  <2> QED BY <1>2, <1>8, <2>1, MintGoesOn DEF AtWork
<1>10. ASSUME NEW m \in Mints, Enqueue(m) PROVE MintInv'
  <2> DEFINE w == [mints[m] EXCEPT !.at = "queued", !.behind = mintLock]
  <2>1. /\ w \in Minting /\ w.at = "queued" /\ mints' = [mints EXCEPT ![m] = w]
        /\ mints[m].at = "idle" /\ mintLock' = m /\ UNCHANGED <<xrpSeq, xrp, looseMints, mintDrops, pastSeq>>
    BY <1>2, <1>3, <1>5, <1>10 DEF Enqueue, Minting
  <2> HIDE DEF w
  <2>2. InLine'
    BY <1>2, <1>10, LineJoined
  <2> QED BY <1>2, <2>1, <2>2, MintGoesOn
<1>11. ASSUME NEW m \in Mints, StartMint(m) PROVE MintInv'
  BY <1>4, <1>5, <1>8, <1>11 DEF StartMint, Free, AtWork
<1>12. ASSUME NEW m \in Mints, ReadMintTerms(m) PROVE MintInv'
  BY <1>4, <1>5, <1>8, <1>12 DEF ReadMintTerms, AtWork
<1>13. ASSUME NEW m \in Mints, Prepare(m) PROVE MintInv'
  <2> DEFINE w == [mints[m] EXCEPT !.at = "prepared", !.seq = xrpSeq]
  <2>1. /\ w \in Minting /\ w.at = "prepared" /\ w.seq = xrpSeq /\ mints' = [mints EXCEPT ![m] = w]
        /\ w.behind = mints[m].behind
        /\ mints[m].at = "quoted" /\ UNCHANGED <<xrpSeq, xrp, mintLock, looseMints, mintDrops, pastSeq>>
    BY <1>2, <1>3, <1>5, <1>13 DEF Prepare, Minting
  <2> HIDE DEF w
  <2> QED BY <1>2, <1>8, <2>1 DEF AtWork
<1>14. ASSUME NEW m \in Mints, MintFails(m) PROVE MintInv'
  BY <1>2, <1>7, <1>14 DEF MintFails, AtWork
<1>15. ASSUME NEW m \in Mints, SubmitMint(m) PROVE MintInv'
  <2>1. (mintDrops = 0 => mints[m].seq = xrpSeq) /\ mints[m].seq \in Sequences
    BY <1>15 DEF SubmitMint, MintInv, SequenceStands, Sequenced
  <2> QED BY <1>4, <1>5, <1>8, <1>15, <2>1 DEF SubmitMint, AtWork
<1>16. ASSUME NEW m \in Mints, ApplyMint(m) PROVE MintInv'
  <2>1. mints[m].at = "sent" /\ UNCHANGED <<looseMints, mintDrops>>
    BY <1>16 DEF ApplyMint
  <2>2. CASE mints[m].seq # xrpSeq
    <3>1. EndMint(m, "threw") /\ pastSeq' = pastSeq + 1 /\ UNCHANGED <<xrpSeq, xrp>>
      BY <1>16, <2>2 DEF ApplyMint
    <3>2. mintDrops # 0
      BY <2>1, <2>2 DEF MintInv, SequenceStands
    <3> QED BY <1>2, <1>7, <2>1, <3>1, <3>2 DEF AtWork
  <2>3. CASE mints[m].seq = xrpSeq
    <3>1. xrpSeq' = xrpSeq + 1 /\ pastSeq' = pastSeq
      BY <1>16, <2>3 DEF ApplyMint
    <3>2. PICK cost \in Nat : cost = MintTotal(AmountOf[m])
      BY MintCosts
    <3>3. \/ xrp >= cost /\ GoMint(m, "validated") /\ xrp' = xrp - cost /\ UNCHANGED mintLock
          \/ EndMint(m, "threw") /\ UNCHANGED xrp
      BY <1>16, <2>3, <3>2 DEF ApplyMint
    <3>4. xrp' \in 0..StartXrp
      BY <1>2, <3>2, <3>3, BridgeSizes
    <3>5. /\ InLine' /\ mintLock' \in Mints \cup {NoMint}
          /\ \E w \in Minting : mints' = [mints EXCEPT ![m] = w] /\ w.at \in {"validated", "threw"}
      <4>1. CASE GoMint(m, "validated") /\ UNCHANGED mintLock
        <5>1. PICK w \in Minting :
                 mints' = [mints EXCEPT ![m] = w] /\ w.at = "validated" /\ w.behind = mints[m].behind
          BY <1>4, <1>5, <4>1
        <5>2. InLine'
          BY <1>2, <2>1, <4>1, <5>1, LineGoesOn DEF AtWork
        <5> QED BY <1>2, <4>1, <5>1, <5>2
      <4>2. CASE EndMint(m, "threw")
        BY <1>6, <2>1, <4>2 DEF AtWork
      <4> QED BY <3>3, <4>1, <4>2
    <3>6. PICK w \in Minting : mints' = [mints EXCEPT ![m] = w] /\ w.at \in {"validated", "threw"}
      BY <3>5
    <3>7. /\ mints'[m] = w /\ mints' \in [Mints -> Minting] /\ \A n \in Mints : n # m => mints'[n] = mints[n]
      BY <1>2, <3>6
    <3>8. \A l \in looseMints : l.of # m /\ l.of \in Mints
      BY <1>2, <2>1 DEF MintInv, LooseOnce, Loose
    <3>9. m \in Owing /\ Owing' \subseteq Owing \ {m}
      BY <1>5, <2>1, <3>6, <3>7, <3>8 DEF Owing
    <3>10. SequencesSuffice' /\ xrpSeq' \in Sequences
      BY <1>2, <3>1, <3>9, SequenceUsed DEF MintInv
    <3>11. MintTypeOK'
      BY <1>2, <2>1, <3>1, <3>4, <3>5, <3>7, <3>10, MintTypes
    <3>12. LooseOnce'
      BY <2>1, <3>7, <3>8 DEF MintInv, LooseOnce
    <3>13. SequenceStands' /\ Sequenced'
      <4>1. ASSUME NEW n \in Mints PROVE mints'[n].at \notin {"prepared", "sent"}
        <5>1. CASE n = m
          BY <3>6, <3>7, <5>1
        <5>2. CASE n # m
          <6>1. mints[n].at \notin AtWork
            BY <1>2, <2>1, <5>2, OneAtWork DEF AtWork
          <6> QED BY <3>7, <5>2, <6>1 DEF AtWork
        <5> QED BY <5>1, <5>2
      <4> QED BY <2>1, <3>1, <4>1 DEF MintInv, SequenceStands, Sequenced
    <3> QED BY <3>5, <3>10, <3>11, <3>12, <3>13 DEF MintInv
  <2> QED BY <2>2, <2>3
<1>17. ASSUME NEW m \in Mints, MintReceipt(m) PROVE MintInv'
  BY <1>2, <1>7, <1>17 DEF MintReceipt, AtWork
<1>18. ASSUME NEW m \in Mints, LoseMintAnswer(m) PROVE MintInv'
  <2> DEFINE new == [of |-> m, seq |-> mints[m].seq]
  <2>1. /\ mints[m].at \in {"sent", "validated"} /\ mintDrops' = mintDrops + 1 /\ mintDrops < MaxMintDrops
        /\ looseMints' = IF mints[m].at = "sent" THEN looseMints \cup {new} ELSE looseMints
        /\ EndMint(m, "threw") /\ UNCHANGED <<xrpSeq, xrp, pastSeq>>
    BY <1>18 DEF LoseMintAnswer
  <2>2. mintDrops' \in 0..MaxMintDrops /\ mintDrops' # 0
    BY <1>2, <2>1, BridgeSizes
  <2>3. InLine' /\ mintLock' \in Mints \cup {NoMint}
    BY <1>6, <2>1 DEF AtWork
  <2>4. PICK w \in Minting : mints' = [mints EXCEPT ![m] = w] /\ w.at = "threw"
    BY <1>6, <2>1 DEF AtWork
  <2>5. mints'[m] = w /\ mints' \in [Mints -> Minting] /\ \A n \in Mints : n # m => mints'[n] = mints[n]
    BY <1>2, <2>4
  <2>6. \A l \in looseMints : l.of # m /\ l.of \in Mints /\ mints[l.of].at = "threw"
    BY <1>2, <2>1 DEF MintInv, LooseOnce, Loose
  <2>7. \A l \in looseMints' : l \in looseMints \/ (l = new /\ mints[m].at = "sent")
    BY <2>1
  <2>8. new.of = m /\ (mints[m].at = "sent" => new \in Loose)
    BY DEF MintInv, Sequenced, Loose
  <2> HIDE DEF new
  <2>9. MintTypeOK'
    <3>1. looseMints' \subseteq Loose
      BY <1>2, <2>7, <2>8
    <3> QED BY <1>2, <2>1, <2>2, <2>3, <2>5, <3>1, MintTypes
  <2>10. LooseOnce'
    <3>1. \A l \in looseMints' : mints'[l.of].at = "threw"
      BY <2>4, <2>5, <2>6, <2>7, <2>8
    <3>2. \A l, k \in looseMints' : l.of = k.of => l = k
      BY <2>6, <2>7, <2>8 DEF MintInv, LooseOnce
    <3> QED BY <3>1, <3>2 DEF LooseOnce
  <2>11. Owing' \subseteq Owing
    <3>1. ASSUME NEW n \in Owing' PROVE n \in Owing
      <4>1. CASE n = m
        <5>1. mints'[m].at = "threw"
          BY <2>4, <2>5
        <5>2. \E l \in looseMints' : l.of = m
          BY <3>1, <4>1, <5>1 DEF Owing
        <5>3. mints[m].at = "sent"
          BY <2>6, <2>7, <5>2
        <5> QED BY <1>5, <4>1, <5>3 DEF Owing
      <4>2. CASE n # m
        <5>1. n \in Mints /\ mints'[n] = mints[n] /\ \A l \in looseMints' : l.of = n => l \in looseMints
          BY <2>5, <2>7, <2>8, <3>1, <4>2 DEF Owing
        <5> QED BY <3>1, <5>1 DEF Owing
      <4> QED BY <4>1, <4>2
    <3> QED BY <3>1
  <2>12. SequencesSuffice'
    BY <1>2, <2>1, <2>11, SequencesKept DEF MintInv
  <2>13. SequenceStands' /\ Sequenced'
    BY <2>2, <2>4, <2>5, <2>1 DEF MintInv, SequenceStands, Sequenced
  <2> QED BY <2>3, <2>9, <2>10, <2>12, <2>13 DEF MintInv
<1>19. ASSUME LooseMintLands PROVE MintInv'
  <2>1. PICK l \in looseMints :
           /\ looseMints' = looseMints \ {l}
           /\ \/ l.seq < xrpSeq /\ UNCHANGED <<xrpSeq, xrp>>
              \/ /\ l.seq = xrpSeq /\ xrpSeq' = xrpSeq + 1
                 /\ xrp' = IF xrp >= MintTotal(AmountOf[l.of]) THEN xrp - MintTotal(AmountOf[l.of]) ELSE xrp
    BY <1>19 DEF LooseMintLands
  <2>2. UNCHANGED <<mintLock, mints, mintDrops, pastSeq>>
    BY <1>19 DEF LooseMintLands
  <2>3. PICK m \in Mints : m = l.of
    BY <1>2 DEF Loose
  <2>4. PICK cost \in Nat : cost = MintTotal(AmountOf[m])
    BY MintCosts
  <2>5. xrp' \in 0..StartXrp
    <3>1. xrp' = xrp \/ (xrp >= cost /\ xrp' = xrp - cost)
      BY <2>1, <2>3, <2>4
    <3> QED BY <1>2, <2>4, <3>1, BridgeSizes
  <2>6. mints[m].at = "threw" /\ \A k \in looseMints' : k.of # m /\ k \in looseMints
    BY <2>1, <2>3 DEF MintInv, LooseOnce
  <2>7. m \in Owing /\ Owing' \subseteq Owing \ {m}
    BY <2>2, <2>3, <2>6 DEF Owing
  <2>8. SequencesSuffice' /\ xrpSeq' \in Sequences
    BY <1>2, <2>1, <2>7, SequenceUsed, SequencesKept DEF MintInv
  <2>9. MintTypeOK'
    BY <1>2, <2>1, <2>2, <2>5, <2>8, MintTypes
  <2>10. InLine'
    BY <1>2, <2>2 DEF InLine, Line, Free, Settled, Chained
  <2>11. LooseOnce'
    BY <2>2, <2>6 DEF MintInv, LooseOnce
  <2>12. mintDrops # 0
    BY <2>1 DEF MintInv, SequenceStands
  <2>13. SequenceStands' /\ Sequenced'
    BY <2>2, <2>12 DEF MintInv, SequenceStands, Sequenced
  <2> QED BY <2>8, <2>9, <2>10, <2>11, <2>13 DEF MintInv
<1> QED BY <1>10, <1>11, <1>12, <1>13, <1>14, <1>15, <1>16, <1>17, <1>18, <1>19 DEF MintNext

-------------------------------------------------------------------------------
(* Flare: the bridge as a whole.                                           *)

\* The two invariants say what the bridge must.
LEMMA BridgeKept == MintInv /\ RedeemInv => BridgeHolds
<1> SUFFICES ASSUME MintInv, RedeemInv PROVE BridgeHolds
  OBVIOUS
<1>1. SequencesNeverRace
  <2>1. \A m, n \in Mints :
           {mints[m].at, mints[n].at} \subseteq {"reads", "quoted", "prepared", "sent", "validated"} => m = n
    BY OneAtWork DEF MintInv, AtWork
  <2> QED BY <2>1 DEF MintInv, SequenceStands, SequencesNeverRace
<1>2. ReceiptMeansRequest
  BY DEF RedeemInv, ReceiptMeansRequest
<1>3. PollTellsChain
  BY DEF RedeemInv, LookStands, PollTellsChain
<1> QED BY <1>1, <1>2, <1>3 DEF BridgeHolds

\* The bridge stays well typed, for any number of mints and redemptions
\* (flare/bridge.ts).
THEOREM BridgeTyped == MintSpec /\ RedeemSpec => []BridgeTypeOK
<1>1. MintInv /\ RedeemInv => BridgeTypeOK
  BY DEF MintInv, RedeemInv, BridgeTypeOK
<1> QED BY <1>1, MintInitially, MintStep, RedeemInitially, RedeemStep, PTL DEF MintSpec, RedeemSpec

\* The lock of mintFXRP keeps its calls apart, so that the XRPL sequence never
\* races unless an answer was lost; a redemption receipt stands for a request; and
\* a poll tells what the chain said of its own request (flare/bridge.ts:124-449).
THEOREM BridgeAlwaysHolds == MintSpec /\ RedeemSpec => []BridgeHolds
BY BridgeKept, MintInitially, MintStep, RedeemInitially, RedeemStep, PTL DEF MintSpec, RedeemSpec

-------------------------------------------------------------------------------
(* The sponsored rails together.                                           *)

\* Facilitator, relay, bridge and x402 rail stay well typed, for all values of
\* the constants (morph/facilitator.ts, morph/client.ts, flare/gasless.ts,
\* flare/bridge.ts, flare/x402.ts).
THEOREM FacilitatorsTyped ==
  Spec /\ MorphSpec /\ GaslessSpec /\ MintSpec /\ RedeemSpec /\ FlareX402Spec => []TypesOK
<1>1. SettleInv /\ BuyerInv /\ ServeInv /\ GaslessTypeOK /\ BridgeTypeOK => TypesOK
  BY DEF SettleInv, BuyerInv, ServeInv, TypesOK
<1> QED BY <1>1, SettleAlways, BuyerAlways, RelayTyped, BridgeTyped, ServeInitially, ServeStep, PTL
        DEF FlareX402Spec
===============================================================================
