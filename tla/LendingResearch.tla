----------------------------- MODULE LendingResearch -----------------------------
(***************************************************************************)
(* The audit of a lending position (research/): a registry picks the       *)
(* adapter of a protocol, the adapter reads the chain it was made for, and *)
(* a report scores the snapshot and says what to do, once the causal graph *)
(* that goes with it has passed Kahn's algorithm.                          *)
(*                                                                         *)
(* Ratios are pairs of a numerator and a denominator, where a denominator  *)
(* of 0 is Infinity; an lltv is in hundredths.                             *)
(***************************************************************************)
EXTENDS Integers, Sequences, FiniteSets, SequencesExt

CONSTANTS
    Registries, \* the chain the adapter of each protocol was made for, or "none"
    Facts,      \* what a chain holds: [supplied, borrowed, lltv, position, known]
    Graphs,     \* [nodes : a sequence of ids, edges : a sequence of pairs of ids]
    NodeIds     \* ids of nodes, of a graph or dangling

Lenders == {"morpho", "aave", "pendle", "euler", "silo"}
Chains == {"ethereum", "base", "arbitrum", "optimism"}
Subjects == {"market_id", "borrower", "vault_address"}

\* A threshold is at most the whole of the collateral: Morpho enables no lltv
\* above 1, and the threshold of Aave is in basis points.
ASSUME ResearchAssumption ==
    /\ Registries \subseteq [Lenders -> Chains \cup {"none"}]
    /\ Facts \subseteq [supplied : Nat, borrowed : Nat, lltv : 0..100, position : Nat, known : BOOLEAN]
    /\ Graphs \subseteq [nodes : Seq(NodeIds), edges : Seq(NodeIds \X NodeIds)]

VARIABLES
    adapters, \* adapters of the ProtocolAdapterRegistry
    audit,    \* where the audit is: what was asked, the snapshot and the report
    sorting   \* the variables of assertAcyclic() and the graph it looks at

researchVars == <<adapters, audit, sorting>>

Infinity == <<1, 0>>
NoSnapshot == [collateral |-> 0, debt |-> 0, lltv |-> 0, health |-> Infinity,
               used |-> <<0, 1>>, carry |-> 0]
NoAudit == [at |-> "idle", protocol |-> "auto", chain |-> "ethereum", subject |-> "market_id",
            snapshot |-> NoSnapshot, score |-> 0, action |-> "none"]
NoSorting == [graph |-> [nodes |-> <<>>, edges |-> <<>>], degree |-> <<>>, queue |-> {}, visited |-> 0]

ResearchTypeOK ==
    /\ adapters \in [Lenders -> Chains \cup {"none"}]
    /\ audit.at \in {"idle", "reading", "read", "sorting", "reported", "refused", "threw"}
    /\ audit.score \in 0..100
    /\ audit.action \in {"none", "HOLD", "REBALANCE_TO_PT", "DEFEND_KINK", "EMERGENCY_DELEVERAGE"}
    /\ sorting.degree \in [ToSet(sorting.graph.nodes) -> Nat]
    /\ sorting.queue \subseteq ToSet(sorting.graph.nodes) /\ sorting.visited \in Nat

ResearchInit == adapters \in Registries /\ audit = NoAudit /\ sorting = NoSorting

-------------------------------------------------------------------------------
(* auditLendingPosition().                                                 *)

\* supportedChains of each adapter.
Supports == [p \in Lenders |->
    CASE p = "aave" -> {"ethereum", "base", "arbitrum"}
      [] p \in {"morpho", "euler"} -> {"ethereum", "base"}
      [] p \in {"pendle", "silo"} -> {"ethereum", "arbitrum"}]

\* The schema lets "auto" pass, for which there is no adapter.  The registry
\* compares the chain with the list of the adapter, not with the chain the
\* adapter was made for.
Audit(protocol, chain, subject) ==
    /\ audit.at = "idle"
    /\ LET found == protocol \in Lenders /\ adapters[protocol] # "none"
       IN audit' = [NoAudit EXCEPT !.protocol = protocol, !.chain = chain, !.subject = subject,
                        !.at = IF found /\ chain \in Supports[protocol] THEN "reading" ELSE "threw"]
    /\ UNCHANGED <<adapters, sorting>>

Used(f) == IF f.supplied > 0 THEN <<f.borrowed, f.supplied>> ELSE <<0, 1>>

Health(collateral, debt, lltv) == <<lltv * collateral, 100 * debt>>

\* A borrower of Morpho is measured by the debt of the whole market; a position
\* with no collateral has an LTV of 0 and cannot be worse than Infinity.
Morpho(subject, f) ==
    LET collateral == IF subject = "borrower" THEN f.position ELSE f.supplied
    IN [NoSnapshot EXCEPT !.collateral = collateral, !.debt = f.borrowed, !.lltv = f.lltv,
                          !.health = IF collateral > 0 THEN Health(collateral, f.borrowed, f.lltv)
                                     ELSE Infinity,
                          !.used = Used(f)]

\* External: the pool of Aave computes the health itself, and says so when
\* there is no debt.
Aave(f) ==
    [NoSnapshot EXCEPT !.collateral = f.position, !.debt = f.borrowed, !.lltv = f.lltv,
                       !.health = IF f.borrowed > 0 THEN Health(f.position, f.borrowed, f.lltv)
                                  ELSE Infinity]

\* The pair's own LTV is not read.
Pair(f) == [NoSnapshot EXCEPT !.collateral = f.supplied, !.debt = f.borrowed, !.used = Used(f)]

\* A principal token has no debt, and only it has a rate.
Pendle == [NoSnapshot EXCEPT !.lltv = 100, !.carry = 1]

Snapshot(protocol, subject, f) ==
    CASE protocol = "morpho" -> Morpho(subject, f)
      [] protocol = "aave" -> Aave(f)
      [] protocol = "pendle" -> Pendle
      [] OTHER -> Pair(f)

\* A call of the RPC may fail; Euler and Silo ask for a vault, Silo for one its
\* factory knows, and Pendle for an oracle that is warm.
ReadPosition(f) ==
    /\ audit.at = "reading"
    /\ LET p == audit.protocol
           readable ==
              /\ adapters[p] \in Supports[p] \cup (IF p \in {"aave", "silo"} THEN {} ELSE Chains)
              /\ p \in {"euler", "silo"} => audit.subject = "vault_address"
              /\ p \in {"silo", "pendle"} => f.known
       IN \/ /\ readable
             /\ audit' = [audit EXCEPT !.at = "read", !.snapshot = Snapshot(p, audit.subject, f)]
          \/ audit' = [audit EXCEPT !.at = "threw"]
    /\ UNCHANGED <<adapters, sorting>>

-------------------------------------------------------------------------------
(* assertAcyclic().                                                        *)

\* The edges, counted by their place, from the ids in sources to n.
Arcs(g, sources, n) == {i \in DOMAIN g.edges : g.edges[i][1] \in sources /\ g.edges[i][2] = n}

\* Edges of an id that is not a node are passed over; an id that is repeated has
\* one entry in the map of degrees.
InDegree(g, n) == Cardinality(Arcs(g, ToSet(g.nodes), n))

\* A graph is looked at before anything else is done with it.
Synthesize(g) ==
    /\ audit.at = "read"
    /\ audit' = [audit EXCEPT !.at = "sorting"]
    /\ sorting' = [graph |-> g, degree |-> [n \in ToSet(g.nodes) |-> InDegree(g, n)],
                   queue |-> {n \in ToSet(g.nodes) : InDegree(g, n) = 0}, visited |-> 0]
    /\ UNCHANGED adapters

\* One turn of Kahn's algorithm: an id is taken from the queue, every edge from
\* it is taken away, and an id is queued when its degree passes zero, which it
\* does once.  What is counted does not depend on the order of the queue.
Visit(n) ==
    /\ audit.at = "sorting" /\ n \in sorting.queue
    /\ LET Removed(m) == Cardinality(Arcs(sorting.graph, {n}, m))
           ids == ToSet(sorting.graph.nodes)
       IN sorting' = [sorting EXCEPT
              !.degree = [m \in ids |-> sorting.degree[m] - Removed(m)],
              !.queue = (@ \ {n}) \cup {m \in ids : sorting.degree[m] \in 1..Removed(m)},
              !.visited = @ + 1]
    /\ UNCHANGED <<adapters, audit>>

-------------------------------------------------------------------------------
(* synthesizeGraph().                                                      *)

Below(r, p, q) == r[2] # 0 /\ r[1] * q < p * r[2]
Kinked(s) == s.used[1] * 100 > 92 * s.used[2]

\* Sixty parts of the way to the threshold, rounded.
Distance(s) ==
    LET a == IF s.collateral > 0 THEN 6000 * s.debt ELSE 0
        b == IF s.collateral > 0 THEN s.lltv * s.collateral ELSE 1
    IN IF 2 * a + b > 200 * b THEN 100 ELSE (2 * a + b) \div (2 * b)

\* A slip the code avoids: a kink hides a position that is under water.
Bug_ScoreKinkFirst(s) ==
    IF Kinked(s) THEN 75
    ELSE IF Below(s.health, 1, 1) THEN 100
    ELSE IF Below(s.health, 115, 100) THEN 85
    ELSE IF s.lltv > 0 THEN Distance(s)
    ELSE 10

Score(s) ==
    IF Below(s.health, 1, 1) THEN 100
    ELSE IF Below(s.health, 115, 100) THEN 85
    ELSE IF Kinked(s) THEN 75
    ELSE IF s.lltv > 0 THEN Distance(s)
    ELSE 10

Action(s) ==
    IF Score(s) >= 85 THEN "EMERGENCY_DELEVERAGE"
    ELSE IF Kinked(s) THEN "DEFEND_KINK"
    ELSE IF s.carry < 0 THEN "REBALANCE_TO_PT"
    ELSE "HOLD"

\* The queue is empty: nodes that were not counted are on a cycle, or repeated.
Report ==
    /\ audit.at = "sorting" /\ sorting.queue = {}
    /\ audit' = IF sorting.visited >= Len(sorting.graph.nodes)
                THEN [audit EXCEPT !.at = "reported", !.score = Score(audit.snapshot),
                                   !.action = Action(audit.snapshot)]
                ELSE [audit EXCEPT !.at = "refused"]
    /\ UNCHANGED <<adapters, sorting>>

NextAudit ==
    /\ audit.at \in {"reported", "refused", "threw"}
    /\ audit' = NoAudit /\ sorting' = NoSorting
    /\ UNCHANGED adapters

ResearchNext ==
    \/ \E protocol \in Lenders \cup {"auto"}, chain \in Chains, subject \in Subjects :
          Audit(protocol, chain, subject)
    \/ \E f \in Facts : ReadPosition(f)
    \/ \E g \in Graphs : Synthesize(g)
    \/ \E n \in NodeIds : Visit(n)
    \/ Report
    \/ NextAudit

ResearchSpec == ResearchInit /\ [][ResearchNext]_researchVars

-------------------------------------------------------------------------------
Edges(g) == {e \in ToSet(g.edges) : {e[1], e[2]} \subseteq ToSet(g.nodes)}
HasCycle(g) ==
    \E s \in (SUBSET ToSet(g.nodes)) \ {{}} : \A n \in s : \E m \in s : <<m, n>> \in Edges(g)

\* Kahn's algorithm refuses what has a cycle, and else only what repeats an id.
KahnIsRight ==
    LET g == sorting.graph
    IN  /\ audit.at = "reported" => ~HasCycle(g) /\ IsInjective(g.nodes)
        /\ audit.at = "refused" => HasCycle(g) \/ ~IsInjective(g.nodes)

\* A report calls for an emergency when the debt is worth more than the threshold
\* allows, but for a position without collateral on Morpho and for pairs whose
\* threshold is not read; a market of Morpho past its kink is an emergency and
\* never a kink to defend, and no adapter reads a rate at which a debt would be
\* moved into Pendle.
ReportHolds ==
    audit.at = "reported" =>
        LET s == audit.snapshot
        IN  /\ 100 * s.debt > s.lltv * s.collateral =>
                   \/ audit.action = "EMERGENCY_DELEVERAGE"
                   \/ audit.protocol \in {"euler", "silo"}
                   \/ audit.protocol = "morpho" /\ s.collateral = 0
            /\ audit.action = "DEFEND_KINK" =>
                   audit.protocol # "morpho" \/ audit.subject = "borrower"
            /\ audit.action # "REBALANCE_TO_PT"

\* A report comes with a graph that has no cycle, and is what the position it
\* read asks for.
AuditHolds == KahnIsRight /\ ReportHolds
==================================================================================
