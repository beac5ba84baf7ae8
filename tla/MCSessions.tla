------------------------------- MODULE MCSessions -------------------------------
(***************************************************************************)
(* Money that is put aside before it is paid.  The Stellar payment channel *)
(* with two overlapping calls on either side, amounts of 1 and 2 and a     *)
(* total of 3, so that several vouchers are outstanding at once and can    *)
(* overtake one another; its escrow with a job of two milestones and two   *)
(* overlapping operations.  Of the agents: three tool calls on a session   *)
(* that can pay for two; two jobs and three verdicts; a budget of 5 over   *)
(* four contexts; a batch of 3 and a stream of 4; a mandate with a budget  *)
(* of 2, or with none.  Of the off-ramp two calls at two anchors, the      *)
(* second of them added by the operator, of which the default one may      *)
(* publish a price and no withdrawals.  Of the allocation vault two        *)
(* depositors who put in 3 at most, beside a market in which others have   *)
(* 2.  And of the audit of lending positions the adapters of two chains,   *)
(* healthy, kinked and sunken markets, and the graphs of three edges or    *)
(* less over three ids, with repeated and dangling ones.                   *)
(*                                                                         *)
(* They keep separate state, so a behaviour runs one of them while the     *)
(* others rest in their initial states.                                    *)
(***************************************************************************)
EXTENDS StellarSession, TrustlessEscrow, AgentProvider, AgentEscrow, AgentBudgets,
    AnchorOfframp, AllocationVault, LendingResearch, TLC

CONSTANTS s1, s2, m1, m2, c1, c2, c3, sess, j1, j2, v1, v2, v3, d1, d2, d3, d4,
          q1, q2, a1, a2, h1, h2, u1

MCSlots == {s1, s2}
MCAmounts == {1, 2}
MCMilestones == {m1, m2}
MCToolCalls == {c1, c2, c3}
MCToolSessions == {sess}
MCJobs == {j1, j2}
MCVerdicts == {v1, v2, v3}
MCContexts == {d1, d2, d3, d4}
MCBudgets == {0, 2}
MCTotals == {1, 2, 3}
MCOffCalls == {q1, q2}
MCNamed == {a2, NoAnchor}
MCDefaultAnchors == <<a1>>
MCServing == {a1, a2}
MCPublications == {[a \in {a1, a2} |-> Services],
                   (a1 :> {"sep38", "auth"}) @@ (a2 :> {"sep24", "sep31", "auth"})}

MCDepositors == {h1, h2}
MCUnbonded == {u1}
MCPtWeights == {0, 2, 4}
MCFlashFees == {0, 1}
MCRegistries ==
    {[morpho |-> "ethereum", aave |-> "arbitrum", pendle |-> "ethereum", euler |-> "base",
      silo |-> "ethereum"],
     [morpho |-> "base", aave |-> "optimism", pendle |-> "none", euler |-> "none", silo |-> "base"]}
MCFacts == [supplied : {0, 100}, borrowed : {0, 50, 80, 95}, lltv : {86, 96},
            position : {0, 60, 200}, known : BOOLEAN]
MCArcs == {"a", "b", "c"} \X {"a", "b", "c"}
MCGraphs ==
    [nodes : {<<>>, <<"a">>, <<"a", "b">>, <<"a", "b", "c">>, <<"a", "b", "a">>},
     edges : {SetToSeq(s) : s \in UNION {kSubset(k, MCArcs) : k \in 0..3}}
             \cup {<<<<"a", "b">>, <<"a", "b">>>>, <<<<"a", "d">>, <<"a", "b">>>>,
                   <<<<"a", "b">>, <<"b", "a">>, <<"a", "b">>>>}]
\* A chain of two, an id on a cycle with itself, and nothing.
MCFewGraphs ==
    {[nodes |-> <<"a", "b">>, edges |-> <<<<"a", "b">>>>], [nodes |-> <<"a">>, edges |-> <<<<"a", "a">>>>],
     NoSorting.graph}

\* The component that runs; the others rest.
VARIABLE running

lendingVars == <<vaultVars, researchVars>>
budgetVars == <<delegationVars, settlementVars, mandateVars, offrampVars, lendingVars>>
agentVars == <<providerVars, agentEscrowVars, budgetVars>>

MCInit ==
    /\ running \in {"channel", "escrow", "provider", "job", "delegation", "settlement", "mandate",
                   "offramp", "vault", "research", "graph"}
    /\ Init /\ JobInit /\ ProviderInit /\ AgentEscrowInit
    /\ DelegationInit /\ SettlementInit /\ MandatesInit /\ OfframpInit
    /\ running # "escrow" => ~multi
    /\ running # "offramp" => published = [a \in {a1, a2} |-> Services]
    /\ VaultInit /\ (running # "vault" => borrowed = 0)
    /\ ResearchInit /\ (running # "research" => adapters["pendle"] = "ethereum")

MCNext ==
    /\ \/ running = "channel" /\ Next /\ UNCHANGED <<jobVars, agentVars>>
       \/ running = "escrow" /\ JobNext /\ UNCHANGED <<vars, agentVars>>
       \/ running = "provider" /\ ProviderNext /\ UNCHANGED <<vars, jobVars, agentEscrowVars, budgetVars>>
       \/ running = "job" /\ AgentEscrowNext /\ UNCHANGED <<vars, jobVars, providerVars, budgetVars>>
       \/ /\ running = "delegation" /\ DelegationNext
          /\ UNCHANGED <<vars, jobVars, providerVars, agentEscrowVars, settlementVars, mandateVars,
                       offrampVars, lendingVars>>
       \/ /\ running = "settlement" /\ SettlementNext
          /\ UNCHANGED <<vars, jobVars, providerVars, agentEscrowVars, delegationVars, mandateVars,
                       offrampVars, lendingVars>>
       \/ /\ running = "mandate" /\ MandatesNext
          /\ UNCHANGED <<vars, jobVars, providerVars, agentEscrowVars, delegationVars, settlementVars,
                       offrampVars, lendingVars>>
       \/ /\ running = "offramp" /\ OfframpNext
          /\ UNCHANGED <<vars, jobVars, providerVars, agentEscrowVars, delegationVars, settlementVars,
                       mandateVars, lendingVars>>
       \/ /\ running = "vault" /\ VaultNext
          /\ UNCHANGED <<vars, jobVars, providerVars, agentEscrowVars, delegationVars, settlementVars,
                       mandateVars, offrampVars, researchVars>>
       \/ /\ \/ running = "research" /\ ResearchNext /\ sorting'.graph \in MCFewGraphs
             \/ running = "graph" /\ ResearchNext /\ audit'.protocol \in {"auto", "pendle"}
          /\ UNCHANGED <<vars, jobVars, providerVars, agentEscrowVars, delegationVars, settlementVars,
                       mandateVars, offrampVars, vaultVars>>
    /\ UNCHANGED running

MCSpec == MCInit /\ [][MCNext]_<<running, vars, jobVars, agentVars>>

\* The sessions, escrows and budgets stay well typed.
TypesOK ==
    /\ TypeOK /\ JobTypeOK /\ ProviderTypeOK /\ AgentEscrowTypeOK
    /\ DelegationTypeOK /\ SettlementTypeOK /\ MandatesTypeOK /\ OfframpTypeOK
    /\ VaultTypeOK /\ ResearchTypeOK

\* What the managers of budgets hand out adds up: down a tree of delegations,
\* over the vouchers and intervals of a settlement, under a user's mandate, in
\* the sessions of tool calls, and in the allocation vault.  What rests holds as
\* it did when it began.
BudgetsHold ==
    /\ BudgetsNest /\ StreamsBalance /\ AcceptedStaysCovered /\ SessionsBalance
    /\ running = "vault" => VaultHolds
===============================================================================
