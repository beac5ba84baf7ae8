------------------------------ MODULE PaidAccess ------------------------------
(***************************************************************************)
(* What a paywall promises, whatever rail the money takes: a payment lands *)
(* on the ledger at most once, and it opens the resource at most once and  *)
(* only after it has landed.                                               *)
(***************************************************************************)
EXTENDS Naturals

CONSTANT Payments

VARIABLES
    charged,    \* the payments that have landed on the ledger
    served      \* served[p]: how often p has opened the resource

accessVars == <<charged, served>>

AccessInit ==
    /\ charged = {}
    /\ served = [p \in Payments |-> 0]

Charge(p) ==
    /\ p \notin charged
    /\ charged' = charged \cup {p}
    /\ UNCHANGED served

Serve(p) ==
    /\ p \in charged
    /\ served[p] = 0
    /\ served' = [served EXCEPT ![p] = 1]
    /\ UNCHANGED charged

AccessNext == \E p \in Payments : Charge(p) \/ Serve(p)

AccessSpec == AccessInit /\ [][AccessNext]_accessVars
===============================================================================
