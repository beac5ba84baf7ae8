----------------------------- MODULE MCSpaceRouter -----------------------------
(***************************************************************************)
(* The receipt scheduler with five receipts and a threshold of two, so     *)
(* that a flush can fail and be retried with receipts enqueued, and the    *)
(* threshold crossed again, meanwhile; and the client with two overlapping *)
(* fetches, top-ups of 2 below a balance of 2, and tokens for two of them; *)
(* and the withdrawals, two calls at a time, in 4 operations and 2 days.   *)
(*                                                                         *)
(* The three parts share no variable (the client keeps a scheduler's       *)
(* buffer of its own), so a behaviour runs one of them while the others    *)
(* rest in their initial states.                                           *)
(***************************************************************************)
EXTENDS ReceiptScheduler, SpaceRouterClient

CONSTANTS s1, s2

MCSlots == {s1, s2}

MCInit == Init /\ ClientInit /\ WithdrawInit

Resting == WithdrawInit /\ ahead = 0 /\ UNCHANGED withdrawVars

MCNext ==
    \/ ClientInit /\ Resting /\ Next /\ UNCHANGED clientVars
    \/ Init /\ Resting /\ ClientNext /\ UNCHANGED vars
    \/ Init /\ ClientInit /\ WithdrawNext /\ UNCHANGED <<vars, clientVars>>

MCSpec == MCInit /\ [][MCNext]_<<vars, clientVars, withdrawVars>> /\ Fairness
===============================================================================
