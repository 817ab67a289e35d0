------------------------------- MODULE OneShot -------------------------------
(***************************************************************************)
(* What the two-step flow GeneratePlan / ExecutePlan promises about one    *)
(* plan: it is offered once, at most one request ever takes it, and it is  *)
(* never on offer again after it was taken or withdrawn.                   *)
(***************************************************************************)
EXTENDS Integers

VARIABLES
    offer,   \* "absent", "open", "taken" or "closed"
    takers   \* how many requests were handed the plan for execution

vars == <<offer, takers>>

Init == offer = "absent" /\ takers = 0

Offer == /\ offer = "absent"
         /\ offer' = "open"
         /\ UNCHANGED takers

Take == /\ offer = "open"
        /\ offer' = "taken"
        /\ takers' = 1

Withdraw == /\ offer = "open"
            /\ offer' = "closed"
            /\ UNCHANGED takers

Next == Offer \/ Take \/ Withdraw

Spec == Init /\ [][Next]_vars
=============================================================================
