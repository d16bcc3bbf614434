------------------------------ MODULE OneShot ------------------------------
(***************************************************************************)
(* What guided_flow_store.py promises of a proposal, without its table: it *)
(* is offered, at most one taker takes it, and only the taker performs it, *)
(* once.  Until then it can be withdrawn, and the taker can lose it.       *)
(***************************************************************************)
EXTENDS Naturals

VARIABLES state, performed

offer == <<state, performed>>

Init == state = "new" /\ performed = 0

Offer == state = "new" /\ state' = "offered" /\ UNCHANGED performed

Take == state = "offered" /\ state' = "taken" /\ UNCHANGED performed

Perform == state = "taken" /\ state' = "gone" /\ performed' = performed + 1

GiveUp == state \in {"offered", "taken"} /\ state' = "gone" /\ UNCHANGED performed

Next == Offer \/ Take \/ Perform \/ GiveUp

Spec == Init /\ [][Next]_offer
=============================================================================
