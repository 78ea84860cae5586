------------------------------- MODULE MCBilling -------------------------------
(* Billing with every checkout paying for one organization. *)
EXTENDS Billing, TLC

CONSTANTS o1, o2

OneHome == [c \in Checkouts |-> o1]
Alike == Permutations(Checkouts) \cup Permutations(Customers) \cup Permutations(Handlers)
================================================================================
