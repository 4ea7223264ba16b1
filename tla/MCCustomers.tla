---------------------------- MODULE MCCustomers -----------------------------
(* Instances of Customers for TLC: a contact, a profile and a package of one *)
(* reseller, a contact and a profile of another.                             *)
EXTENDS Customers, TLC

CONSTANTS R1, R2, p1, p2, k1, k2

Resellers == p1 :> R1 @@ p2 :> R2
Contacts == k1 :> R1 @@ k2 :> R2
Profiles == [g \in Package |-> p1]

Symmetry == Permutations(Request)
=============================================================================
