------------------------------ MODULE MCAuthz ------------------------------
(* Instances of Authz for TLC: orgs, users and drones are each              *)
(* interchangeable.                                                         *)
EXTENDS Authz, TLC

Symmetric == Permutations(Orgs) \cup Permutations(Users) \cup Permutations(Drones)
                 \cup Permutations(Requests)
=============================================================================
