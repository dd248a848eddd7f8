------------------------------ MODULE MCLogin ------------------------------
(* Instances of Login for TLC: attempts are interchangeable, and so are    *)
(* accounts.                                                               *)
EXTENDS Login, TLC

Symmetric == Permutations(Requests) \cup Permutations(Users)
=============================================================================
