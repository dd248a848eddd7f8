---------------------------- MODULE MCSessions ----------------------------
(* Instances of Sessions for TLC: requests, tokens and accounts are each    *)
(* interchangeable.                                                         *)
EXTENDS Sessions, TLC

Symmetric == Permutations(Requests) \cup Permutations(Tokens) \cup Permutations(Users)
=============================================================================
