---------------------------- MODULE MCBootstrap ----------------------------
(* The instance of Bootstrap and Schema for TLC: all ids are                *)
(* interchangeable.                                                         *)
EXTENDS Bootstrap, TLC

Symmetric == Permutations(Orgs) \cup Permutations(Users) \cup Permutations(Runs)
                 \cup Permutations(Emails)
=============================================================================
