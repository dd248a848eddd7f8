----------------------------- MODULE MCApiKeys -----------------------------
(* Instances of ApiKeys for TLC: secrets, drones, prefixes and requests are *)
(* each interchangeable.                                                    *)
EXTENDS ApiKeys, TLC

Symmetric == Permutations(Keys) \cup Permutations(Drones)
                 \cup Permutations(Prefixes) \cup Permutations(Requests)
=============================================================================
