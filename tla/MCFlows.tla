------------------------------ MODULE MCFlows ------------------------------
(* A bounded instance of LumalouFlows for TLC. *)
EXTENDS LumalouFlows, TLC
Symmetry ==
    Permutations(Clients) \cup Permutations(Flows)
        \cup Permutations(Keys) \cup Permutations(Addresses)
=============================================================================
