------------------------------ MODULE MCPeers ------------------------------
(* Peers with the symmetry of its model values, for the safety runs.       *)
EXTENDS Peers, TLC

Symmetry ==
    Permutations(Domain) \cup Permutations(Token)
        \cup Permutations(Out) \cup Permutations(Inc)
=============================================================================
