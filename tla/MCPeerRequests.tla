--------------------------- MODULE MCPeerRequests ---------------------------
(* PeerRequests with the symmetry of its model values, for the safety runs. *)
EXTENDS PeerRequests, TLC

Symmetry ==
    Permutations(Domain) \cup Permutations(Token)
        \cup Permutations(Out) \cup Permutations(Inc) \cup Permutations(Req)
=============================================================================
