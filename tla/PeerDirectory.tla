--------------------------- MODULE PeerDirectory ---------------------------
(***************************************************************************)
(* What the peer tables promise the rest of the server: a domain is linked *)
(* to at most one peer, only to a peer that was authenticated for that     *)
(* domain, and a link is never replaced, only dropped.                     *)
(***************************************************************************)
CONSTANTS Domain, Peer, Null

VARIABLES
    link,           \* domain -> the peer get_peer_for_domain returns
    authenticated,  \* peers whose handshake was verified
    claim           \* the domain a peer says it is

Init ==
    /\ link = [d \in Domain |-> Null]
    /\ authenticated = {}
    /\ claim = [p \in Peer |-> Null]

\* A peer says once which domain it is, before it is authenticated.
Claim(p, d) ==
    /\ claim[p] = Null
    /\ p \notin authenticated
    /\ claim' = [claim EXCEPT ![p] = d]
    /\ UNCHANGED <<link, authenticated>>

Authenticate(p) ==
    /\ authenticated' = authenticated \cup {p}
    /\ UNCHANGED <<link, claim>>

Link(p, d) ==
    /\ p \in authenticated
    /\ claim[p] = d
    /\ link[d] = Null
    /\ link' = [link EXCEPT ![d] = p]
    /\ UNCHANGED <<authenticated, claim>>

Unlink(D) ==
    /\ link' = [d \in Domain |-> IF d \in D THEN Null ELSE link[d]]
    /\ UNCHANGED <<authenticated, claim>>

Next ==
    \/ \E p \in Peer, d \in Domain : Claim(p, d) \/ Link(p, d)
    \/ \E p \in Peer : Authenticate(p)
    \/ \E D \in SUBSET Domain : Unlink(D)

dirVars == <<link, authenticated, claim>>

Spec == Init /\ [][Next]_dirVars
=============================================================================
