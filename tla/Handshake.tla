----------------------------- MODULE Handshake -----------------------------
(***************************************************************************)
(* Two instances of this build that link to each other: what a handshake   *)
(* says, what the other side reads in it, and the credentials both end up  *)
(* with (protocol/peers/PeerAuth, Peer::parse_handshake_request).  Peers   *)
(* leaves the other instance free; here it runs the same code, and the     *)
(* network loses nothing.                                                  *)
(*                                                                         *)
(* A string is the sequence of the pieces it was put together from, so     *)
(* that <<>> is the empty one, and a text is the sequence of its lines.    *)
(* The locked sections of one callback are one step: their interleavings   *)
(* are those of Peers.                                                     *)
(***************************************************************************)
EXTENDS Sequences, FiniteSets, TLC

CONSTANTS
    Instance,   \* two instances; one stands for its domain and its key
    Null        \* no object

VARIABLES
    m_peers_out,    \* the Peer that an instance holds for the other one
    m_peers_in,     \* token -> Peer or, for a stub, Null
    pc,             \* new_peer of each instance
    peer,           \* the Peer object new_peer makes
    stage,          \* peer_handshake for the handshake of each instance
    received,       \* what arrived there: a Peer object, and the signature
    answer          \* the response to it

vars == <<m_peers_out, m_peers_in, pc, peer, stage, received, answer>>

Other(i) == CHOOSE j \in Instance : j # i

\* A fresh string.
get_token_string(i, use) == <<[by |-> i, use |-> use]>>

\* A signature verifies under the key of who made it, over what was signed.
sign(i, text) == [by |-> i, over |-> text]
verify(i, text, sig) == sig = sign(i, text)

Response(status, text, sig) == [status |-> status, text |-> text, sig |-> sig]
NoAnswer == Response(0, <<>>, Null)

Init ==
    /\ m_peers_out = [i \in Instance |-> Null]
    /\ m_peers_in = [i \in Instance |-> <<>>]
    /\ pc = [i \in Instance |-> "idle"]
    /\ peer = [i \in Instance |-> Null]
    /\ stage = [i \in Instance |-> "idle"]
    /\ received = [i \in Instance |-> Null]
    /\ answer = [i \in Instance |-> NoAnswer]

-----------------------------------------------------------------------------
(* What is said and read.                                                  *)

\* PeerAuth::handshake_start: the stub becomes the token that we send, and
\* the one that we accept stays empty.
handshake_start(i, key, stub) ==
    [sym_key |-> get_token_string(i, "half"), pubkey |-> key,
     send |-> stub, accept |-> <<>>]

handshake_request_body(i, auth) == <<<<i>>, auth.sym_key, auth.accept>>

\* A body with an empty line is no handshake.  The constructor of PeerAuth
\* passes its arguments on by position to one that takes them in another order.
parse_handshake_request(i, text) ==
    IF \E k \in DOMAIN text : text[k] = <<>> THEN Null
    ELSE [sym_key |-> text[3], pubkey |-> Null,
          send |-> get_token_string(i, "answer"), accept |-> text[2]]

\* The text whose signature peer_handshake checks.
signed_request(i, auth) == <<<<i>>, auth.sym_key, auth.send>>

\* The text whose signature handshake_parse_response checks: concat does not
\* format, so that the first argument stays part of it.
signed_response(token, half) == <<<<"{}">>, <<"{}">> \o token \o half>>

-----------------------------------------------------------------------------
(* The tables: add_peer, and its two failures.                             *)

Registered(i) == m_peers_out[i] # Null

CanAdd(i, auth) == ~Registered(i) /\ auth.accept \notin DOMAIN m_peers_in[i]

Without(table, token) == [t \in DOMAIN table \ {token} |-> table[t]]

-----------------------------------------------------------------------------
(* The side that asks: new_peer.                                           *)

\* A request of a mod to an instance that is no peer yet.
AskKey(i) ==
    /\ pc[i] = "idle" /\ ~Registered(i)
    /\ pc' = [pc EXCEPT ![i] = "getKey"]
    /\ UNCHANGED <<m_peers_out, m_peers_in, peer, stage, received, answer>>

\* with_key_cb: the stub is placed and the handshake is sent and arrives.
SendHandshake(i) ==
    LET stub == get_token_string(i, "stub")
        auth == handshake_start(i, Other(i), stub)
        text == handshake_request_body(i, auth)
    IN  /\ pc[i] = "getKey"
        /\ pc' = [pc EXCEPT ![i] = "posted"]
        /\ m_peers_in' = [m_peers_in EXCEPT ![i] = @ @@ (stub :> Null)]
        /\ peer' = [peer EXCEPT ![i] = auth]
        /\ stage' = [stage EXCEPT ![i] = "arrived"]
        /\ received' = [received EXCEPT ![i] = [text |-> text, sig |-> sign(i, text)]]
        /\ UNCHANGED <<m_peers_out, answer>>

\* handshake_cb.  add_peer fills both tables, and the section after it takes
\* its own entry for a duplicate and erases the token.
HandshakeAnswered(i) ==
    LET token == answer[i].text[1]
        half == answer[i].text[2]
        auth == [peer[i] EXCEPT !.send = token, !.sym_key = @ \o half]
    IN  /\ pc[i] = "posted" /\ answer[i].status # 0
        /\ pc' = [pc EXCEPT ![i] = "failed"]
        /\ \/ /\ answer[i].status # 200
              /\ UNCHANGED <<m_peers_out, m_peers_in, peer>>
           \/ /\ answer[i].status = 200
              /\ peer' = [peer EXCEPT ![i] = auth]
              /\ IF ~verify(auth.pubkey, signed_response(token, half), answer[i].sig)
                 THEN /\ m_peers_in' = [m_peers_in EXCEPT ![i] = Without(@, auth.accept)]
                      /\ UNCHANGED m_peers_out
                 ELSE IF CanAdd(i, auth)
                 THEN /\ m_peers_out' = [m_peers_out EXCEPT ![i] = auth]
                      /\ UNCHANGED m_peers_in
                 ELSE UNCHANGED <<m_peers_out, m_peers_in>>
        /\ UNCHANGED <<stage, received, answer>>

-----------------------------------------------------------------------------
(* The side that is asked: peer_handshake on the other instance.           *)

Answer(i, response) ==
    /\ answer' = [answer EXCEPT ![i] = response]
    /\ stage' = [stage EXCEPT ![i] = "done"]

Receive(i) ==
    LET j == Other(i)
        auth == parse_handshake_request(j, received[i].text)
    IN  /\ stage[i] = "arrived"
        /\ IF auth = Null \/ Registered(j)
           THEN /\ Answer(i, Response(400, <<>>, Null))
                /\ UNCHANGED received
           ELSE /\ stage' = [stage EXCEPT ![i] = "fetching"]
                /\ received' = [received EXCEPT ![i] =
                                  [auth |-> auth, sig |-> @.sig]]
                /\ UNCHANGED answer
        /\ UNCHANGED <<m_peers_out, m_peers_in, pc, peer>>

\* with_pubkey_cb.  Fresh tokens do not collide here: a peer that cannot be
\* added is one whose domain is taken.
Verify(i) ==
    LET j == Other(i)
        half == get_token_string(j, "half")
        auth == [received[i].auth EXCEPT !.sym_key = @ \o half]
        text == <<auth.accept, half>>
    IN  /\ stage[i] = "fetching"
        /\ IF ~verify(i, signed_request(i, received[i].auth), received[i].sig)
           THEN /\ Answer(i, Response(401, <<>>, Null))
                /\ UNCHANGED <<m_peers_out, m_peers_in>>
           ELSE IF ~CanAdd(j, auth)
           THEN /\ Answer(i, Response(400, <<>>, Null))
                /\ UNCHANGED <<m_peers_out, m_peers_in>>
           ELSE /\ Answer(i, Response(200, text, sign(j, text)))
                /\ m_peers_out' = [m_peers_out EXCEPT ![j] = auth]
                /\ m_peers_in' = [m_peers_in EXCEPT ![j] = @ @@ (auth.accept :> auth)]
        /\ UNCHANGED <<pc, peer, received>>

-----------------------------------------------------------------------------

Next ==
    \E i \in Instance :
        AskKey(i) \/ SendHandshake(i) \/ HandshakeAnswered(i)
            \/ Receive(i) \/ Verify(i)

\* The network delivers and the handlers run; nobody has to ask.
Spec ==
    /\ Init /\ [][Next]_vars
    /\ \A i \in Instance :
          WF_vars(SendHandshake(i) \/ HandshakeAnswered(i) \/ Receive(i) \/ Verify(i))

\* Each holds the other, and would be recognised by the token that it sends.
Connected ==
    \A i \in Instance :
        /\ Registered(i)
        /\ \E t \in DOMAIN m_peers_in[Other(i)] :
              t = m_peers_out[i].send /\ m_peers_in[Other(i)][t] # Null

\* Instances connect when one makes a request to the other
\* (planning/protocol_documentation.md:12, Peers::request_peer).
RequestConnects ==
    (\E i \in Instance : pc[i] # "idle") ~> Connected
=============================================================================
