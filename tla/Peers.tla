------------------------------- MODULE Peers -------------------------------
(***************************************************************************)
(* The peer tables of one FIY instance (protocol/peers/Peers.cpp) and the  *)
(* two handlers that fill them: new_peer, which links to another instance, *)
(* and peer_handshake (protocol/Server/Router.cpp), which answers another  *)
(* instance's handshake.  Each lock-protected section of the code is one   *)
(* action; between two sections every other call may take a step.          *)
(*                                                                         *)
(* The other instance and the network are outside: what they answer is     *)
(* chosen freely, and so is the outcome of Crypto::SSL::verify.  The HTTP  *)
(* client ends a request with one of its two callbacks; the second call a  *)
(* plain connection may make (HttpClient.hpp:121) is left out here, and is *)
(* seen in Serving where a handshake is answered.                          *)
(***************************************************************************)
EXTENDS Integers

CONSTANTS
    Domain,     \* domains of other instances
    Token,      \* bearer tokens, the results of PeerAuth::get_token_string
    Blank,      \* the empty string: the token a PeerAuth{} accepts
    Out,        \* calls of Peers::new_peer; each creates one Peer object
    Inc,        \* handshake requests received; each creates one Peer object
    Null,       \* no entry, no value
    Stub,       \* an entry of m_peers_in that holds nullptr
    MaxTries,   \* max_tries in peer_handshake, 10 in the code
    Lifetime,   \* PeerAuth::SESSION_LIFETIME in ticks
    MaxTime     \* bound of the clock

Call == Out \cup Inc

ASSUME PeersAssumption ==
    /\ Blank \notin Token
    /\ Out \cap Inc = {}
    /\ Null \notin Call /\ Stub \notin Call /\ Null # Stub
    /\ Null \notin Domain /\ Null \notin Token /\ Null # Blank
    /\ MaxTries \in Nat /\ Lifetime \in Nat /\ MaxTime \in Nat

VARIABLES
    m_peers_out,    \* domain -> Peer
    m_peers_in,     \* token -> Peer, or Stub
    domain,         \* Peer::domain of the object a call created
    accept,         \* PeerAuth::bearer_token_we_accept
    linkTs,         \* PeerAuth::link_ts
    reserved,       \* the stub handshake_start was given by new_token_stub
    pc,             \* where the call stands
    tries,          \* max_tries of peer_handshake
    replies,        \* responses sent for a received handshake
    now             \* g_fiy->now()

tables == <<m_peers_out, m_peers_in>>
objects == <<domain, accept, linkTs, reserved>>
vars == <<m_peers_out, m_peers_in, domain, accept, linkTs, reserved,
          pc, tries, replies, now>>

Open == {"getKey", "posted", "parsed", "publish", "verify", "adding", "check"}
Closed == {"linked", "unlinked", "granted", "refused", "failed"}

\* Calls whose signature check has passed.
Verified == {p \in Call : pc[p] \in
    {"parsed", "publish", "linked", "unlinked",
     "adding", "check", "granted", "refused"}}

TypeOK ==
    /\ m_peers_out \in [Domain -> Call \cup {Null}]
    /\ m_peers_in \in [Token \cup {Blank} -> Call \cup {Null, Stub}]
    /\ domain \in [Call -> Domain \cup {Null}]
    /\ accept \in [Call -> Token \cup {Blank}]
    /\ linkTs \in [Call -> 0..MaxTime]
    /\ reserved \in [Out -> Token \cup {Null}]
    /\ pc \in [Call -> {"idle"} \cup Open \cup Closed]
    /\ tries \in [Inc -> 0..MaxTries]
    /\ replies \in [Inc -> 0..2]
    /\ now \in 0..MaxTime

Init ==
    /\ m_peers_out = [d \in Domain |-> Null]
    /\ m_peers_in = [t \in Token \cup {Blank} |-> Null]
    /\ domain = [p \in Call |-> Null]
    /\ accept = [p \in Call |-> Blank]
    /\ linkTs = [p \in Call |-> 0]
    /\ reserved = [c \in Out |-> Null]
    /\ pc = [p \in Call |-> "idle"]
    /\ tries = [s \in Inc |-> MaxTries]
    /\ replies = [s \in Inc |-> 0]
    /\ now = 0

Goto(p, from, to) == pc[p] = from /\ pc' = [pc EXCEPT ![p] = to]

-----------------------------------------------------------------------------
(* The tables.                                                             *)

IsPeer(e) == e \in Call

Expired(p) == now > linkTs[p] + Lifetime

\* Mutant: only the token table refuses a second entry.
CanAdd_TokenOnly(p) == m_peers_in[accept[p]] = Null

\* add_peer emplaces into both tables, or into neither.
CanAdd(p) == m_peers_out[domain[p]] = Null /\ m_peers_in[accept[p]] = Null

\* Mutant: the token is not stored.
AddPeer_DomainOnly(p) ==
    /\ m_peers_out' = [m_peers_out EXCEPT ![domain[p]] = p]
    /\ UNCHANGED m_peers_in

AddPeer(p) ==
    /\ m_peers_out' = [m_peers_out EXCEPT ![domain[p]] = p]
    /\ m_peers_in' = [m_peers_in EXCEPT ![accept[p]] = p]

EraseToken(t) == m_peers_in' = [m_peers_in EXCEPT ![t] = Null]

\* remove_peer: public, no caller in this repository.
RemovePeer(d) ==
    /\ IsPeer(m_peers_out[d])
    /\ EraseToken(accept[m_peers_out[d]])
    /\ m_peers_out' = [m_peers_out EXCEPT ![d] = Null]
    /\ UNCHANGED <<objects, pc, tries, replies, now>>

\* The token entries prune erases: stubs are kept.
Stale(t) == IsPeer(m_peers_in[t]) /\ Expired(m_peers_in[t])

\* Every half hour, from the thread the constructor starts.
Prune ==
    /\ \E t \in Token \cup {Blank} : Stale(t)
    /\ m_peers_in' = [t \in Token \cup {Blank} |->
                        IF Stale(t) THEN Null ELSE m_peers_in[t]]
    /\ m_peers_out' = [d \in Domain |->
                        IF \E t \in Token \cup {Blank} :
                              Stale(t) /\ domain[m_peers_in[t]] = d
                        THEN Null ELSE m_peers_out[d]]
    /\ UNCHANGED <<objects, pc, tries, replies, now>>

Tick ==
    /\ now < MaxTime
    /\ now' = now + 1
    /\ UNCHANGED <<tables, objects, pc, tries, replies>>

-----------------------------------------------------------------------------
(* new_peer: link to another instance.                                     *)

NewPeer(c, d) ==
    /\ Goto(c, "idle", "getKey")
    /\ domain' = [domain EXCEPT ![c] = d]
    /\ UNCHANGED <<tables, accept, linkTs, reserved, tries, replies, now>>

\* err_key_cb, or a status or body with_key_cb does not accept.
KeyFails(c) ==
    /\ Goto(c, "getKey", "failed")
    /\ UNCHANGED <<tables, objects, tries, replies, now>>

\* Mutant: a token whose entry holds nullptr counts as free.
FreeToken_NullEntry(t) == ~IsPeer(m_peers_in[t])

FreeToken(t) == m_peers_in[t] = Null

\* with_key_cb: new_token_stub draws tokens until one is free and stores the
\* stub; handshake_start keeps it as the token we send, not the one we accept.
StartHandshake(c, t) ==
    /\ FreeToken(t)
    /\ Goto(c, "getKey", "posted")
    /\ m_peers_in' = [m_peers_in EXCEPT ![t] = Stub]
    /\ reserved' = [reserved EXCEPT ![c] = t]
    /\ UNCHANGED <<m_peers_out, domain, accept, linkTs, tries, replies, now>>

\* handshake_cb with a status other than 200.
HandshakeRefused(c) ==
    /\ Goto(c, "posted", "failed")
    /\ UNCHANGED <<tables, objects, tries, replies, now>>

\* handshake_err_cb, or a response handshake_parse_response rejects.
HandshakeFails(c) ==
    /\ Goto(c, "posted", "failed")
    /\ EraseToken(accept[c])
    /\ UNCHANGED <<m_peers_out, objects, tries, replies, now>>

HandshakeParsed(c) ==
    /\ Goto(c, "posted", "parsed")
    /\ linkTs' = [linkTs EXCEPT ![c] = now]
    /\ UNCHANGED <<tables, domain, accept, reserved, tries, replies, now>>

HandshakeAdd(c) ==
    /\ \/ Goto(c, "parsed", "publish") /\ CanAdd(c) /\ AddPeer(c)
       \/ Goto(c, "parsed", "unlinked") /\ ~CanAdd(c) /\ UNCHANGED tables
    /\ UNCHANGED <<objects, tries, replies, now>>

\* Mutant: the domain's entry is assigned, not emplaced.
HandshakePublish_Assign(c) ==
    /\ Goto(c, "publish", "linked")
    /\ AddPeer(c)
    /\ UNCHANGED <<objects, tries, replies, now>>

\* The second locked section: store the token again, then emplace the domain,
\* and take the token back when the domain is already there.
HandshakePublish(c) ==
    /\ \/ /\ Goto(c, "publish", "linked")
          /\ m_peers_out[domain[c]] = Null
          /\ AddPeer(c)
       \/ /\ Goto(c, "publish", "unlinked")
          /\ m_peers_out[domain[c]] # Null
          /\ EraseToken(accept[c])
          /\ UNCHANGED m_peers_out
    /\ UNCHANGED <<objects, tries, replies, now>>

-----------------------------------------------------------------------------
(* peer_handshake: another instance asks to link.                          *)

Reply(s) == replies' = [replies EXCEPT ![s] = @ + 1]

\* Federation is off, or the body does not parse.
HandshakeRejected(s) ==
    /\ Goto(s, "idle", "failed")
    /\ Reply(s)
    /\ UNCHANGED <<tables, objects, tries, now>>

\* The new object accepts the sender's half of the secret as its token: the
\* PeerAuth constructor passes its arguments on in another order.
HandshakeReceived(s, d, t) ==
    /\ domain' = [domain EXCEPT ![s] = d]
    /\ accept' = [accept EXCEPT ![s] = t]
    /\ linkTs' = [linkTs EXCEPT ![s] = now]
    /\ \/ /\ m_peers_out[d] # Null
          /\ Goto(s, "idle", "failed")
          /\ Reply(s)
       \/ /\ m_peers_out[d] = Null
          /\ Goto(s, "idle", "getKey")
          /\ UNCHANGED replies
    /\ UNCHANGED <<tables, reserved, tries, now>>

\* err_key_cb.
SenderKeyFails(s) ==
    /\ Goto(s, "getKey", "failed")
    /\ Reply(s)
    /\ UNCHANGED <<tables, objects, tries, now>>

\* with_pubkey_cb: a status other than 200 is answered, and the handler goes on.
SenderKeyArrives(s) ==
    /\ Goto(s, "getKey", "verify")
    /\ UNCHANGED replies \/ Reply(s)
    /\ UNCHANGED <<tables, objects, tries, now>>

VerifySender(s) ==
    /\ \/ Goto(s, "verify", "failed") /\ Reply(s)
       \/ Goto(s, "verify", "adding") /\ UNCHANGED replies
    /\ UNCHANGED <<tables, objects, tries, now>>

\* Mutants: one try too many; tries are not counted.
TriesLeft_More(s) == tries[s] >= 0
CountTry_Not(s) == UNCHANGED tries

\* max_tries-- > 0
TriesLeft(s) == tries[s] > 0
CountTry(s) == tries' = [tries EXCEPT ![s] = @ - 1]

\* The condition of the loop: add_peer, then max_tries-- > 0.
TryAdd(s) ==
    /\ \/ /\ Goto(s, "adding", "granted")
          /\ CanAdd(s)
          /\ AddPeer(s)
          /\ Reply(s)
          /\ UNCHANGED tries
       \/ /\ Goto(s, "adding", "check")
          /\ ~CanAdd(s)
          /\ TriesLeft(s)
          /\ CountTry(s)
          /\ UNCHANGED <<tables, replies>>
       \/ /\ Goto(s, "adding", "granted")
          /\ ~CanAdd(s)
          /\ ~TriesLeft(s)
          /\ Reply(s)
          /\ UNCHANGED <<tables, tries>>
    /\ UNCHANGED <<objects, now>>

\* The body of the loop: another call may have linked the domain; else the
\* object gets another token.
CheckDuplicate(s) ==
    /\ \/ /\ Goto(s, "check", "refused")
          /\ m_peers_out[domain[s]] # Null
          /\ Reply(s)
          /\ UNCHANGED accept
       \/ /\ Goto(s, "check", "adding")
          /\ m_peers_out[domain[s]] = Null
          /\ \E t \in Token : accept' = [accept EXCEPT ![s] = t]
          /\ UNCHANGED replies
    /\ UNCHANGED <<tables, domain, linkTs, reserved, tries, now>>

-----------------------------------------------------------------------------

OutStep(c) ==
    \/ KeyFails(c)
    \/ \E t \in Token : StartHandshake(c, t)
    \/ HandshakeRefused(c)
    \/ HandshakeFails(c)
    \/ HandshakeParsed(c)
    \/ HandshakeAdd(c)
    \/ HandshakePublish(c)

IncStep(s) ==
    \/ SenderKeyFails(s)
    \/ SenderKeyArrives(s)
    \/ VerifySender(s)
    \/ TryAdd(s)
    \/ CheckDuplicate(s)

Environment ==
    \/ \E c \in Out, d \in Domain : NewPeer(c, d)
    \/ \E s \in Inc : HandshakeRejected(s)
    \/ \E s \in Inc, d \in Domain, t \in Token : HandshakeReceived(s, d, t)
    \/ \E d \in Domain : RemovePeer(d)
    \/ Tick

Next ==
    \/ Environment
    \/ Prune
    \/ \E c \in Out : OutStep(c)
    \/ \E s \in Inc : IncStep(s)

Spec == Init /\ [][Next]_vars

-----------------------------------------------------------------------------
(* Correctness.                                                            *)

\* A token that resolves to a Peer resolves to the one object registered for
\* that peer's domain, under the token that object accepts: get_peer_from_token
\* and get_peer_for_domain never name different objects for one instance, in
\* whatever order add_peer, the second locked section of handshake_cb,
\* prune and remove_peer of different calls fall.
TokenNamesLinkedPeer ==
    \A t \in Token \cup {Blank} : IsPeer(m_peers_in[t]) =>
        /\ accept[m_peers_in[t]] = t
        /\ m_peers_out[domain[m_peers_in[t]]] = m_peers_in[t]

\* While a handshake of ours is under way the token new_token_stub gave it is its
\* own (Peers.cpp:50): no other handshake under way has it, no peer is registered
\* under it, and neither prune, remove_peer nor the end of another handshake
\* frees it.
InFlight(c) == pc[c] \in {"posted", "parsed", "publish"}

ReservedInFlight ==
    \A c \in Out : InFlight(c) =>
        /\ m_peers_in[reserved[c]] = Stub
        /\ \A e \in Out \ {c} : InFlight(e) => reserved[e] # reserved[c]

\* Every new_peer call calls its callback, and every handshake received is
\* answered: no call is caught in the retry loop or left without an answer.
EveryCallEnds == \A p \in Call : pc[p] \in Open ~> pc[p] \in Closed

Directory == INSTANCE PeerDirectory WITH
    Peer <- Call,
    link <- m_peers_out,
    authenticated <- Verified,
    claim <- domain

\* The tables implement the directory: whatever the interleaving, a domain is
\* linked only to an object whose handshake was verified for that domain, and
\* a link is dropped before another takes its place.
ImplementsDirectory == Directory!Spec

-----------------------------------------------------------------------------
(* What the repository says and the code does not do.                      *)

\* Peers.cpp:43 of the token of new_token_stub: "remove token if handshake fails",
\* and Peers.cpp:184 where one has failed: "Remove peer stub from cache".
StubRemovedOnFailure ==
    \A c \in Out : pc[c] = "failed" /\ reserved[c] # Null =>
        m_peers_in[reserved[c]] # Stub

\* protocol_documentation.md:27 of the answer to a handshake: it contains "a bearer
\* token that it will use to recognize instance A".
GrantRecognized ==
    [][\A s \in Inc : pc[s] # "granted" /\ pc'[s] = "granted" =>
          m_peers_in'[accept'[s]] = s]_vars

-----------------------------------------------------------------------------
(* The inductive invariant behind TokenNamesLinkedPeer, ReservedInFlight and *)
(* IncomingPeerReachable.                                                   *)

\* Stronger than ReservedInFlight and than what is wanted, but inductive: what is
\* erased at the end of a handshake is never its stub (StubRemovedOnFailure).
StubsAreKept ==
    \A c \in Out : reserved[c] # Null =>
        /\ m_peers_in[reserved[c]] = Stub
        /\ \A e \in Out \ {c} : reserved[e] # reserved[c]

\* A handshake under way has been given a token.
InFlightHasToken == \A c \in Out : InFlight(c) => reserved[c] \in Token

\* An instance that linked to us stays reachable by the token we gave it for as
\* long as its domain is linked: no failing handshake, second locked section or
\* prune of another call takes the token alone.
IncomingPeerReachable ==
    \A d \in Domain : m_peers_out[d] \in Inc =>
        m_peers_in[accept[m_peers_out[d]]] = m_peers_out[d]

\* Calls that add_peer has put into the tables at some time.
Placed == {"publish", "linked", "unlinked", "granted"}

OutEntries ==
    \A d \in Domain : IsPeer(m_peers_out[d]) =>
        /\ domain[m_peers_out[d]] = d
        /\ pc[m_peers_out[d]] \in Placed

InEntries ==
    \A t \in Token \cup {Blank} : IsPeer(m_peers_in[t]) =>
        pc[m_peers_in[t]] \in Placed

KnownDomain ==
    \A p \in Call :
        /\ pc[p] = "idle" => domain[p] = Null
        /\ pc[p] \notin {"idle", "failed"} => domain[p] \in Domain

OutgoingAcceptsBlank == \A c \in Out : accept[c] = Blank

\* A peer that came to us never waits for the empty token.
IncomingAcceptsToken ==
    \A s \in Inc : pc[s] \notin {"idle", "failed"} => accept[s] \in Token

ReplyCount ==
    \A s \in Inc :
        /\ pc[s] \in {"idle", "getKey"} => replies[s] = 0
        /\ pc[s] \in {"verify", "adding", "check"} => replies[s] \in 0..1

IInv ==
    /\ TypeOK
    /\ OutEntries
    /\ InEntries
    /\ TokenNamesLinkedPeer
    /\ IncomingPeerReachable
    /\ StubsAreKept
    /\ InFlightHasToken
    /\ KnownDomain
    /\ OutgoingAcceptsBlank
    /\ IncomingAcceptsToken
    /\ ReplyCount
=============================================================================
