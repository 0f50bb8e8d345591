---------------------------- MODULE PeersProofs -----------------------------
(***************************************************************************)
(* Safety of the peer tables for every number of calls, domains and tokens,*)
(* and where requests of mods are sent, for every number of requests too.  *)
(***************************************************************************)
EXTENDS PeerRequests, TLAPS

USE DEF Call, IsPeer

\* Initially both tables are empty and no call has started.
LEMMA InitIInv == Init => IInv
  BY PeersAssumption DEF Init, IInv, TypeOK, OutEntries, InEntries,
     TokenNamesLinkedPeer, IncomingPeerReachable, StubsAreKept,
     InFlightHasToken, InFlight,
     KnownDomain, OutgoingAcceptsBlank, IncomingAcceptsToken, ReplyCount,
     Open, Closed, Placed

\* Every action keeps the variables in their types.
LEMMA StepTypeOK == IInv /\ [Next]_vars => TypeOK'
<1> SUFFICES ASSUME IInv, [Next]_vars PROVE TypeOK'
  OBVIOUS
<1> USE PeersAssumption DEF IInv, TypeOK, Open, Closed, Goto, tables, objects
<1>1. ASSUME NEW c \in Out, NEW d \in Domain, NewPeer(c, d) PROVE TypeOK'
  BY <1>1 DEF NewPeer
<1>2. ASSUME NEW s \in Inc, HandshakeRejected(s) PROVE TypeOK'
  BY <1>2 DEF HandshakeRejected, Reply, ReplyCount
<1>3. ASSUME NEW s \in Inc, NEW d \in Domain, NEW t \in Token,
             HandshakeReceived(s, d, t)
      PROVE TypeOK'
  BY <1>3 DEF HandshakeReceived, Reply, ReplyCount
<1>4. ASSUME NEW d \in Domain, RemovePeer(d) PROVE TypeOK'
  BY <1>4 DEF RemovePeer, EraseToken
<1>5. CASE Tick
  BY <1>5 DEF Tick
<1>6. CASE Prune
  BY <1>6 DEF Prune
<1>7. ASSUME NEW c \in Out, OutStep(c) PROVE TypeOK'
  <2>1. CASE KeyFails(c)
    BY <2>1 DEF KeyFails
  <2>2. ASSUME NEW t \in Token, StartHandshake(c, t) PROVE TypeOK'
    BY <2>2 DEF StartHandshake
  <2>3. CASE HandshakeRefused(c)
    BY <2>3 DEF HandshakeRefused
  <2>4. CASE HandshakeFails(c)
    BY <2>4 DEF HandshakeFails, EraseToken
  <2>5. CASE HandshakeParsed(c)
    BY <2>5 DEF HandshakeParsed
  <2>6. CASE HandshakeAdd(c)
    BY <2>6 DEF HandshakeAdd, AddPeer
  <2>7. CASE HandshakePublish(c)
    BY <2>7 DEF HandshakePublish, AddPeer, EraseToken
  <2> QED BY <1>7, <2>1, <2>2, <2>3, <2>4, <2>5, <2>6, <2>7 DEF OutStep
<1>8. ASSUME NEW s \in Inc, IncStep(s) PROVE TypeOK'
  <2>1. CASE SenderKeyFails(s)
    BY <2>1 DEF SenderKeyFails, Reply, ReplyCount
  <2>2. CASE SenderKeyArrives(s)
    BY <2>2 DEF SenderKeyArrives, Reply, ReplyCount
  <2>3. CASE VerifySender(s)
    BY <2>3 DEF VerifySender, Reply, ReplyCount
  <2>4. CASE TryAdd(s)
    BY <2>4 DEF TryAdd, AddPeer, TriesLeft, CountTry, Reply, ReplyCount
  <2>5. CASE CheckDuplicate(s)
    BY <2>5 DEF CheckDuplicate, Reply, ReplyCount
  <2> QED BY <1>8, <2>1, <2>2, <2>3, <2>4, <2>5 DEF IncStep
<1>9. CASE UNCHANGED vars
  BY <1>9 DEF vars
<1> QED
  BY <1>1, <1>2, <1>3, <1>4, <1>5, <1>6, <1>7, <1>8, <1>9
  DEF Next, Environment

\* The facts about a single call: where it stands fixes what is known of its
\* object and how often it has been answered.
CallInv ==
    /\ InFlightHasToken
    /\ KnownDomain
    /\ OutgoingAcceptsBlank
    /\ IncomingAcceptsToken
    /\ ReplyCount

\* Every step keeps what is known of the calls.
LEMMA StepCallInv == IInv /\ [Next]_vars => CallInv'
<1> SUFFICES ASSUME IInv, [Next]_vars PROVE CallInv'
  OBVIOUS
<1> USE PeersAssumption
    DEF IInv, TypeOK, CallInv, InFlightHasToken, InFlight, KnownDomain,
        OutgoingAcceptsBlank, IncomingAcceptsToken, ReplyCount, Open, Closed, Goto, tables, objects
<1>1. ASSUME NEW c \in Out, NEW d \in Domain, NewPeer(c, d) PROVE CallInv'
  BY <1>1 DEF NewPeer
<1>2. ASSUME NEW s \in Inc, HandshakeRejected(s) PROVE CallInv'
  BY <1>2 DEF HandshakeRejected, Reply
<1>3. ASSUME NEW s \in Inc, NEW d \in Domain, NEW t \in Token,
             HandshakeReceived(s, d, t)
      PROVE CallInv'
  BY <1>3 DEF HandshakeReceived, Reply
<1>4. ASSUME NEW d \in Domain, RemovePeer(d) PROVE CallInv'
  BY <1>4 DEF RemovePeer
<1>5. CASE Tick
  BY <1>5 DEF Tick
<1>6. CASE Prune
  BY <1>6 DEF Prune
<1>7. ASSUME NEW c \in Out, OutStep(c) PROVE CallInv'
  BY <1>7 DEF OutStep, KeyFails, StartHandshake, HandshakeRefused,
              HandshakeFails, HandshakeParsed, HandshakeAdd, HandshakePublish
<1>8. ASSUME NEW s \in Inc, IncStep(s) PROVE CallInv'
  <2>1. CASE SenderKeyFails(s)
    BY <2>1 DEF SenderKeyFails, Reply
  <2>2. CASE SenderKeyArrives(s)
    BY <2>2 DEF SenderKeyArrives, Reply
  <2>3. CASE VerifySender(s)
    BY <2>3 DEF VerifySender, Reply
  <2>4. CASE TryAdd(s)
    BY <2>4 DEF TryAdd, Reply
  <2>5. CASE CheckDuplicate(s)
    BY <2>5 DEF CheckDuplicate, Reply
  <2> QED BY <1>8, <2>1, <2>2, <2>3, <2>4, <2>5 DEF IncStep
<1>9. CASE UNCHANGED vars
  BY <1>9 DEF vars
<1> QED
  BY <1>1, <1>2, <1>3, <1>4, <1>5, <1>6, <1>7, <1>8, <1>9
  DEF Next, Environment

-----------------------------------------------------------------------------
(* The tables.  Four changes of the tables occur: none, add_peer of an object *)
(* that is in neither, the erasure of a token, and prune.                   *)

TablesInv ==
    /\ OutEntries
    /\ InEntries
    /\ TokenNamesLinkedPeer
    /\ IncomingPeerReachable
    /\ StubsAreKept

\* A step that leaves the tables alone, and the objects add_peer has seen.
LEMMA TablesKept ==
    ASSUME IInv, UNCHANGED <<tables, reserved>>,
           \A p \in Call : pc[p] \in Placed =>
               pc'[p] \in Placed /\ domain'[p] = domain[p] /\ accept'[p] = accept[p]
    PROVE  TablesInv'
  BY DEF IInv, TypeOK, TablesInv, OutEntries, InEntries, TokenNamesLinkedPeer,
         IncomingPeerReachable, StubsAreKept, tables

\* add_peer, when both tables are free, or the second locked section of
\* handshake_cb, which may take over the empty token.
LEMMA PeerAdded ==
    ASSUME IInv, NEW p \in Call, NEW from, NEW to \in Placed,
           Goto(p, from, to), from \notin {"idle", "failed"},
           AddPeer(p), UNCHANGED objects,
           m_peers_out[domain[p]] = Null,
           m_peers_in[accept[p]] = Null \/ p \in Out
    PROVE  TablesInv'
<1> USE PeersAssumption
    DEF IInv, TypeOK, KnownDomain, OutgoingAcceptsBlank, AddPeer, objects,
        TablesInv, Goto
<1>1. domain[p] \in Domain /\ accept[p] \in Token \cup {Blank}
  OBVIOUS
<1>2. OutEntries'
  BY <1>1 DEF OutEntries
<1>3. InEntries'
  BY <1>1 DEF InEntries
<1>4. TokenNamesLinkedPeer'
  BY <1>1 DEF TokenNamesLinkedPeer, InEntries, OutEntries
<1>5. IncomingPeerReachable'
  BY <1>1 DEF IncomingPeerReachable, OutEntries, IncomingAcceptsToken, Placed
<1>6. StubsAreKept'
  BY <1>1 DEF StubsAreKept
<1> QED BY <1>2, <1>3, <1>4, <1>5, <1>6

\* Every step keeps what is known of the tables.
LEMMA StepTablesInv == IInv /\ [Next]_vars => TablesInv'
<1> SUFFICES ASSUME IInv, [Next]_vars PROVE TablesInv'
  OBVIOUS
<1> USE PeersAssumption
    DEF Goto, tables, objects, Placed
<1>1. ASSUME NEW c \in Out, NEW d \in Domain, NewPeer(c, d) PROVE TablesInv'
  BY <1>1, TablesKept DEF NewPeer, IInv, TypeOK
<1>2. ASSUME NEW s \in Inc, HandshakeRejected(s) PROVE TablesInv'
  BY <1>2, TablesKept DEF HandshakeRejected, IInv, TypeOK
<1>3. ASSUME NEW s \in Inc, NEW d \in Domain, NEW t \in Token,
             HandshakeReceived(s, d, t)
      PROVE TablesInv'
  BY <1>3, TablesKept DEF HandshakeReceived, IInv, TypeOK
<1>4. ASSUME NEW d \in Domain, RemovePeer(d) PROVE TablesInv'
  <2> DEFINE q == m_peers_out[d]
  <2>1. q \in Call /\ domain[q] = d /\ accept[q] \in Token \cup {Blank}
    BY <1>4 DEF RemovePeer, IInv, TypeOK, OutEntries
  <2> USE <1>4, <2>1 DEF RemovePeer, EraseToken, IInv, TypeOK
  <2>2. OutEntries' /\ InEntries'
    BY DEF OutEntries, InEntries
  <2>3. TokenNamesLinkedPeer'
    BY DEF TokenNamesLinkedPeer, InEntries, KnownDomain
  <2>4. IncomingPeerReachable'
    BY DEF IncomingPeerReachable, OutEntries, IncomingAcceptsToken,
           OutgoingAcceptsBlank
  <2>5. StubsAreKept'
    BY DEF StubsAreKept, IncomingPeerReachable, OutgoingAcceptsBlank
  <2> QED BY <2>2, <2>3, <2>4, <2>5 DEF TablesInv
<1>5. CASE Tick
  BY <1>5, TablesKept DEF Tick
<1>6. CASE Prune
  <2>1. /\ m_peers_in' = [t \in Token \cup {Blank} |->
                            IF Stale(t) THEN Null ELSE m_peers_in[t]]
        /\ m_peers_out' = [d \in Domain |->
                             IF \E t \in Token \cup {Blank} :
                                   Stale(t) /\ domain[m_peers_in[t]] = d
                             THEN Null ELSE m_peers_out[d]]
        /\ UNCHANGED <<domain, accept, reserved, pc>>
    BY <1>6 DEF Prune
  <2>2. /\ OutEntries /\ InEntries /\ TokenNamesLinkedPeer
        /\ IncomingPeerReachable /\ StubsAreKept
        /\ KnownDomain
    BY DEF IInv
  <2>3. /\ m_peers_in \in [Token \cup {Blank} -> Call \cup {Null, Stub}]
        /\ m_peers_out \in [Domain -> Call \cup {Null}]
        /\ accept \in [Call -> Token \cup {Blank}]
        /\ reserved \in [Out -> Token \cup {Null}]
    BY DEF IInv, TypeOK
  <2>4. ASSUME NEW t \in Token \cup {Blank}, IsPeer(m_peers_in'[t])
        PROVE  ~Stale(t) /\ m_peers_in'[t] = m_peers_in[t]
    BY <2>1, <2>4 DEF IsPeer
  <2>5. ASSUME NEW d \in Domain, IsPeer(m_peers_out'[d])
        PROVE  m_peers_out'[d] = m_peers_out[d]
    BY <2>1, <2>5 DEF IsPeer
  <2>6. OutEntries'
    BY <2>1, <2>2, <2>5 DEF OutEntries, IsPeer
  <2>7. InEntries'
    BY <2>1, <2>2, <2>4 DEF InEntries, IsPeer
  <2>8. TokenNamesLinkedPeer'
    <3> SUFFICES ASSUME NEW t \in Token \cup {Blank}, IsPeer(m_peers_in'[t])
                 PROVE  /\ accept'[m_peers_in'[t]] = t
                        /\ m_peers_out'[domain'[m_peers_in'[t]]] = m_peers_in'[t]
      BY DEF TokenNamesLinkedPeer, IsPeer
    <3> DEFINE p == m_peers_in[t]
    <3>1. ~Stale(t) /\ m_peers_in'[t] = p /\ IsPeer(p)
      BY <2>4 DEF IsPeer
    <3>2. accept[p] = t /\ m_peers_out[domain[p]] = p
      BY <2>2, <3>1 DEF TokenNamesLinkedPeer
    <3>3. pc[p] \in Placed /\ p \in Call
      BY <2>2, <3>1 DEF InEntries, IsPeer
    <3>4. domain[p] \in Domain
      BY <2>2, <3>3 DEF KnownDomain
    <3>5. ASSUME NEW u \in Token \cup {Blank}, Stale(u),
                 domain[m_peers_in[u]] = domain[p]
          PROVE  FALSE
      <4>1. m_peers_in[u] = p /\ u = t
        BY <2>2, <3>2, <3>5 DEF TokenNamesLinkedPeer, Stale
      <4> QED BY <4>1, <3>1, <3>5
    <3>6. m_peers_out'[domain[p]] = m_peers_out[domain[p]]
      BY <2>1, <3>4, <3>5
    <3> QED BY <2>1, <3>1, <3>2, <3>6
  <2>9. IncomingPeerReachable'
    <3> SUFFICES ASSUME NEW d \in Domain, m_peers_out'[d] \in Inc
                 PROVE  m_peers_in'[accept[m_peers_out'[d]]] = m_peers_out'[d]
      BY <2>1 DEF IncomingPeerReachable
    <3> DEFINE p == m_peers_out[d]
    <3>1. m_peers_out'[d] = p /\ p \in Inc
      BY <2>5 DEF IsPeer, Call
    <3>2. m_peers_in[accept[p]] = p /\ accept[p] \in Token \cup {Blank}
      BY <2>2, <2>3, <3>1 DEF IncomingPeerReachable, Call
    <3>3. domain[p] = d
      BY <2>2, <3>1 DEF OutEntries, IsPeer, Call
    <3>4. ~Stale(accept[p])
      <4> SUFFICES ASSUME Stale(accept[p]) PROVE FALSE
        OBVIOUS
      <4>1. m_peers_out'[d] = Null
        BY <2>1, <3>2, <3>3
      <4> QED BY <4>1, <3>1 DEF Call
    <3> QED BY <2>1, <3>1, <3>2, <3>4
  <2>10. StubsAreKept'
    BY <2>1, <2>2, <2>3 DEF StubsAreKept, Stale, IsPeer
  <2> QED BY <2>6, <2>7, <2>8, <2>9, <2>10 DEF TablesInv
<1>7. ASSUME NEW c \in Out, OutStep(c) PROVE TablesInv'
  <2>1. CASE KeyFails(c)
    BY <2>1, TablesKept DEF KeyFails, IInv, TypeOK
  <2>2. ASSUME NEW t \in Token, StartHandshake(c, t) PROVE TablesInv'
    BY <2>2 DEF StartHandshake, FreeToken, IInv, TypeOK, TablesInv, OutEntries,
       InEntries, TokenNamesLinkedPeer, IncomingPeerReachable, StubsAreKept
  <2>3. CASE HandshakeRefused(c)
    BY <2>3, TablesKept DEF HandshakeRefused, IInv, TypeOK
  <2>4. CASE HandshakeFails(c)
    BY <2>4 DEF HandshakeFails, EraseToken, IInv, TypeOK, TablesInv, OutEntries,
       InEntries, TokenNamesLinkedPeer, IncomingPeerReachable, StubsAreKept,
       OutgoingAcceptsBlank, IncomingAcceptsToken
  <2>5. CASE HandshakeParsed(c)
    BY <2>5, TablesKept DEF HandshakeParsed, IInv, TypeOK
  <2>6. CASE HandshakeAdd(c)
    <3>1. CASE Goto(c, "parsed", "publish") /\ CanAdd(c) /\ AddPeer(c)
      BY <2>6, <3>1, PeerAdded DEF HandshakeAdd, CanAdd
    <3>2. CASE Goto(c, "parsed", "unlinked") /\ UNCHANGED tables
      BY <2>6, <3>2, TablesKept DEF HandshakeAdd, IInv, TypeOK
    <3> QED BY <2>6, <3>1, <3>2 DEF HandshakeAdd
  <2>7. CASE HandshakePublish(c)
    <3>1. CASE Goto(c, "publish", "linked") /\ AddPeer(c)
      BY <2>7, <3>1, PeerAdded DEF HandshakePublish, IInv, TypeOK
    <3>2. CASE Goto(c, "publish", "unlinked") /\ EraseToken(accept[c])
      BY <2>7, <3>2 DEF HandshakePublish, EraseToken, IInv, TypeOK, TablesInv,
         OutEntries, InEntries, TokenNamesLinkedPeer, IncomingPeerReachable,
         StubsAreKept, OutgoingAcceptsBlank, IncomingAcceptsToken
    <3> QED BY <2>7, <3>1, <3>2 DEF HandshakePublish
  <2> QED BY <1>7, <2>1, <2>2, <2>3, <2>4, <2>5, <2>6, <2>7 DEF OutStep
<1>8. ASSUME NEW s \in Inc, IncStep(s) PROVE TablesInv'
  <2>1. CASE SenderKeyFails(s)
    BY <2>1, TablesKept DEF SenderKeyFails, IInv, TypeOK
  <2>2. CASE SenderKeyArrives(s)
    BY <2>2, TablesKept DEF SenderKeyArrives, IInv, TypeOK
  <2>3. CASE VerifySender(s)
    BY <2>3, TablesKept DEF VerifySender, IInv, TypeOK
  <2>4. CASE TryAdd(s)
    <3>1. CASE Goto(s, "adding", "granted") /\ CanAdd(s) /\ AddPeer(s)
      BY <2>4, <3>1, PeerAdded DEF TryAdd, CanAdd, IInv, TypeOK
    <3>2. CASE UNCHANGED tables
      BY <2>4, <3>2, TablesKept DEF TryAdd, IInv, TypeOK
    <3> QED BY <2>4, <3>1, <3>2 DEF TryAdd
  <2>5. CASE CheckDuplicate(s)
    BY <2>5, TablesKept DEF CheckDuplicate, IInv, TypeOK
  <2> QED BY <1>8, <2>1, <2>2, <2>3, <2>4, <2>5 DEF IncStep
<1>9. CASE UNCHANGED vars
  BY <1>9, TablesKept DEF vars
<1> QED
  BY <1>1, <1>2, <1>3, <1>4, <1>5, <1>6, <1>7, <1>8, <1>9
  DEF Next, Environment

-----------------------------------------------------------------------------
(* The theorems.                                                           *)

\* The inductive invariant holds in every reachable state.
LEMMA Invariance == Spec => []IInv
<1>1. IInv /\ [Next]_vars => IInv'
  BY StepTypeOK, StepCallInv, StepTablesInv DEF IInv, CallInv, TablesInv
<1> QED BY InitIInv, <1>1, PTL DEF Spec

\* Every variable of the tables and the calls stays in its type; in particular
\* max_tries never goes below zero and no handshake is answered a third time.
THEOREM TypeCorrect == Spec => []TypeOK
<1>1. IInv => TypeOK
  BY DEF IInv
<1> QED BY Invariance, <1>1, PTL

\* A bearer token that names a peer names the one registered for its domain,
\* under any interleaving of any number of handshakes with prune.
THEOREM TokensNameLinkedPeers == Spec => []TokenNamesLinkedPeer
<1>1. IInv => TokenNamesLinkedPeer
  BY DEF IInv
<1> QED BY Invariance, <1>1, PTL

\* The token of a handshake under way is its own, however many are under way.
THEOREM StubsStayReserved == Spec => []ReservedInFlight
<1>1. IInv => ReservedInFlight
  BY PeersAssumption
  DEF IInv, TypeOK, StubsAreKept, InFlightHasToken, ReservedInFlight
<1> QED BY Invariance, <1>1, PTL

\* A linked peer that came to us can always present its token.
THEOREM IncomingPeersReachable == Spec => []IncomingPeerReachable
<1>1. IInv => IncomingPeerReachable
  BY DEF IInv
<1> QED BY Invariance, <1>1, PTL

-----------------------------------------------------------------------------
(* The tables implement PeerDirectory.                                     *)

\* A step of the handlers that keeps link and claim, and authenticates at most
\* the call that moved.
LEMMA DirectoryKept ==
    ASSUME TypeOK, NEW p \in Call, NEW from, NEW to, Goto(p, from, to),
           p \in Verified => p \in Verified',
           UNCHANGED <<m_peers_out, domain>>
    PROVE  [Directory!Next]_Directory!dirVars
<1>1. \A q \in Call \ {p} : pc'[q] = pc[q]
  BY DEF TypeOK, Goto
<1>2. Verified' = Verified \/ Verified' = Verified \cup {p}
  BY <1>1 DEF Verified
<1>3. CASE Verified' = Verified
  BY <1>3 DEF Directory!dirVars
<1>4. CASE Verified' = Verified \cup {p}
  BY <1>4 DEF Directory!Next, Directory!Authenticate
<1> QED BY <1>2, <1>3, <1>4

\* An object's add_peer is one Link step.
LEMMA DirectoryLinks ==
    ASSUME TypeOK, KnownDomain, NEW p \in Call, NEW from, NEW to,
           Goto(p, from, to), p \in Verified, p \in Verified',
           m_peers_out[domain[p]] = Null, AddPeer(p), UNCHANGED domain
    PROVE  [Directory!Next]_Directory!dirVars
<1>1. \A q \in Call \ {p} : pc'[q] = pc[q]
  BY DEF TypeOK, Goto
<1>2. Verified' = Verified
  BY <1>1 DEF Verified
<1>3. domain[p] \in Domain
  BY DEF KnownDomain, Verified
<1>4. Directory!Link(p, domain[p])
  BY <1>2, <1>3 DEF Directory!Link, AddPeer
<1> QED BY <1>3, <1>4 DEF Directory!Next

\* Every step of the tables is one of the directory, or none.
LEMMA DirectoryStep == IInv /\ [Next]_vars => [Directory!Next]_Directory!dirVars
<1> SUFFICES ASSUME IInv, [Next]_vars
             PROVE  [Directory!Next]_Directory!dirVars
  OBVIOUS
<1> USE PeersAssumption DEF IInv
<1>0. ASSUME NEW p \in Call, NEW d \in Domain, pc[p] = "idle",
             Verified' = Verified, UNCHANGED m_peers_out,
             domain' = [domain EXCEPT ![p] = d]
      PROVE  [Directory!Next]_Directory!dirVars
  BY <1>0 DEF Directory!Next, Directory!Claim, Verified, KnownDomain
<1>1. ASSUME NEW c \in Out, NEW d \in Domain, NewPeer(c, d)
      PROVE  [Directory!Next]_Directory!dirVars
  BY <1>1, <1>0 DEF NewPeer, Goto, Verified, TypeOK, tables
<1>2. ASSUME NEW s \in Inc, HandshakeRejected(s)
      PROVE  [Directory!Next]_Directory!dirVars
  BY <1>2, DirectoryKept DEF HandshakeRejected, Verified, Goto, tables, objects
<1>3. ASSUME NEW s \in Inc, NEW d \in Domain, NEW t \in Token,
             HandshakeReceived(s, d, t)
      PROVE  [Directory!Next]_Directory!dirVars
  BY <1>3, <1>0 DEF HandshakeReceived, Goto, Verified, TypeOK, tables
<1>4. ASSUME NEW d \in Domain, RemovePeer(d)
      PROVE  [Directory!Next]_Directory!dirVars
  <2>1. Directory!Unlink({d})
    BY <1>4 DEF RemovePeer, Directory!Unlink, TypeOK, Verified, objects
  <2> QED BY <2>1 DEF Directory!Next
<1>5. CASE Tick
  BY <1>5 DEF Tick, Directory!dirVars, Verified, tables, objects
<1>6. CASE Prune
  <2> DEFINE D == {d \in Domain : \E t \in Token \cup {Blank} :
                      Stale(t) /\ domain[m_peers_in[t]] = d}
  <2>1. Directory!Unlink(D)
    BY <1>6 DEF Prune, Directory!Unlink, Verified, objects
  <2> QED BY <2>1 DEF Directory!Next
<1>7. ASSUME NEW c \in Out, OutStep(c)
      PROVE  [Directory!Next]_Directory!dirVars
  <2> USE DEF Goto, Verified, tables, objects, TypeOK
  <2>1. CASE KeyFails(c)
    BY <2>1, DirectoryKept DEF KeyFails
  <2>2. ASSUME NEW t \in Token, StartHandshake(c, t)
        PROVE  [Directory!Next]_Directory!dirVars
    BY <2>2, DirectoryKept DEF StartHandshake
  <2>3. CASE HandshakeRefused(c)
    BY <2>3, DirectoryKept DEF HandshakeRefused
  <2>4. CASE HandshakeFails(c)
    BY <2>4, DirectoryKept DEF HandshakeFails
  <2>5. CASE HandshakeParsed(c)
    BY <2>5, DirectoryKept DEF HandshakeParsed
  <2>6. CASE HandshakeAdd(c)
    <3>1. CASE Goto(c, "parsed", "publish") /\ CanAdd(c) /\ AddPeer(c)
      BY <2>6, <3>1, DirectoryLinks DEF HandshakeAdd, CanAdd
    <3>2. CASE Goto(c, "parsed", "unlinked") /\ UNCHANGED tables
      BY <2>6, <3>2, DirectoryKept DEF HandshakeAdd
    <3> QED BY <2>6, <3>1, <3>2 DEF HandshakeAdd
  <2>7. CASE HandshakePublish(c)
    <3>1. CASE Goto(c, "publish", "linked") /\ AddPeer(c)
      BY <2>7, <3>1, DirectoryLinks DEF HandshakePublish
    <3>2. CASE Goto(c, "publish", "unlinked") /\ UNCHANGED m_peers_out
      BY <2>7, <3>2, DirectoryKept DEF HandshakePublish
    <3> QED BY <2>7, <3>1, <3>2 DEF HandshakePublish
  <2> QED BY <1>7, <2>1, <2>2, <2>3, <2>4, <2>5, <2>6, <2>7 DEF OutStep
<1>8. ASSUME NEW s \in Inc, IncStep(s)
      PROVE  [Directory!Next]_Directory!dirVars
  <2> USE DEF Goto, Verified, tables, objects, TypeOK
  <2>1. CASE SenderKeyFails(s)
    BY <2>1, DirectoryKept DEF SenderKeyFails
  <2>2. CASE SenderKeyArrives(s)
    BY <2>2, DirectoryKept DEF SenderKeyArrives
  <2>3. CASE VerifySender(s)
    BY <2>3, DirectoryKept DEF VerifySender
  <2>4. CASE TryAdd(s)
    <3>1. CASE Goto(s, "adding", "granted") /\ CanAdd(s) /\ AddPeer(s)
      BY <2>4, <3>1, DirectoryLinks DEF TryAdd, CanAdd
    <3>2. CASE UNCHANGED tables
      BY <2>4, <3>2, DirectoryKept DEF TryAdd
    <3> QED BY <2>4, <3>1, <3>2 DEF TryAdd
  <2>5. CASE CheckDuplicate(s)
    BY <2>5, DirectoryKept DEF CheckDuplicate
  <2> QED BY <1>8, <2>1, <2>2, <2>3, <2>4, <2>5 DEF IncStep
<1>9. CASE UNCHANGED vars
  BY <1>9 DEF vars, Directory!dirVars, Verified
<1> QED
  BY <1>1, <1>2, <1>3, <1>4, <1>5, <1>6, <1>7, <1>8, <1>9
  DEF Next, Environment

\* The peer tables implement the directory the rest of the server relies on:
\* no interleaving links a domain to an object that was not verified for it, or
\* replaces a link.
THEOREM Refinement == Spec => ImplementsDirectory
<1>1. Init => Directory!Init
  BY DEF Init, Directory!Init, Verified
<1> QED
  BY <1>1, Invariance, DirectoryStep, PTL
  DEF Spec, ImplementsDirectory, Directory!Spec

-----------------------------------------------------------------------------
(***************************************************************************)
(* Requests of mods.  The invariant of the tables is the one above: every step*)
(* of PeerRequests is one of Peers, or leaves the tables alone.            *)
(***************************************************************************)

\* The new_peer call that runs for a request has started, for its domain.
LinkIsForWant ==
    \A r \in Req : state[r] = "linking" =>
        /\ link[r] \in Out
        /\ pc[link[r]] # "idle"
        /\ domain[link[r]] = want[r]

\* A request that was sent went to a peer verified for its domain.
SentIsVerified ==
    \A r \in Req : state[r] = "sent" =>
        /\ via[r] \in Verified
        /\ domain[via[r]] = want[r]
        /\ pc[via[r]] \in Placed

RequestsIInv ==
    /\ IInv
    /\ RequestsTypeOK
    /\ SentIsVerified
    /\ LinkIsForWant

\* A call that has started keeps its domain, and one that add_peer has put into
\* the tables does not go back behind its signature check.
LEMMA CallsKept ==
    ASSUME TypeOK, [Next]_vars, NEW p \in Call, pc[p] # "idle"
    PROVE  /\ pc'[p] # "idle" /\ domain'[p] = domain[p]
           /\ pc[p] \in Placed => pc'[p] \in Placed
<1> DEFINE Kept == /\ pc'[p] # "idle" /\ domain'[p] = domain[p]
                   /\ pc[p] \in Placed => pc'[p] \in Placed
<1> USE DEF TypeOK, Goto, Placed, objects, tables
<1>1. CASE Environment
  BY <1>1 DEF Environment, NewPeer, HandshakeRejected, HandshakeReceived,
              RemovePeer, Tick
<1>2. CASE Prune
  BY <1>2 DEF Prune
<1>3. ASSUME NEW c \in Out, OutStep(c) PROVE Kept
  BY <1>3 DEF OutStep, KeyFails, StartHandshake, HandshakeRefused,
              HandshakeFails, HandshakeParsed, HandshakeAdd, HandshakePublish
<1>4. ASSUME NEW s \in Inc, IncStep(s) PROVE Kept
  BY <1>4 DEF IncStep, SenderKeyFails, SenderKeyArrives, VerifySender, TryAdd,
              CheckDuplicate
<1>5. CASE UNCHANGED vars
  BY <1>5 DEF vars
<1> QED BY <1>1, <1>2, <1>3, <1>4, <1>5 DEF Next

\* A peer that is in the tables, or once was, is verified.
LEMMA PlacedVerified ==
    ASSUME NEW p \in Call, pc[p] \in Placed PROVE p \in Verified
  BY DEF Placed, Verified

\* What a request or the server does is a step of the tables.
LEMMA StepOfTables == RequestsIInv /\ [RequestsNext]_allVars => [Next]_vars
<1> SUFFICES ASSUME RequestsIInv, [RequestsNext]_allVars PROVE [Next]_vars
  OBVIOUS
<1>1. ASSUME NEW r \in Req, NEW d \in Domain, LinkFor(r, d) PROVE Next
  BY <1>1 DEF LinkFor, Next, Environment
<1>2. CASE TableStep
  BY <1>2 DEF TableStep, Next, Environment
<1>3. ASSUME NEW r \in Req, RequestLocal(r) \/ ReplyArrives(r)
      PROVE  UNCHANGED vars
  BY <1>3 DEF RequestLocal, ReplyArrives
<1>4. ASSUME NEW r \in Req, LinkStep(r) PROVE Next
  <2>1. link[r] \in Out
    BY <1>4 DEF LinkStep, RequestsIInv, LinkIsForWant
  <2> QED BY <1>4, <2>1 DEF LinkStep, Next
<1>5. ASSUME NEW r \in Req, ReauthRequired(r) PROVE Next
  <2>1. via[r] \in Call /\ pc[via[r]] \in Placed
    BY <1>5 DEF ReauthRequired, RequestsIInv, SentIsVerified, Verified
  <2>2. domain[via[r]] \in Domain
    BY <2>1 DEF RequestsIInv, IInv, KnownDomain, Placed
  <2> QED BY <1>1, <1>5, <2>2 DEF ReauthRequired
<1>6. ASSUME NEW r \in Req, NEW d \in Domain, Request(r, d) PROVE [Next]_vars
  BY <1>1, <1>6 DEF Request
<1> QED BY <1>2, <1>3, <1>4, <1>5, <1>6 DEF RequestsNext, RequestStep, allVars

\* SentIsVerified and LinkIsForWant, of one request.
RequestOK(r) ==
    /\ state[r] = "sent" =>
          via[r] \in Call /\ domain[via[r]] = want[r] /\ pc[via[r]] \in Placed
    /\ state[r] = "linking" =>
          /\ link[r] \in Out
          /\ pc[link[r]] # "idle"
          /\ domain[link[r]] = want[r]

\* The two parts of the invariant, request by request.
LEMMA RequestsOK ==
    (SentIsVerified /\ LinkIsForWant) <=> \A r \in Req : RequestOK(r)
  BY PlacedVerified DEF SentIsVerified, LinkIsForWant, RequestOK, Verified

\* A request that a step does not touch stays as it should be.
LEMMA OtherKept ==
    ASSUME IInv, [Next]_vars, NEW r \in Req, RequestOK(r),
           state'[r] = state[r], via'[r] = via[r], link'[r] = link[r],
           want'[r] = want[r]
    PROVE  RequestOK(r)'
<1>1. CASE state[r] = "sent"
  <2>1. via[r] \in Call /\ pc[via[r]] \in Placed /\ pc[via[r]] # "idle"
    BY <1>1 DEF RequestOK, Placed
  <2> QED BY <1>1, <2>1, CallsKept DEF RequestOK, IInv
<1>2. CASE state[r] = "linking"
  BY <1>2, CallsKept DEF RequestOK, IInv, Call
<1> QED BY <1>1, <1>2 DEF RequestOK

\* A request that links has a call of its own domain.
LEMMA LinkedFor ==
    ASSUME IInv, NEW r \in Req, NEW d \in Domain, LinkFor(r, d)
    PROVE  /\ \E c \in Out : /\ link' = [link EXCEPT ![r] = c]
                             /\ pc'[c] # "idle" /\ domain'[c] = d
           /\ state' = [state EXCEPT ![r] = "linking"]
<1>1. PICK c \in Out : NewPeer(c, d) /\ link' = [link EXCEPT ![r] = c]
  BY DEF LinkFor
<1>2. pc'[c] # "idle" /\ domain'[c] = d
  BY <1>1 DEF NewPeer, Goto, IInv, TypeOK, Call
<1> QED BY <1>1, <1>2 DEF LinkFor, Enter

\* Every action leaves its own request, and so every other, as it should be.
LEMMA StepRequestsOK ==
    ASSUME RequestsIInv, RequestsNext
    PROVE  RequestsTypeOK' /\ \A r \in Req : RequestOK(r)'
<1>0. /\ IInv /\ [Next]_vars
      /\ RequestsTypeOK /\ \A r \in Req : RequestOK(r)
  BY StepOfTables, RequestsOK DEF RequestsIInv
<1> DEFINE Good == RequestsTypeOK' /\ \A r \in Req : RequestOK(r)'
<1>1. CASE TableStep
  BY <1>0, <1>1, OtherKept DEF TableStep, reqVars, RequestsTypeOK
<1>2. ASSUME NEW r \in Req, RequestLocal(r) \/ ReplyArrives(r) PROVE Good
  <2>1. RequestsTypeOK'
    BY <1>0, <1>2, RequestsAssumption
    DEF RequestLocal, ReplyArrives, Enter, Answer, RequestsTypeOK, Working
  <2>2. RequestOK(r)'
    BY <1>0, <1>2
    DEF RequestLocal, ReplyArrives, Enter, RequestOK, RequestsTypeOK
  <2>3. ASSUME NEW q \in Req, q # r PROVE RequestOK(q)'
    BY <1>0, <1>2, <2>3, OtherKept
    DEF RequestLocal, ReplyArrives, Enter, RequestsTypeOK
  <2> QED BY <2>1, <2>2, <2>3
<1>3. ASSUME NEW r \in Req, NEW d \in Domain, Request(r, d) PROVE Good
  <2>1. CASE /\ IsPeer(m_peers_out[d]) /\ SendTo(r, m_peers_out[d])
             /\ UNCHANGED <<vars, link>>
    <3>1. /\ m_peers_out[d] \in Call /\ domain[m_peers_out[d]] = d
          /\ pc[m_peers_out[d]] \in Placed
      BY <1>0, <2>1 DEF IInv, OutEntries, IsPeer
    <3>2. RequestsTypeOK'
      BY <1>0, <1>3, <2>1, <3>1
      DEF Request, SendTo, Enter, RequestsTypeOK, Working
    <3>3. RequestOK(r)'
      BY <1>0, <1>3, <2>1, <3>1
      DEF Request, SendTo, Enter, RequestOK, RequestsTypeOK, vars
    <3>4. ASSUME NEW q \in Req, q # r PROVE RequestOK(q)'
      BY <1>0, <1>3, <2>1, <3>4, OtherKept
      DEF Request, SendTo, Enter, RequestsTypeOK
    <3> QED BY <3>2, <3>3, <3>4
  <2>2. CASE LinkFor(r, d) /\ UNCHANGED via
    <3>1. PICK c \in Out : /\ link' = [link EXCEPT ![r] = c]
                           /\ pc'[c] # "idle" /\ domain'[c] = d
      BY <1>0, <2>2, LinkedFor
    <3>2. state' = [state EXCEPT ![r] = "linking"]
      BY <1>0, <2>2, LinkedFor
    <3>3. RequestsTypeOK'
      BY <1>0, <1>3, <2>2, <3>1, <3>2 DEF Request, RequestsTypeOK, Working
    <3>4. RequestOK(r)'
      BY <1>0, <1>3, <3>1, <3>2 DEF Request, RequestOK, RequestsTypeOK
    <3>5. ASSUME NEW q \in Req, q # r PROVE RequestOK(q)'
      BY <1>0, <1>3, <2>2, <3>1, <3>2, <3>5, OtherKept
      DEF Request, RequestsTypeOK
    <3> QED BY <3>3, <3>4, <3>5
  <2> QED BY <1>3, <2>1, <2>2 DEF Request
<1>4. ASSUME NEW r \in Req, LinkStep(r) PROVE Good
  <2>1. /\ link[r] \in Call /\ pc[link[r]] # "idle"
        /\ domain'[link[r]] = want[r]
    BY <1>0, <1>4, CallsKept DEF LinkStep, RequestOK, IInv, Call
  <2>2. CASE UNCHANGED reqVars
    BY <1>0, <2>2, OtherKept DEF reqVars, RequestsTypeOK
  <2>3. CASE pc'[link[r]] = "linked" /\ Linked(r, link[r])
    <3>1. RequestsTypeOK'
      BY <1>0, <2>1, <2>3 DEF Linked, SendTo, Enter, RequestsTypeOK, Working
    <3>2. RequestOK(r)'
      BY <1>0, <2>1, <2>3
      DEF Linked, SendTo, Enter, RequestOK, RequestsTypeOK, Placed
    <3>3. ASSUME NEW q \in Req, q # r PROVE RequestOK(q)'
      BY <1>0, <2>3, <3>3, OtherKept DEF Linked, SendTo, Enter, RequestsTypeOK
    <3> QED BY <3>1, <3>2, <3>3
  <2>4. CASE NotLinked(r)
    <3>1. RequestsTypeOK'
      BY <1>0, <2>4, RequestsAssumption
      DEF NotLinked, Enter, Answer, RequestsTypeOK, Working
    <3>2. RequestOK(r)'
      BY <1>0, <2>4 DEF NotLinked, Enter, RequestOK, RequestsTypeOK
    <3>3. ASSUME NEW q \in Req, q # r PROVE RequestOK(q)'
      BY <1>0, <2>4, <3>3, OtherKept DEF NotLinked, Enter, RequestsTypeOK
    <3> QED BY <3>1, <3>2, <3>3
  <2> QED BY <1>4, <2>2, <2>3, <2>4 DEF LinkStep
<1>5. ASSUME NEW r \in Req, ReauthRequired(r) PROVE Good
  <2>1. via[r] \in Call /\ pc[via[r]] \in Placed /\ domain[via[r]] = want[r]
    BY <1>0, <1>5 DEF ReauthRequired, RequestOK
  <2>2. want[r] \in Domain
    BY <1>0, <2>1 DEF IInv, KnownDomain, Placed
  <2>3. PICK c \in Out : /\ link' = [link EXCEPT ![r] = c]
                         /\ pc'[c] # "idle" /\ domain'[c] = want[r]
    BY <1>0, <1>5, <2>1, <2>2, LinkedFor DEF ReauthRequired
  <2>4. state' = [state EXCEPT ![r] = "linking"]
    BY <1>0, <1>5, <2>1, <2>2, LinkedFor DEF ReauthRequired
  <2>5. RequestsTypeOK'
    BY <1>0, <1>5, <2>3, <2>4, RequestsAssumption
    DEF ReauthRequired, Answer, RequestsTypeOK, Working
  <2>6. RequestOK(r)'
    BY <1>0, <1>5, <2>3, <2>4 DEF ReauthRequired, RequestOK, RequestsTypeOK
  <2>7. ASSUME NEW q \in Req, q # r PROVE RequestOK(q)'
    BY <1>0, <1>5, <2>3, <2>4, <2>7, OtherKept
    DEF ReauthRequired, RequestsTypeOK
  <2> QED BY <2>5, <2>6, <2>7
<1> QED BY <1>1, <1>2, <1>3, <1>4, <1>5 DEF RequestsNext, RequestStep

-----------------------------------------------------------------------------

\* The invariant of the requests holds in every reachable state.
LEMMA RequestsInvariance == RequestsSpec => []RequestsIInv
<1>1. RequestsInit => RequestsIInv
  BY InitIInv, RequestsAssumption
  DEF RequestsInit, RequestsIInv, SentIsVerified, LinkIsForWant, RequestsTypeOK
<1>2. RequestsIInv /\ [RequestsNext]_allVars => RequestsIInv'
  <2> SUFFICES ASSUME RequestsIInv, [RequestsNext]_allVars PROVE RequestsIInv'
    OBVIOUS
  <2>1. IInv'
    BY StepOfTables, StepTypeOK, StepCallInv, StepTablesInv
    DEF RequestsIInv, IInv, CallInv, TablesInv
  <2>2. CASE RequestsNext
    <3>1. RequestsTypeOK' /\ \A r \in Req : RequestOK(r)'
      BY <2>2, StepRequestsOK
    <3>2. SentIsVerified' /\ LinkIsForWant'
      BY <3>1 DEF SentIsVerified, LinkIsForWant, RequestOK, Verified, Placed
    <3> QED BY <2>1, <3>1, <3>2 DEF RequestsIInv
  <2>3. CASE UNCHANGED allVars
    BY <2>1, <2>3 DEF RequestsIInv, SentIsVerified, LinkIsForWant,
       RequestsTypeOK, Verified, allVars, reqVars, vars
  <2> QED BY <2>2, <2>3
<1> QED BY <1>1, <1>2, PTL DEF RequestsSpec

\* The end of the second locked section leaves the peer it links in the table.
LEMMA LinkedIsInTable ==
    ASSUME IInv, NEW c \in Out, OutStep(c), pc'[c] = "linked",
           pc[c] # "idle"
    PROVE  m_peers_out'[domain'[c]] = c
<1> USE DEF IInv, TypeOK, Goto
<1>1. HandshakePublish(c) /\ m_peers_out[domain[c]] = Null /\ AddPeer(c)
  BY DEF OutStep, KeyFails, StartHandshake, HandshakeRefused, HandshakeFails,
         HandshakeParsed, HandshakeAdd, HandshakePublish
<1>2. domain[c] \in Domain
  BY <1>1 DEF HandshakePublish, KnownDomain
<1> QED BY <1>1, <1>2 DEF HandshakePublish, AddPeer, objects

\* A mod's request leaves for a peer that is in the table under the domain the
\* mod named, and whose handshake was verified, whichever calls of new_peer,
\* handshakes and prunes run.
THEOREM RequestsReachTheirPeer == RequestsSpec => SentToLinkedPeer
<1>1. ASSUME RequestsIInv, RequestsNext, NEW r \in Req,
             state[r] # "sent", state'[r] = "sent"
      PROVE  m_peers_out'[want'[r]] = via'[r]
  <2> USE DEF RequestsIInv, RequestsTypeOK
  <2>1. ASSUME NEW q \in Req, RequestLocal(q) \/ ReplyArrives(q) PROVE FALSE
    BY <1>1, <2>1 DEF RequestLocal, ReplyArrives, Enter
  <2>2. ASSUME NEW q \in Req, ReauthRequired(q) PROVE FALSE
    BY <1>1, <2>2 DEF ReauthRequired, LinkFor, Enter
  <2>3. CASE TableStep
    BY <1>1, <2>3 DEF TableStep, reqVars
  <2>4. ASSUME NEW q \in Req, NEW d \in Domain, Request(q, d)
        PROVE  m_peers_out'[want'[r]] = via'[r]
    <3>1. q = r /\ IsPeer(m_peers_out[d]) /\ SendTo(r, m_peers_out[d])
          /\ UNCHANGED vars
      BY <1>1, <2>4 DEF Request, SendTo, LinkFor, Enter
    <3> QED BY <1>1, <2>4, <3>1 DEF Request, SendTo, Enter, vars
  <2>5. ASSUME NEW q \in Req, LinkStep(q)
        PROVE  m_peers_out'[want'[r]] = via'[r]
    <3>1. q = r /\ pc'[link[r]] = "linked" /\ Linked(r, link[r])
      BY <1>1, <2>5 DEF LinkStep, Linked, NotLinked, SendTo, Enter, reqVars
    <3>2. /\ link[r] \in Out /\ pc[link[r]] # "idle"
          /\ domain[link[r]] = want[r] /\ OutStep(link[r])
      BY <1>1, <2>5, <3>1 DEF LinkStep, LinkIsForWant
    <3>3. [Next]_vars /\ domain'[link[r]] = domain[link[r]]
      BY <1>1, <3>2, StepOfTables, CallsKept DEF IInv, Call, allVars
    <3>4. m_peers_out'[domain'[link[r]]] = link[r]
      BY <1>1, <3>1, <3>2, LinkedIsInTable
    <3> QED BY <1>1, <3>1, <3>2, <3>3, <3>4 DEF Linked, SendTo
  <2> QED BY <1>1, <2>1, <2>2, <2>3, <2>4, <2>5 DEF RequestsNext, RequestStep
<1>2. ASSUME RequestsIInv', NEW r \in Req, state'[r] = "sent"
      PROVE  via'[r] \in Verified'
  BY <1>2 DEF RequestsIInv, SentIsVerified
<1>3. RequestsIInv /\ RequestsIInv' /\ [RequestsNext]_allVars =>
        [\A r \in Req : state[r] # "sent" /\ state'[r] = "sent" =>
          /\ via'[r] \in Verified'
          /\ m_peers_out'[want'[r]] = via'[r]]_allVars
  BY <1>1, <1>2
<1> QED BY RequestsInvariance, <1>3, PTL DEF RequestsSpec, SentToLinkedPeer
=============================================================================
