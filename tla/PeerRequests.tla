---------------------------- MODULE PeerRequests ----------------------------
(***************************************************************************)
(* Requests of local mods to mods of other instances: the two overloads of *)
(* Peers::request_peer, over the peer tables of Peers.  A request to a     *)
(* domain without a peer first links to it with new_peer; a peer that      *)
(* answers 478 is linked to again.  The mod's req->callback is called with *)
(* the response, or with nullptr.                                          *)
(***************************************************************************)
EXTENDS Peers

CONSTANTS
    Req,        \* requests made by mods
    MaxAnswers  \* bound of the count of calls of a request's callback

ASSUME RequestsAssumption == MaxAnswers \in Nat \ {0}

VARIABLES
    state,      \* what the server is doing for a request
    want,       \* the domain it is for
    via,        \* the Peer it was last sent to
    link,       \* the new_peer call that runs for it
    relinks,    \* new_peer calls made because of a 478
    answers     \* how often its callback has been called

reqVars == <<state, want, via, link, relinks, answers>>
allVars == <<vars, reqVars>>

Working == {"linking", "sent"}

RequestsTypeOK ==
    /\ state \in [Req -> {"idle", "done"} \cup Working]
    /\ want \in [Req -> Domain \cup {Null}]
    /\ via \in [Req -> Call \cup {Null}]
    /\ link \in [Req -> Out \cup {Null}]
    /\ relinks \in SUBSET Out
    /\ answers \in [Req -> 0..MaxAnswers]

RequestsInit ==
    /\ Init
    /\ state = [r \in Req |-> "idle"]
    /\ want = [r \in Req |-> Null]
    /\ via = [r \in Req |-> Null]
    /\ link = [r \in Req |-> Null]
    /\ relinks = {}
    /\ answers = [r \in Req |-> 0]

\* Calls of req->callback, counted up to MaxAnswers.
Answer(r) ==
    answers' = [answers EXCEPT ![r] = IF @ < MaxAnswers THEN @ + 1 ELSE @]

Enter(r, s) == state' = [state EXCEPT ![r] = s]

\* request_peer(peer, ...): the request leaves for p.
SendTo(r, p) == Enter(r, "sent") /\ via' = [via EXCEPT ![r] = p]

\* new_peer(domain, cb) with a callback that continues r.
LinkFor(r, d) ==
    \E c \in Out :
        /\ NewPeer(c, d)
        /\ link' = [link EXCEPT ![r] = c]
        /\ Enter(r, "linking")

-----------------------------------------------------------------------------

\* request_peer(domain, ...): to this instance itself.  The mod answers it, or
\* there is no such mod.
RequestLocal(r) ==
    /\ state[r] = "idle"
    /\ Enter(r, "done")
    /\ Answer(r)
    /\ UNCHANGED <<vars, want, via, link, relinks>>

\* request_peer(domain, ...): to a cached peer, or to one that must be linked.
Request(r, d) ==
    /\ state[r] = "idle"
    /\ want' = [want EXCEPT ![r] = d]
    /\ \/ /\ IsPeer(m_peers_out[d])
          /\ SendTo(r, m_peers_out[d])
          /\ UNCHANGED <<vars, link>>
       \/ /\ ~IsPeer(m_peers_out[d])
          /\ LinkFor(r, d)
          /\ UNCHANGED via
    /\ UNCHANGED <<relinks, answers>>

\* The callback a new_peer call was given: send the request, or answer nullptr.
Linked(r, c) ==
    /\ SendTo(r, c)
    /\ UNCHANGED <<want, link, relinks, answers>>

NotLinked(r) ==
    /\ Enter(r, "done")
    /\ Answer(r)
    /\ UNCHANGED <<want, via, link, relinks>>

\* Mutants: the callback does not look at the status it is given; a peer that
\* cannot be added ends new_peer without a call of its callback.
LinkStep_StatusIgnored(r) ==
    /\ state[r] = "linking"
    /\ OutStep(link[r])
    /\ \/ pc'[link[r]] \in Open /\ UNCHANGED reqVars
       \/ pc'[link[r]] \in Closed /\ Linked(r, link[r])

LinkStep_UnlinkedSilent(r) ==
    /\ state[r] = "linking"
    /\ OutStep(link[r])
    /\ \/ pc'[link[r]] \in Open \cup {"unlinked"} /\ UNCHANGED reqVars
       \/ pc'[link[r]] = "linked" /\ Linked(r, link[r])
       \/ pc'[link[r]] = "failed" /\ NotLinked(r)

\* A handler of new_peer; at its end it calls its callback.
LinkStep(r) ==
    /\ state[r] = "linking"
    /\ OutStep(link[r])
    /\ \/ pc'[link[r]] \in Open /\ UNCHANGED reqVars
       \/ pc'[link[r]] = "linked" /\ Linked(r, link[r])
       \/ pc'[link[r]] \in {"unlinked", "failed"} /\ NotLinked(r)

\* cb with another status than 478, or err_cb.
ReplyArrives(r) ==
    /\ state[r] = "sent"
    /\ Enter(r, "done")
    /\ Answer(r)
    /\ UNCHANGED <<vars, want, via, link, relinks>>

\* cb with 478: link again, and hand the response on all the same.
ReauthRequired(r) ==
    /\ state[r] = "sent"
    /\ LinkFor(r, domain[via[r]])
    /\ relinks' = relinks \cup {link'[r]}
    /\ Answer(r)
    /\ UNCHANGED <<want, via>>

RequestStep(r) == LinkStep(r) \/ ReplyArrives(r) \/ ReauthRequired(r)

\* Steps of the tables and of received handshakes, which no request takes.
TableStep ==
    /\ UNCHANGED reqVars
    /\ \/ Prune
       \/ Tick
       \/ \E s \in Inc : HandshakeRejected(s)
       \/ \E s \in Inc, d \in Domain, t \in Token : HandshakeReceived(s, d, t)
       \/ \E s \in Inc : IncStep(s)

RequestsNext ==
    \/ TableStep
    \/ \E r \in Req : RequestLocal(r) \/ RequestStep(r)
    \/ \E r \in Req, d \in Domain : Request(r, d)

RequestsSpec == RequestsInit /\ [][RequestsNext]_allVars

\* Every request of the HTTP client ends (30 s timeouts on each step), handlers
\* run to their end, and the cron thread keeps pruning.
RequestsFairSpec ==
    /\ RequestsSpec
    /\ WF_allVars(Prune /\ UNCHANGED reqVars)
    /\ \A s \in Inc : WF_allVars(IncStep(s) /\ UNCHANGED reqVars)
    /\ \A r \in Req : WF_allVars(RequestStep(r))

-----------------------------------------------------------------------------

\* A request leaves only for a peer that is in the table then, under the domain
\* the mod named, and whose handshake was verified: never for another call's peer,
\* for one still being linked, or for the loser of two calls of new_peer for one
\* domain, which the table has refused (Peers.cpp:299).
SentToLinkedPeer ==
    [][\A r \in Req : state[r] # "sent" /\ state'[r] = "sent" =>
          /\ via'[r] \in Verified'
          /\ m_peers_out'[want'[r]] = via'[r]]_allVars

\* A mod is told the end of every request: the callback comes, whatever the
\* peer, the tables and the other requests do.
EveryRequestAnswered ==
    \A r \in Req : state[r] \in Working ~> answers[r] > 0

-----------------------------------------------------------------------------
(* What the repository says and the code does not do.                      *)

\* fiymod.hpp:27, of the data passed in: it "shouldn't get free'd until after
\* callback/respond called".  Once it has been called the server is done with
\* the request.
NotUsedAfterAnswer ==
    \A r \in Req : answers[r] > 0 => state[r] \notin Working
=============================================================================
