---------------------------- MODULE HttpExchange ----------------------------
(***************************************************************************)
(* The requests of the two HTTP clients, HttpRequest over TCP              *)
(* (protocol/HttpClient.hpp) and HttpsRequest over TLS                     *)
(* (protocol/HttpsClient.hpp): a chain of asynchronous operations, one     *)
(* completion handler each, with a timer on the stream.  An operation      *)
(* completes, or fails, when the network says so; one that is pending when *)
(* the stream's timer expires fails then.  The callbacks m_cb and m_err_cb *)
(* belong to the caller, who counts on one of them.                        *)
(***************************************************************************)
EXTENDS Integers, Sequences

CONSTANTS
    Exchange,       \* requests made
    Plain,          \* those of HttpClient; the others are HttpsClient's
    Timeout,        \* 30 s, in ticks
    CloseTimeout,   \* 10 s, in ticks
    Never,          \* no timer is set on the stream
    MaxTime         \* bound of the clock

ASSUME HttpAssumption ==
    /\ Plain \subseteq Exchange
    /\ Timeout \in Nat /\ CloseTimeout \in Nat /\ MaxTime \in Nat
    /\ CloseTimeout <= Timeout
    /\ Never \notin Int

VARIABLES
    pending,    \* the operation that is pending
    deadline,   \* expires_after: when it fails if it is pending still
    began,      \* when the name was resolved and the first timer set
    called,     \* the callbacks called
    now

httpVars == <<pending, deadline, began, called, now>>

Timed == {"connecting", "handshaking", "writing", "reading", "closing"}
Unanswered == {"resolving", "connecting", "handshaking", "writing", "reading"}

HttpTypeOK ==
    /\ pending \in [Exchange -> {"idle", "resolving", "ended"} \cup Timed]
    /\ deadline \in [Exchange -> 0..(MaxTime + Timeout) \cup {Never}]
    /\ began \in [Exchange -> 0..MaxTime]
    /\ called \in [Exchange -> Seq({"cb", "err"})]
    /\ now \in 0..MaxTime

HttpInit ==
    /\ pending = [e \in Exchange |-> "idle"]
    /\ deadline = [e \in Exchange |-> Never]
    /\ began = [e \in Exchange |-> 0]
    /\ called = [e \in Exchange |-> <<>>]
    /\ now = 0

Move(e, from, to) == pending[e] = from /\ pending' = [pending EXCEPT ![e] = to]

Arm(e, ticks) == deadline' = [deadline EXCEPT ![e] = now + ticks]

CallBack(e, names) == called' = [called EXCEPT ![e] = @ \o names]

-----------------------------------------------------------------------------

\* request() and run(): HttpsRequest can fail to set the host name first.
Request(e) ==
    /\ \/ Move(e, "idle", "resolving") /\ UNCHANGED called
       \/ e \notin Plain /\ Move(e, "idle", "ended") /\ CallBack(e, <<"err">>)
    /\ UNCHANGED <<deadline, began, now>>

\* on_resolve
Resolved(e) ==
    /\ Move(e, "resolving", "connecting")
    /\ Arm(e, Timeout)
    /\ began' = [began EXCEPT ![e] = now]
    /\ UNCHANGED <<called, now>>

\* on_connect
Connected(e) ==
    /\ Move(e, "connecting", IF e \in Plain THEN "writing" ELSE "handshaking")
    /\ UNCHANGED <<deadline, began, called, now>>

\* on_handshake: the timer is set anew.
Handshaken(e) ==
    /\ Move(e, "handshaking", "writing")
    /\ Arm(e, Timeout)
    /\ UNCHANGED <<began, called, now>>

\* Mutant: on_write gives the response a time of its own.
RequestWritten_Rearmed(e) ==
    /\ Move(e, "writing", "reading")
    /\ Arm(e, Timeout)
    /\ UNCHANGED <<began, called, now>>

\* on_write
RequestWritten(e) ==
    /\ Move(e, "writing", "reading")
    /\ UNCHANGED <<deadline, began, called, now>>

\* HttpRequest's on_read: m_cb, then the socket is shut down; an error of that
\* other than not_connected is reported to m_err_cb.
PlainRead(e) ==
    /\ e \in Plain
    /\ Move(e, "reading", "ended")
    /\ CallBack(e, <<"cb">>) \/ CallBack(e, <<"cb", "err">>)
    /\ UNCHANGED <<deadline, began, now>>

\* Mutant: the stream is closed without a time limit.
TlsRead_Untimed(e) ==
    /\ e \notin Plain
    /\ Move(e, "reading", "closing")
    /\ deadline' = [deadline EXCEPT ![e] = Never]
    /\ CallBack(e, <<"cb">>)
    /\ UNCHANGED <<began, now>>

\* HttpsRequest's on_read: the TLS shutdown starts, then m_cb.  on_shutdown
\* cannot come between: both are handlers of one strand.
TlsRead(e) ==
    /\ e \notin Plain
    /\ Move(e, "reading", "closing")
    /\ Arm(e, CloseTimeout)
    /\ CallBack(e, <<"cb">>)
    /\ UNCHANGED <<began, now>>

\* Mutant: a TLS shutdown that fails is reported as HttpRequest does it.
ShutDown_Reported(e) ==
    /\ Move(e, "closing", "ended")
    /\ UNCHANGED called \/ CallBack(e, <<"err">>)
    /\ UNCHANGED <<deadline, began, now>>

\* on_shutdown: an error is logged at most.
ShutDown(e) ==
    /\ Move(e, "closing", "ended")
    /\ UNCHANGED <<deadline, began, called, now>>

\* Any handler before on_shutdown, called with an error.
Fail(e) ==
    /\ pending[e] \in Unanswered
    /\ Move(e, pending[e], "ended")
    /\ CallBack(e, <<"err">>)
    /\ UNCHANGED <<deadline, began, now>>

\* The stream's timer fails the operation that is pending.
Expire(e) ==
    /\ pending[e] \in Timed
    /\ deadline[e] = now
    /\ Fail(e) \/ ShutDown(e)

\* Timers are served when they are due.
HttpTick ==
    /\ now < MaxTime
    /\ \A e \in Exchange : pending[e] \in Timed => deadline[e] # now
    /\ now' = now + 1
    /\ UNCHANGED <<pending, deadline, began, called>>

Answered(e) ==
    \/ Resolved(e) \/ Connected(e) \/ Handshaken(e) \/ RequestWritten(e)
    \/ PlainRead(e) \/ TlsRead(e) \/ ShutDown(e) \/ Fail(e)

HttpNext ==
    \/ HttpTick
    \/ \E e \in Exchange : Request(e) \/ Answered(e) \/ Expire(e)

HttpSpec == HttpInit /\ [][HttpNext]_httpVars

\* Time passes, the resolver ends each lookup (it has a time limit of its own)
\* and timers fire.  Nothing is assumed of the host: it may never answer.
HttpFairSpec ==
    /\ HttpSpec
    /\ WF_httpVars(HttpTick)
    /\ \A e \in Exchange :
          /\ WF_httpVars(pending[e] = "resolving" /\ (Resolved(e) \/ Fail(e)))
          /\ WF_httpVars(Expire(e))

-----------------------------------------------------------------------------

\* A TLS request calls one of its callbacks once: none is lost when the host
\* fails, hangs or closes early, and what happens to the connection after the
\* response is not reported as a failure of the request.
TlsCallsBackOnce ==
    \A e \in Exchange \ Plain :
        Len(called[e]) = IF pending[e] \in {"closing", "ended"} THEN 1 ELSE 0

\* Of either client: no error is reported for a request whose response was given to
\* its caller, "because we successfully completed the request already".
NoErrorAfterAnswer ==
    \A e \in Exchange : \A i, j \in DOMAIN called[e] : called[e][i] = "cb" => called[e][j] # "err"

\* However slowly a host takes part, a plain request is over one Timeout after
\* its name is resolved, and a TLS request has its callback after two.
AnsweredInTime ==
    /\ HttpTypeOK
    /\ \A e \in Exchange : pending[e] \in Unanswered \ {"resolving"} =>
          now <= began[e] + (IF e \in Plain THEN Timeout ELSE 2 * Timeout)

\* Every request ends, its callback called and its connection given up, also when
\* the host falls silent before the response or never answers the TLS shutdown.
\* The clock stops at MaxTime, so only requests that can run out by then count.
EveryExchangeEnds ==
    \A e \in Exchange :
        pending[e] = "connecting"
            /\ began[e] + 2 * Timeout + CloseTimeout <= MaxTime
            ~> pending[e] = "ended" /\ called[e] # <<>>
=============================================================================
