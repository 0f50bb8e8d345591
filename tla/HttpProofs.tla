----------------------------- MODULE HttpProofs -----------------------------
(***************************************************************************)
(* Proofs about HttpExchange for any number of requests and every time     *)
(* limit: when a request is over, and how often a TLS request called back.  *)
(***************************************************************************)
EXTENDS HttpExchange, TLAPS

\* An operation that is pending fails by its deadline, and no timer set anew on the
\* way gives a request more than its time.
DeadlinesBounded ==
    \A e \in Exchange :
        /\ pending[e] \in Timed => deadline[e] \in Nat /\ now <= deadline[e]
        /\ e \in Plain =>
              /\ pending[e] \notin {"handshaking", "closing"}
              /\ pending[e] \in Timed => deadline[e] <= began[e] + Timeout
        /\ pending[e] \in {"connecting", "handshaking"} => deadline[e] <= began[e] + Timeout
        /\ pending[e] \in {"writing", "reading"} => deadline[e] <= began[e] + 2 * Timeout

HttpIInv == HttpTypeOK /\ TlsCallsBackOnce /\ DeadlinesBounded

-----------------------------------------------------------------------------

\* Requests that have not begun satisfy the invariant.
LEMMA HttpInitial == HttpInit => HttpIInv
  BY HttpAssumption
  DEF HttpInit, HttpIInv, HttpTypeOK, TlsCallsBackOnce, DeadlinesBounded, Timed

\* A callback makes a sequence of callbacks longer by one.
LEMMA OneMore ==
    ASSUME NEW q \in Seq({"cb", "err"}), NEW name \in {"cb", "err"}
    PROVE  q \o <<name>> \in Seq({"cb", "err"}) /\ Len(q \o <<name>>) = Len(q) + 1
  OBVIOUS

\* A request that ends by its callback of errors, not having called back before.
LEMMA EndsByError ==
    ASSUME HttpTypeOK, TlsCallsBackOnce, NEW e \in Exchange,
           pending[e] \in {"idle"} \cup Unanswered,
           pending' = [pending EXCEPT ![e] = "ended"],
           called' = [called EXCEPT ![e] = called[e] \o <<"err">>]
    PROVE  TlsCallsBackOnce'
<1> USE DEF HttpTypeOK
<1>1. \A f \in Exchange : f # e => pending'[f] = pending[f] /\ called'[f] = called[f]
  OBVIOUS
<1>2. pending'[e] = "ended" /\ called'[e] = called[e] \o <<"err">>
  OBVIOUS
<1>3. Len(called[e] \o <<"err">>) = Len(called[e]) + 1
  BY OneMore
<1>4. e \notin Plain => Len(called[e]) = 0
  BY DEF TlsCallsBackOnce, Unanswered
<1>5. e \notin Plain => Len(called[e] \o <<"err">>) = 1
  BY <1>3, <1>4
<1>6. PICK q : q = called[e] \o <<"err">>
  OBVIOUS
<1>7. pending'[e] = "ended" /\ called'[e] = q /\ (e \notin Plain => Len(q) = 1)
  BY <1>2, <1>5, <1>6
<1>. QED
  BY <1>1, <1>7 DEF TlsCallsBackOnce

\* Each handler, timer and tick keeps the invariant.
LEMMA HttpKept == HttpIInv /\ [HttpNext]_httpVars => HttpIInv'
<1> SUFFICES ASSUME HttpIInv, [HttpNext]_httpVars
             PROVE  HttpIInv'
  OBVIOUS
<1> USE HttpAssumption DEF HttpIInv, HttpTypeOK
<1>2. ASSUME NEW e \in Exchange, Request(e)
      PROVE  HttpIInv'
  <2>1. called[e] \o <<"err">> \in Seq({"cb", "err"}) /\ Len(called[e] \o <<"err">>) = Len(called[e]) + 1
    BY OneMore
  <2>2. /\ pending[e] = "idle" /\ (pending' = [pending EXCEPT ![e] = "resolving"] \/ pending' = [pending EXCEPT ![e] = "ended"])
        /\ UNCHANGED <<deadline, began, now>>
    BY <1>2 DEF Request, Move
  <2>3. called' \in [Exchange -> Seq({"cb", "err"})]
    BY <1>2, <2>1 DEF Request, CallBack
  <2>4. HttpTypeOK'
    BY <2>2, <2>3 DEF Timed
  <2>5. TlsCallsBackOnce'
    <3>1. CASE pending' = [pending EXCEPT ![e] = "resolving"] /\ UNCHANGED called
      BY <2>2, <3>1 DEF TlsCallsBackOnce
    <3>2. CASE pending' = [pending EXCEPT ![e] = "ended"] /\ CallBack(e, <<"err">>)
      BY <2>2, <3>2, EndsByError DEF CallBack
    <3>. QED
      BY <1>2, <3>1, <3>2 DEF Request, Move
  <2>6. DeadlinesBounded'
    BY <2>2 DEF DeadlinesBounded, Timed
  <2>. QED
    BY <2>4, <2>5, <2>6
<1>3. ASSUME NEW e \in Exchange, Resolved(e)
      PROVE  HttpIInv'
  <2>3. HttpTypeOK'
    BY <1>3 DEF Resolved, Move, Arm, Timed
  <2>4. TlsCallsBackOnce'
    BY <1>3 DEF Resolved, Move, Arm, TlsCallsBackOnce, DeadlinesBounded
  <2>5. DeadlinesBounded'
    BY <1>3 DEF Resolved, Move, Arm, DeadlinesBounded, Timed
  <2>. QED
    BY <2>3, <2>4, <2>5
<1>4. ASSUME NEW e \in Exchange, Connected(e)
      PROVE  HttpIInv'
  <2>3. HttpTypeOK'
    BY <1>4 DEF Connected, Move, Timed
  <2>4. TlsCallsBackOnce'
    BY <1>4 DEF Connected, Move, TlsCallsBackOnce, DeadlinesBounded
  <2>5. DeadlinesBounded'
    BY <1>4 DEF Connected, Move, DeadlinesBounded, Timed
  <2>. QED
    BY <2>3, <2>4, <2>5
<1>5. ASSUME NEW e \in Exchange, Handshaken(e)
      PROVE  HttpIInv'
  <2>3. HttpTypeOK'
    BY <1>5 DEF Handshaken, Move, Arm, Timed
  <2>4. TlsCallsBackOnce'
    BY <1>5 DEF Handshaken, Move, Arm, TlsCallsBackOnce, DeadlinesBounded
  <2>5. DeadlinesBounded'
    BY <1>5 DEF Handshaken, Move, Arm, DeadlinesBounded, Timed
  <2>. QED
    BY <2>3, <2>4, <2>5
<1>6. ASSUME NEW e \in Exchange, RequestWritten(e)
      PROVE  HttpIInv'
  <2>3. HttpTypeOK'
    BY <1>6 DEF RequestWritten, Move, Timed
  <2>4. TlsCallsBackOnce'
    BY <1>6 DEF RequestWritten, Move, TlsCallsBackOnce, DeadlinesBounded
  <2>5. DeadlinesBounded'
    BY <1>6 DEF RequestWritten, Move, DeadlinesBounded, Timed
  <2>. QED
    BY <2>3, <2>4, <2>5
<1>7. ASSUME NEW e \in Exchange, PlainRead(e)
      PROVE  HttpIInv'
  <2>1. \A name \in {"cb", "err"} : /\ called[e] \o <<name>> \in Seq({"cb", "err"})
                                     /\ Len(called[e] \o <<name>>) = Len(called[e]) + 1
    BY OneMore
  <2>2. called[e] \o <<"cb", "err">> \in Seq({"cb", "err"})
    OBVIOUS
  <2>3. HttpTypeOK'
    BY <1>7, <2>1, <2>2 DEF PlainRead, Move, CallBack, Timed
  <2>4. TlsCallsBackOnce'
    BY <1>7, <2>1 DEF PlainRead, Move, CallBack, TlsCallsBackOnce, DeadlinesBounded
  <2>5. DeadlinesBounded'
    BY <1>7 DEF PlainRead, Move, CallBack, DeadlinesBounded, Timed
  <2>. QED
    BY <2>3, <2>4, <2>5
<1>8. ASSUME NEW e \in Exchange, TlsRead(e)
      PROVE  HttpIInv'
  <2>1. \A name \in {"cb", "err"} : /\ called[e] \o <<name>> \in Seq({"cb", "err"})
                                     /\ Len(called[e] \o <<name>>) = Len(called[e]) + 1
    BY OneMore
  <2>3. HttpTypeOK'
    BY <1>8, <2>1 DEF TlsRead, Move, Arm, CallBack, Timed
  <2>4. TlsCallsBackOnce'
    BY <1>8, <2>1 DEF TlsRead, Move, Arm, CallBack, TlsCallsBackOnce, DeadlinesBounded
  <2>5. DeadlinesBounded'
    BY <1>8 DEF TlsRead, Move, Arm, CallBack, DeadlinesBounded, Timed
  <2>. QED
    BY <2>3, <2>4, <2>5
<1>9. ASSUME NEW e \in Exchange, ShutDown(e)
      PROVE  HttpIInv'
  <2>3. HttpTypeOK'
    BY <1>9 DEF ShutDown, Move, Timed
  <2>4. TlsCallsBackOnce'
    BY <1>9 DEF ShutDown, Move, TlsCallsBackOnce, DeadlinesBounded
  <2>5. DeadlinesBounded'
    BY <1>9 DEF ShutDown, Move, DeadlinesBounded, Timed
  <2>. QED
    BY <2>3, <2>4, <2>5
<1>10. ASSUME NEW e \in Exchange, Fail(e)
      PROVE  HttpIInv'
  <2>1. \A name \in {"cb", "err"} : /\ called[e] \o <<name>> \in Seq({"cb", "err"})
                                     /\ Len(called[e] \o <<name>>) = Len(called[e]) + 1
    BY OneMore
  <2>3. HttpTypeOK'
    BY <1>10, <2>1 DEF Fail, Move, CallBack, Unanswered, Timed
  <2>4. TlsCallsBackOnce'
    BY <1>10, EndsByError DEF Fail, Move, CallBack
  <2>5. DeadlinesBounded'
    BY <1>10 DEF Fail, Move, CallBack, Unanswered, DeadlinesBounded, Timed
  <2>. QED
    BY <2>3, <2>4, <2>5
<1>11. CASE HttpTick
  <2>1. HttpTypeOK' /\ TlsCallsBackOnce'
    BY <1>11 DEF HttpTick, TlsCallsBackOnce
  <2>2. DeadlinesBounded'
    BY <1>11 DEF HttpTick, DeadlinesBounded, Timed
  <2>. QED
    BY <2>1, <2>2
<1>12. CASE UNCHANGED httpVars
  BY <1>12 DEF httpVars, TlsCallsBackOnce, DeadlinesBounded
<1>. QED
  BY <1>2, <1>3, <1>4, <1>5, <1>6, <1>7, <1>8, <1>9, <1>10, <1>11, <1>12
  DEF HttpNext, Answered, Expire

-----------------------------------------------------------------------------

\* Types, deadlines and callbacks hold in every state.
THEOREM HttpInvariant == HttpSpec => []HttpIInv
  BY HttpInitial, HttpKept, PTL DEF HttpSpec

\* Whatever the host does, a TLS request called back once, and a shutdown that fails
\* is not reported.
THEOREM TlsCallBack == HttpSpec => []TlsCallsBackOnce
<1>1. HttpIInv => TlsCallsBackOnce
  BY DEF HttpIInv
<1>. QED
  BY <1>1, HttpInvariant, PTL

\* However slow the host, the timers of on_connect and on_handshake bound the time
\* of a request.
THEOREM Punctual == HttpSpec => []AnsweredInTime
<1>1. HttpIInv => AnsweredInTime
  BY HttpAssumption
  DEF HttpIInv, HttpTypeOK, DeadlinesBounded, AnsweredInTime, Unanswered, Timed
<1>. QED
  BY <1>1, HttpInvariant, PTL
=============================================================================
