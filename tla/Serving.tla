------------------------------ MODULE Serving ------------------------------
(***************************************************************************)
(* How an instance serves its connections: the listener                    *)
(* (protocol/Server/Server.cpp), a Session with its reads and writes       *)
(* (Session.cpp), the routes of Router.cpp, and the pool of threads that   *)
(* calls shared-object mods (ModConnectorDll.cpp, util/ThreadPool.hpp).    *)
(* Users, peers and the contents of pages are elsewhere or left out: what  *)
(* find_user or a form says is free.                                       *)
(*                                                                         *)
(* No request reaches a net mod: with one the server never serves (Mods).  *)
(***************************************************************************)
EXTENDS Mods

CONSTANTS
    Conn,           \* connections
    Worker,         \* threads of the pool
    Root,           \* the path of the root mod, ''
    MaxRequests     \* bound of the requests on one connection

ASSUME ServingAssumption ==
    /\ Root \in Path
    /\ IsFiniteSet(Worker) /\ Worker # {}
    /\ MaxRequests \in Nat

VARIABLES
    listening,  \* the acceptor has an accept outstanding
    stage,      \* where a connection is
    number,     \* the number of the request in its parser
    answers,    \* how many responses were written to it
    cookies,    \* the request m_cookies was parsed from, 0 when it is empty
    login,      \* the last request that set a new fiy_auth cookie
    held,       \* ModDllConnectorRequests: connection and request number
    queue,      \* those in the pool's queue
    worker      \* what a thread of the pool does

connVars == <<listening, stage, number, answers, cookies, login>>
poolVars == <<held, queue, worker>>
servingVars == <<modsVars, connVars, poolVars>>

Task == [conn : Conn, number : 1..MaxRequests]

ServedTypeOK ==
    /\ listening \in BOOLEAN
    /\ stage \in [Conn -> {"new", "reading", "routing", "fetching", "mod",
                           "writing", "closed", "torn"}]
    /\ number \in [Conn -> 0..MaxRequests]
    /\ answers \in [Conn -> 0..(MaxRequests + 2)]
    /\ cookies \in [Conn -> 0..MaxRequests]
    /\ login \in [Conn -> 0..MaxRequests]
    /\ held \subseteq Task
    /\ queue \in Seq(held)
    /\ worker \in [Worker -> {"ready", "asleep", "busy"}]

ServingTypeOK == ModsTypeOK /\ ServedTypeOK

ServingInit ==
    /\ ModsInit
    /\ listening = TRUE
    /\ stage = [c \in Conn |-> "new"]
    /\ number = [c \in Conn |-> 0]
    /\ answers = [c \in Conn |-> 0]
    /\ cookies = [c \in Conn |-> 0]
    /\ login = [c \in Conn |-> 0]
    /\ held = {}
    /\ queue = <<>>
    /\ worker = [w \in Worker |-> "ready"]

-----------------------------------------------------------------------------
(* The connection.                                                         *)

Go(c, from, to) == stage[c] = from /\ stage' = [stage EXCEPT ![c] = to]

\* on_accept: the session starts to read and the next accept is issued, except
\* after an error.
Accept(c) ==
    /\ phase = "serving" /\ listening
    /\ \/ Go(c, "new", "reading") /\ UNCHANGED listening
       \/ stage[c] = "new" /\ listening' = FALSE /\ UNCHANGED stage
    /\ UNCHANGED <<modsVars, number, answers, cookies, login, poolVars>>

\* on_read: a request, or the end of the stream, or an error.
Read(c) ==
    /\ \/ /\ number[c] < MaxRequests
          /\ Go(c, "reading", "routing")
          /\ number' = [number EXCEPT ![c] = @ + 1]
       \/ Go(c, "reading", "closed") /\ UNCHANGED number
    /\ UNCHANGED <<modsVars, listening, answers, cookies, login, poolVars>>

\* Session::respond, in whatever stage its caller finds the connection.
Respond(c) ==
    /\ stage' = [stage EXCEPT ![c] = "writing"]
    /\ answers' = [answers EXCEPT ![c] = @ + 1]

\* on_write: the next read when the message keeps the connection alive.  An
\* error and a close both end the session.
Written(c) ==
    /\ \/ Go(c, "writing", "reading") \/ Go(c, "writing", "closed")
    /\ UNCHANGED <<modsVars, listening, number, answers, cookies, login,
                   poolVars>>

\* get_cookies: the header of this request, when m_cookies is empty.
GetCookies(c) ==
    cookies' \in {cookies,
                  [cookies EXCEPT ![c] = IF @ = 0 THEN number[c] ELSE @]}

-----------------------------------------------------------------------------
(* The pool.                                                               *)

\* Mutant: a thread sleeps without another look at the queue.
Sleep_Unchecked(w) ==
    /\ worker[w] = "ready"
    /\ worker' = [worker EXCEPT ![w] = "asleep"]
    /\ UNCHANGED <<modsVars, connVars, held, queue>>

\* Queue::pop finds nothing and waits.
Sleep(w) ==
    /\ worker[w] = "ready" /\ queue = <<>>
    /\ worker' = [worker EXCEPT ![w] = "asleep"]
    /\ UNCHANGED <<modsVars, connVars, held, queue>>

\* Queue::pop takes the front, and the handler calls the mod's on_request.
Pop(w) ==
    /\ worker[w] = "ready" /\ queue # <<>>
    /\ worker' = [worker EXCEPT ![w] = "busy"]
    /\ queue' = Tail(queue)
    /\ UNCHANGED <<modsVars, connVars, held>>

\* on_request returns, whether or not the mod has answered.
ModReturns(w) ==
    /\ worker[w] = "busy"
    /\ worker' = [worker EXCEPT ![w] = "ready"]
    /\ UNCHANGED <<modsVars, connVars, held, queue>>

\* wait may end without a notification.
SpuriousWake(w) ==
    /\ worker[w] = "asleep"
    /\ worker' = [worker EXCEPT ![w] = "ready"]
    /\ UNCHANGED <<modsVars, connVars, held, queue>>

\* Mutant: nobody is woken while the queue was not empty.
Notify_FirstOnly ==
    LET asleep == {w \in Worker : worker[w] = "asleep"}
    IN  IF asleep = {} \/ queue # <<>> THEN worker' = worker
        ELSE \E w \in asleep : worker' = [worker EXCEPT ![w] = "ready"]

\* notify_one.
Notify ==
    LET asleep == {w \in Worker : worker[w] = "asleep"}
    IN  IF asleep = {} THEN worker' = worker
        ELSE \E w \in asleep : worker' = [worker EXCEPT ![w] = "ready"]

\* The request object is made and handed to the pool.
Emplace(c) ==
    LET t == [conn |-> c, number |-> number[c]]
    IN  held' = held \cup {t} /\ queue' = Append(queue, t) /\ Notify

-----------------------------------------------------------------------------
(* The routes.                                                             *)

\* Pages, redirects, files, the key, and every answer that needs no user.
Page(c) ==
    /\ stage[c] = "routing"
    /\ Respond(c)
    /\ UNCHANGED <<modsVars, listening, number, cookies, login, poolVars>>

\* GET /portal looks for the user.
Portal(c) ==
    /\ stage[c] = "routing"
    /\ GetCookies(c)
    /\ Respond(c)
    /\ UNCHANGED <<modsVars, listening, number, login, poolVars>>

\* Mutant: the new cookie is sent and the old ones are kept.
LogIn_CacheKept(c) ==
    /\ stage[c] = "routing"
    /\ login' = [login EXCEPT ![c] = number[c]]
    /\ Respond(c)
    /\ UNCHANGED <<modsVars, listening, number, cookies, poolVars>>

\* A login_post or signup_post that succeeds; one that does not is a Page.
LogIn(c) ==
    /\ stage[c] = "routing"
    /\ cookies' = [cookies EXCEPT ![c] = 0]
    /\ login' = [login EXCEPT ![c] = number[c]]
    /\ Respond(c)
    /\ UNCHANGED <<modsVars, listening, number, poolVars>>

\* peer_handshake asks the peer for its key.
Handshake(c) ==
    /\ Go(c, "routing", "fetching")
    /\ UNCHANGED <<modsVars, listening, number, answers, cookies, login,
                   poolVars>>

\* The callbacks of that request: one answer, or several.  After a status other
\* than 200 the first one responds and goes on to respond again; and the plain
\* client, whose connection does not shut down cleanly after that, calls the
\* error callback too, which responds once more.  These writes overlap, or fall
\* into the turn of the next request: what follows is left out.
KeyArrives(c) ==
    /\ stage[c] = "fetching"
    /\ \/ Respond(c)
       \/ /\ Go(c, "fetching", "torn")
          /\ \E n \in 2..3 : answers' = [answers EXCEPT ![c] = @ + n]
    /\ UNCHANGED <<modsVars, listening, number, cookies, login, poolVars>>

\* Mutant: find_user's own answer does not end the handling.
Refuse_GoesOn(c) == Respond(c) /\ Emplace(c)

\* find_user has told a peer to authenticate again, the user may not use the
\* mod, or the mod did not start.
Refuse(c) == Respond(c) /\ UNCHANGED poolVars

\* Mutant: the connection reads on while the mod has the request.
Forward_ReadsOn(c) == Go(c, "routing", "reading") /\ Emplace(c) /\ UNCHANGED answers

\* ModConnectorDll::handle_request hands the request to the pool.
Forward(c) == Go(c, "routing", "mod") /\ Emplace(c) /\ UNCHANGED answers

\* mod_send_msg and request_mod: the mod with the path or the id, or the root
\* mod, or none.
Targets ==
    {IF lookup[p] # Null THEN lookup[p] ELSE lookup[Root] : p \in Path}
        \cup {byId[i] : i \in Id}

ToMod(c) ==
    /\ stage[c] = "routing"
    /\ \/ Null \in Targets /\ Refuse(c) /\ UNCHANGED cookies
       \/ \E m \in Targets \ {Null} :
             /\ GetCookies(c)
             /\ Refuse(c) \/ (m \in info /\ Forward(c))
    /\ UNCHANGED <<modsVars, listening, number, login>>

\* The mod calls the callback once, from any thread: respond, and delete this.
\* When the offset of a file cannot be sought nothing is written, and the
\* session goes with its last pointer.
Callback(t) ==
    /\ t \in held
    /\ \A i \in DOMAIN queue : queue[i] # t
    /\ held' = held \ {t}
    /\ \/ Respond(t.conn)
       \/ stage' = [stage EXCEPT ![t.conn] = "closed"] /\ UNCHANGED answers
    /\ UNCHANGED <<modsVars, listening, number, cookies, login, queue, worker>>

Route(c) ==
    Page(c) \/ Portal(c) \/ LogIn(c) \/ Handshake(c) \/ ToMod(c)

ServingNext ==
    \/ ModsNext /\ UNCHANGED <<connVars, poolVars>>
    \/ \E c \in Conn :
          Accept(c) \/ Read(c) \/ Written(c) \/ Route(c) \/ KeyArrives(c)
    \/ \E w \in Worker : Sleep(w) \/ Pop(w) \/ ModReturns(w) \/ SpuriousWake(w)
    \/ \E t \in Task : Callback(t)

ServingSpec == ServingInit /\ [][ServingNext]_servingVars

\* The io threads run handlers that are due, writes end, threads of the pool
\* run, and mods return and answer.  Clients need not send anything, and nobody
\* wakes a sleeping thread but notify_one.
ServingFairness ==
    /\ \A c \in Conn : WF_servingVars(Route(c) \/ KeyArrives(c))
    /\ \A c \in Conn : WF_servingVars(Written(c))
    /\ \A w \in Worker : WF_servingVars(Sleep(w) \/ Pop(w) \/ ModReturns(w))
    /\ \A t \in Task : WF_servingVars(Callback(t))

ServingFairSpec == ServingSpec /\ ServingFairness

-----------------------------------------------------------------------------

\* Responses and requests alternate on a connection: the next request is read
\* after the one before was answered, each is answered once, and nothing is
\* written that answers none.  The exceptions are those of KeyArrives: a peer's
\* key that is refused, or that was fetched over a plain connection which then
\* fails to shut down, answers a handshake twice, and both together three times.
OneAnswerEach ==
    \A c \in Conn :
        \/ stage[c] \in {"new", "reading", "writing"} /\ answers[c] = number[c]
        \/ /\ stage[c] \in {"routing", "fetching", "mod"}
           /\ answers[c] = number[c] - 1
        \/ stage[c] = "closed" /\ answers[c] \in {number[c] - 1, number[c]}
        \/ stage[c] = "torn" /\ answers[c] \in number[c] + 1 .. number[c] + 2

\* While a mod holds a request, in the queue or called, the connection keeps
\* it in its parser: the body the mod reads is that of its own request.
HeldRequestKept ==
    /\ \A t \in held : stage[t.conn] = "mod" /\ number[t.conn] = t.number
    /\ \A c \in Conn : stage[c] = "mod" => \E t \in held : t.conn = c

\* A thread of the pool does not sleep while requests wait that no woken
\* thread is about to take: one slow mod does not stop another while there are
\* threads.
WorkersWoken ==
    (\E w \in Worker : worker[w] = "asleep") =>
        Len(queue) <= Cardinality({w \in Worker : worker[w] = "ready"})

\* After a login the cookies of the requests before it are not used on the
\* connection, which otherwise keeps the first ones it saw.
NoCookiesFromBeforeLogin ==
    \A c \in Conn : cookies[c] # 0 => cookies[c] > login[c]

\* Every request that was read is answered, or its connection is closed.
EveryRequestServed ==
    \A c \in Conn :
        stage[c] \in {"routing", "fetching", "mod"} ~>
            stage[c] \in {"writing", "closed", "torn"}
=============================================================================
