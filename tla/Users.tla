------------------------------- MODULE Users -------------------------------
(***************************************************************************)
(* The users of one instance (protocol/users/LocalUsers.cpp) and the       *)
(* requests that sign them up, log them in and delete them (signup_post    *)
(* and login_post of protocol/Server/Router.cpp).  The rows are in the     *)
(* database, which no lock of the process protects; m_mtx protects the     *)
(* caches of users and session tokens.  One action is one access to the    *)
(* database or one section under the lock.                                 *)
(*                                                                         *)
(* An account is named by the signup that inserted its row; a LocalUser    *)
(* object is the account it was read from.                                 *)
(***************************************************************************)
EXTENDS Integers

CONSTANTS
    Name,       \* usernames
    Token,      \* results of AuthToken::get_token_string
    Signup,     \* requests to sign up; each can create one account
    Login,      \* requests to log in
    Delete,     \* calls of delete_user
    Null,       \* no row, no entry, no user
    Lifetime,   \* AuthToken::SESSION_LIFETIME, 2 weeks, in ticks
    CronPeriod, \* 5 minutes, in ticks
    MaxTime     \* bound of the clock

Aims == {"check", "login", "erase"}
UserCall == Signup \cup Login \cup Delete

ASSUME UsersAssumption ==
    /\ Signup \cap Login = {} /\ Signup \cap Delete = {} /\ Login \cap Delete = {}
    /\ Null \notin Signup /\ Null \notin Name /\ Null \notin Token /\ Null \notin Aims
    /\ Lifetime \in Nat /\ CronPeriod \in Nat \ {0} /\ MaxTime \in Nat

VARIABLES
    db,         \* table Users: name -> account
    cache,      \* m_username_cache
    session,    \* m_token_cache: token -> account and expiration
    pc,
    aim,        \* what it calls get_user for
    who,        \* the name a call is for
    password,   \* the account whose password a login gives, if any
    user,       \* what get_user found for a call
    token,      \* the token a call was given
    now,        \* g_fiy->now()
    cronAt      \* when m_cron wakes up next

userVars == <<db, cache, session, pc, aim, who, password, user, token, now,
              cronAt>>
caches == <<cache, session>>
request == <<who, password>>
clock == <<now, cronAt>>

Sessions == [account : Signup, expires : 0..(MaxTime + Lifetime)]

Waiting == {"idle", "find", "select", "store", "insert", "auth", "issue",
            "erase"}
Finished == {"taken", "error", "out", "in", "gone"}

UsersTypeOK ==
    /\ db \in [Name -> Signup \cup {Null}]
    /\ cache \in [Name -> Signup \cup {Null}]
    /\ session \in [Token -> Sessions \cup {Null}]
    /\ pc \in [UserCall -> Waiting \cup Finished]
    /\ aim \in [UserCall -> Aims \cup {Null}]
    /\ who \in [UserCall -> Name \cup {Null}]
    /\ password \in [UserCall -> Signup \cup {Null}]
    /\ user \in [UserCall -> Signup \cup {Null}]
    /\ token \in [UserCall -> Token \cup {Null}]
    /\ now \in 0..MaxTime
    /\ cronAt \in 1..(MaxTime + CronPeriod)

UsersInit ==
    /\ db = [n \in Name |-> Null]
    /\ cache = [n \in Name |-> Null]
    /\ session = [t \in Token |-> Null]
    /\ pc = [c \in UserCall |-> "idle"]
    /\ aim = [c \in UserCall |-> Null]
    /\ who = [c \in UserCall |-> Null]
    /\ password = [c \in UserCall |-> Null]
    /\ user = [c \in UserCall |-> Null]
    /\ token = [c \in UserCall |-> Null]
    /\ now = 0
    /\ cronAt = CronPeriod

Step(c, from, to) == pc[c] = from /\ pc' = [pc EXCEPT ![c] = to]

-----------------------------------------------------------------------------
(* get_user: the cache, then the database, then the cache again.            *)

\* What its caller does with the result u.
Goal(c, u) ==
    IF u = Null THEN [check |-> "insert", login |-> "out", erase |-> "gone"][aim[c]]
    ELSE [check |-> "taken", login |-> "auth", erase |-> "erase"][aim[c]]

Return(c, from, u) ==
    /\ Step(c, from, Goal(c, u))
    /\ user' = [user EXCEPT ![c] = u]

FindCached(c) ==
    /\ pc[c] = "find"
    /\ \/ cache[who[c]] # Null /\ Return(c, "find", cache[who[c]])
       \/ cache[who[c]] = Null /\ Step(c, "find", "select") /\ UNCHANGED user
    /\ UNCHANGED <<db, caches, aim, request, token, clock>>

SelectUser(c) ==
    /\ pc[c] = "select"
    /\ \/ db[who[c]] = Null /\ Return(c, "select", Null)
       \/ /\ db[who[c]] # Null
          /\ Step(c, "select", "store")
          /\ user' = [user EXCEPT ![c] = db[who[c]]]
    /\ UNCHANGED <<db, caches, aim, request, token, clock>>

StoreUser(c) ==
    /\ pc[c] = "store"
    /\ Return(c, "store", user[c])
    /\ cache' = [cache EXCEPT ![who[c]] = user[c]]
    /\ UNCHANGED <<db, session, aim, request, token, clock>>

-----------------------------------------------------------------------------
(* The requests.                                                           *)

\* A signup knows its own password, a login some account's or none.
Arrive(c, n) ==
    /\ Step(c, "idle", "find")
    /\ who' = [who EXCEPT ![c] = n]
    /\ \/ /\ c \in Signup
          /\ aim' = [aim EXCEPT ![c] = "check"]
          /\ password' = [password EXCEPT ![c] = c]
       \/ /\ c \in Login
          /\ aim' = [aim EXCEPT ![c] = "login"]
          /\ \E a \in Signup \cup {Null} :
                password' = [password EXCEPT ![c] = a]
       \/ /\ c \in Delete
          /\ aim' = [aim EXCEPT ![c] = "erase"]
          /\ UNCHANGED password
    /\ UNCHANGED <<db, caches, user, token, clock>>

\* Mutant: a row that is there is overwritten.
AddUser_Replace(c) ==
    /\ Step(c, "insert", "find")
    /\ db' = [db EXCEPT ![who[c]] = c]
    /\ aim' = [aim EXCEPT ![c] = "login"]
    /\ UNCHANGED <<caches, request, user, token, clock>>

\* Mutant: the user is cached before the row is inserted.
AddUser_CachedFirst(c) ==
    /\ pc[c] = "insert"
    /\ cache' = [cache EXCEPT ![who[c]] = c]
    /\ \/ /\ db[who[c]] = Null
          /\ db' = [db EXCEPT ![who[c]] = c]
          /\ Step(c, "insert", "find")
          /\ aim' = [aim EXCEPT ![c] = "login"]
       \/ Step(c, "insert", "error") /\ UNCHANGED <<db, aim>>
    /\ UNCHANGED <<session, request, user, token, clock>>

\* add_user: the username is the primary key, and a second row makes the
\* statement throw.  The user is not added to the cache: that code comes after
\* the return.  On success signup_post goes on to login_user.
AddUser(c) ==
    /\ pc[c] = "insert"
    /\ \/ /\ db[who[c]] = Null
          /\ db' = [db EXCEPT ![who[c]] = c]
          /\ Step(c, "insert", "find")
          /\ aim' = [aim EXCEPT ![c] = "login"]
       \/ Step(c, "insert", "error") /\ UNCHANGED <<db, aim>>
    /\ UNCHANGED <<caches, request, user, token, clock>>

\* auth_user(username, password): of a missing row it says 0 too, as of the
\* right password; an error of the database is -1.
AuthUser(c) ==
    /\ pc[c] = "auth"
    /\ \/ db[who[c]] \in {Null, password[c]} /\ Step(c, "auth", "issue")
       \/ db[who[c]] \notin {Null, password[c]} /\ Step(c, "auth", "out")
       \/ Step(c, "auth", "error")
    /\ UNCHANGED <<db, caches, aim, request, user, token, clock>>

Session(c) == [account |-> user[c], expires |-> now + Lifetime]

\* Mutant: the token is taken as it was drawn; insert keeps the entry that is
\* there.
Authorize_Unchecked(c, t) ==
    /\ Step(c, "issue", "in")
    /\ session' = [session EXCEPT ![t] = IF @ = Null THEN Session(c) ELSE @]
    /\ token' = [token EXCEPT ![c] = t]
    /\ UNCHANGED <<db, cache, aim, request, user, clock>>

\* authorize_user draws tokens until one is free.
Authorize(c, t) ==
    /\ session[t] = Null
    /\ Step(c, "issue", "in")
    /\ session' = [session EXCEPT ![t] = Session(c)]
    /\ token' = [token EXCEPT ![c] = t]
    /\ UNCHANGED <<db, cache, aim, request, user, clock>>

\* delete_user, the section under the write lock: sessions, mods, cache and row.
EraseUser(c) ==
    /\ Step(c, "erase", "gone")
    /\ session' = [t \in Token |->
                    IF session[t] # Null /\ who[session[t].account] = who[c]
                    THEN Null ELSE session[t]]
    /\ cache' = [cache EXCEPT ![who[c]] = Null]
    /\ db' = [db EXCEPT ![who[c]] = Null]
    /\ UNCHANGED <<aim, request, user, token, clock>>

\* deauth_token: public, no caller in this repository.
Deauth(t) ==
    /\ session[t] # Null
    /\ session' = [session EXCEPT ![t] = Null]
    /\ UNCHANGED <<db, cache, pc, aim, request, user, token, clock>>

-----------------------------------------------------------------------------
(* The clock and m_cron.                                                   *)

Stale(s) == now > s.expires

Cron ==
    /\ now = cronAt
    /\ cronAt' = now + CronPeriod
    /\ session' = [t \in Token |->
                    IF session[t] # Null /\ Stale(session[t]) THEN Null
                    ELSE session[t]]
    /\ UNCHANGED <<db, cache, pc, aim, request, user, token, now>>

\* m_cron wakes up when its sleep is over.
Tick ==
    /\ now < MaxTime
    /\ now # cronAt
    /\ now' = now + 1
    /\ UNCHANGED <<db, caches, pc, aim, request, user, token, cronAt>>

UserStep(c) ==
    \/ FindCached(c) \/ SelectUser(c) \/ StoreUser(c)
    \/ AddUser(c) \/ AuthUser(c) \/ EraseUser(c)
    \/ \E t \in Token : Authorize(c, t)

UsersNext ==
    \/ Tick \/ Cron
    \/ \E c \in UserCall, n \in Name : Arrive(c, n)
    \/ \E c \in UserCall : UserStep(c)
    \/ \E t \in Token : Deauth(t)

UsersSpec == UsersInit /\ [][UsersNext]_userVars

-----------------------------------------------------------------------------

\* While nobody is deleted, the cache agrees with the database: no order of the
\* three steps of get_user in different threads, of signups for one name and of
\* failed inserts caches a user the database does not have.
CacheFollowsDatabase ==
    /\ UsersTypeOK
    /\ (\A c \in Delete : pc[c] # "gone") =>
          \A n \in Name : cache[n] \in {Null, db[n]}

\* A token is given to one login: it was nobody's session before, it is the
\* session of the account the login found, under the name it asked for, and no
\* later login is given it while that session lasts.
TokenOfOneLogin ==
    [][\A c \in Signup \cup Login :
          pc[c] # "in" /\ pc'[c] = "in" =>
              /\ session[token'[c]] = Null
              /\ session'[token'[c]].account = user[c]
              /\ who[user[c]] = who[c]]_userVars

\* Of signups racing for one name the one that created the account is logged in
\* as that account; no other one is told it succeeded.
SignedUpAsSelf ==
    (\A d \in Delete : pc[d] # "gone") =>
        \A c \in Signup : pc[c] = "in" => db[who[c]] = c /\ user[c] = c
=============================================================================
