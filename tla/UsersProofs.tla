----------------------------- MODULE UsersProofs -----------------------------
(***************************************************************************)
(* Proofs about Users for any number of users, requests and tokens: while  *)
(* nobody is deleted the caches follow the database and a signup is told   *)
(* of success only for the account it made; a token goes to one login.     *)
(***************************************************************************)
EXTENDS Users, TLAPS

Found == {"store", "auth", "issue", "in"}

\* A request that has come knows its name and what it looks the user up for.
RequestKnown ==
    \A c \in UserCall :
        /\ aim[c] = "check" => c \in Signup
        /\ pc[c] = "erase" => c \in Delete
        /\ aim[c] = "erase" => c \in Delete
        /\ c \in Delete => aim[c] \in {"erase", Null}
        /\ pc[c] = "idle" => aim[c] = Null
        /\ pc[c] # "idle" => who[c] \in Name /\ aim[c] # Null
        /\ pc[c] = "insert" => aim[c] = "check"
        /\ pc[c] \in {"auth", "issue", "in"} => aim[c] = "login"

\* An account in the database, in the cache or found is one that was inserted under
\* the name it is looked up by.
AccountOf(n, a) == a \in Signup /\ who[a] = n /\ aim[a] = "login"

AccountsNamed ==
    /\ \A n \in Name : db[n] # Null => AccountOf(n, db[n])
    /\ \A n \in Name : cache[n] # Null => AccountOf(n, cache[n])
    /\ \A c \in UserCall : pc[c] \in Found => AccountOf(who[c], user[c])

NobodyGone == \A c \in Delete : pc[c] # "gone"

\* While nobody is deleted, what was inserted stays, and what was found is so.
RowsStay ==
    NobodyGone =>
        /\ \A n \in Name : cache[n] \in {Null, db[n]}
        /\ \A a \in Signup : aim[a] = "login" => db[who[a]] = a
        /\ \A c \in UserCall : pc[c] \in Found => user[c] = db[who[c]]

UsersIInv == UsersTypeOK /\ RequestKnown /\ AccountsNamed /\ RowsStay

-----------------------------------------------------------------------------

\* The requests that are idle and empty caches satisfy the invariant.
LEMMA UsersInitial == UsersInit => UsersIInv
  BY UsersAssumption DEF UsersInit, UsersIInv, UsersTypeOK, RequestKnown, AccountsNamed,
     RowsStay, Found, UserCall, Waiting, Finished, Sessions, Aims

\* A function changed to what it is.
LEMMA Same ==
    ASSUME NEW S, NEW T, NEW f \in [S -> T], NEW x \in S
    PROVE  f = [f EXCEPT ![x] = f[x]]
  OBVIOUS

\* What get_user's caller does depends on its aim.
LEMMA GoalIs ==
    ASSUME NEW c \in UserCall, NEW u, aim[c] \in Aims
    PROVE  /\ Goal(c, u) \in {"insert", "out", "gone", "taken", "auth", "erase"}
           /\ Goal(c, u) = "insert" => aim[c] = "check"
           /\ Goal(c, u) = "auth" => aim[c] = "login" /\ u # Null
           /\ Goal(c, u) \in {"gone", "erase"} => aim[c] = "erase"
  BY DEF Goal, Aims

\* A request looks a user up for its own aim.
LEMMA Looking ==
    ASSUME UsersIInv, NEW c \in UserCall, pc[c] # "idle"
    PROVE  who[c] \in Name /\ aim[c] \in Aims
  BY DEF UsersIInv, UsersTypeOK, RequestKnown

\* Each action keeps the types.
LEMMA UsersTypesKept ==
    ASSUME UsersIInv, [UsersNext]_userVars
    PROVE  UsersTypeOK'
<1> USE UsersAssumption DEF UsersIInv, UsersTypeOK, Waiting, Finished, UserCall, Aims
<1>1. ASSUME NEW c \in UserCall, NEW n \in Name, Arrive(c, n)
      PROVE  UsersTypeOK'
  BY <1>1 DEF Arrive, Step, caches, clock
<1>2. ASSUME NEW c \in UserCall, FindCached(c) \/ SelectUser(c) \/ StoreUser(c)
      PROVE  UsersTypeOK'
  <2>1. who[c] \in Name /\ aim[c] \in Aims
    BY <1>2, Looking DEF FindCached, SelectUser, StoreUser
  <2>2. \A u : Goal(c, u) \in Waiting \cup Finished
    BY <2>1, GoalIs
  <2>3. CASE FindCached(c)
    BY <2>1, <2>2, <2>3 DEF FindCached, Return, Step, caches, request, clock
  <2>4. CASE SelectUser(c)
    BY <2>1, <2>2, <2>4 DEF SelectUser, Return, Step, caches, request, clock
  <2>5. CASE StoreUser(c)
    <3>1. user[c] \in Signup
      BY <2>5 DEF StoreUser, AccountsNamed, AccountOf, Found
    <3>. QED
      BY <2>1, <2>2, <2>5, <3>1 DEF StoreUser, Return, Step, request, clock
  <2>. QED
    BY <1>2, <2>3, <2>4, <2>5
<1>5. ASSUME NEW c \in UserCall, AddUser(c)
      PROVE  UsersTypeOK'
  <2>1. c \in Signup
    BY <1>5 DEF AddUser, Step, RequestKnown
  <2>. QED
    BY <1>5, <2>1 DEF AddUser, Step, caches, request, clock
<1>6. ASSUME NEW c \in UserCall, AuthUser(c)
      PROVE  UsersTypeOK'
  BY <1>6 DEF AuthUser, Step, caches, request, clock
<1>7. ASSUME NEW c \in UserCall, EraseUser(c)
      PROVE  UsersTypeOK'
  BY <1>7 DEF EraseUser, Step, request, clock
<1>8. ASSUME NEW c \in UserCall, NEW t \in Token, Authorize(c, t)
      PROVE  UsersTypeOK'
  <2>1. user[c] \in Signup
    BY <1>8 DEF Authorize, Step, AccountsNamed, AccountOf, Found
  <2>2. Session(c) \in Sessions
    BY <2>1 DEF Session, Sessions
  <2>. QED
    BY <1>8, <2>2 DEF Authorize, Step, request, clock
<1>9. CASE Tick \/ Cron
  BY <1>9 DEF Tick, Cron, caches, request
<1>10. ASSUME NEW t \in Token, Deauth(t)
       PROVE  UsersTypeOK'
  BY <1>10 DEF Deauth, request, clock
<1>11. CASE UNCHANGED userVars
  BY <1>11 DEF userVars
<1>. QED
  BY <1>1, <1>2, <1>5, <1>6, <1>7, <1>8, <1>9, <1>10, <1>11
  DEF UsersNext, UserStep

\* Each action keeps what requests know, whose accounts are found, and the rows.
LEMMA UsersInvariantKept ==
    ASSUME UsersIInv, [UsersNext]_userVars
    PROVE  RequestKnown' /\ AccountsNamed' /\ RowsStay'
<1> USE UsersAssumption DEF UsersIInv, UsersTypeOK, UserCall, Found, Aims
<1> DEFINE Kept == RequestKnown' /\ AccountsNamed' /\ RowsStay'
<1>1. ASSUME NEW c \in UserCall, NEW n \in Name, Arrive(c, n)
      PROVE  Kept
  <2>1. /\ pc' = [pc EXCEPT ![c] = "find"] /\ who' = [who EXCEPT ![c] = n]
        /\ pc[c] = "idle" /\ aim[c] = Null
        /\ UNCHANGED <<db, cache, user>>
    BY <1>1 DEF Arrive, Step, RequestKnown, caches
  <2>2. /\ aim' = [aim EXCEPT ![c] = aim'[c]]
        /\ \/ c \in Signup /\ aim'[c] = "check"
           \/ c \in Login /\ aim'[c] = "login"
           \/ c \in Delete /\ aim'[c] = "erase"
    BY <1>1 DEF Arrive
  <2>3. \A a \in Signup : aim[a] = "login" => a # c
    BY <2>1
  <2>4. RequestKnown'
    BY <2>1, <2>2 DEF RequestKnown
  <2>5. AccountsNamed'
    BY <2>1, <2>2, <2>3 DEF AccountsNamed, AccountOf
  <2>6. RowsStay'
    BY <2>1, <2>2, <2>3 DEF RowsStay, NobodyGone, AccountsNamed, AccountOf, RequestKnown
  <2>. QED
    BY <2>4, <2>5, <2>6
<1>2. ASSUME NEW c \in UserCall, FindCached(c) \/ SelectUser(c) \/ StoreUser(c)
      PROVE  Kept
  <2> DEFINE Right(u) == AccountOf(who[c], u) /\ (NobodyGone => u = db[who[c]])
             Moves(u) == /\ user' = [user EXCEPT ![c] = u]
                         /\ pc'[c] \in Found => Right(u)
                         /\ \/ UNCHANGED cache
                            \/ Right(u) /\ cache' = [cache EXCEPT ![who[c]] = u]
             Goes == /\ pc' = [pc EXCEPT ![c] = pc'[c]] /\ pc'[c] # "idle"
                     /\ pc'[c] = "insert" => aim[c] = "check"
                     /\ pc'[c] \in {"auth", "issue", "in"} => aim[c] = "login"
                     /\ pc'[c] = "erase" => aim[c] = "erase"
  <2>1. /\ UNCHANGED <<db, aim, who>>
        /\ pc[c] \in {"find", "select", "store"}
    BY <1>2 DEF FindCached, SelectUser, StoreUser, request
  <2>2. who[c] \in Name /\ aim[c] \in Aims
    BY <2>1, Looking
  <2>9. \A u : /\ Goal(c, u) \in {"insert", "out", "gone", "taken", "auth", "erase"}
               /\ Goal(c, u) = "insert" => aim[c] = "check"
               /\ Goal(c, u) = "auth" => aim[c] = "login" /\ u # Null
               /\ Goal(c, u) \in {"gone", "erase"} => aim[c] = "erase"
    BY <2>2, GoalIs
  <2>3. Goes /\ \E u \in Signup \cup {Null} : Moves(u)
    <3>1. CASE FindCached(c) /\ cache[who[c]] = Null
      <4>1. pc' = [pc EXCEPT ![c] = "select"] /\ UNCHANGED <<user, cache>>
        BY <3>1 DEF FindCached, Step, caches
      <4>2. user = [user EXCEPT ![c] = user[c]]
        BY Same
      <4>3. Goes /\ Moves(user[c])
        BY <4>1, <4>2
      <4>. QED BY <4>3
    <3>2. CASE FindCached(c) /\ cache[who[c]] # Null
      <4>1. Right(cache[who[c]]) /\ cache[who[c]] \in Signup
        BY <2>2, <3>2 DEF AccountsNamed, RowsStay
      <4>2. Goes /\ Moves(cache[who[c]])
        BY <2>2, <3>2, <4>1, GoalIs DEF FindCached, Return, Step, caches
      <4>. QED BY <4>1, <4>2
    <3>3. CASE SelectUser(c)
      <4>1. db[who[c]] # Null => Right(db[who[c]])
        BY <2>2 DEF AccountsNamed
      <4>2. UNCHANGED cache /\ user' = [user EXCEPT ![c] = db[who[c]]]
        BY <3>3 DEF SelectUser, Return, caches
      <4>3. \/ db[who[c]] = Null /\ pc' = [pc EXCEPT ![c] = Goal(c, Null)]
            \/ db[who[c]] # Null /\ pc' = [pc EXCEPT ![c] = "store"]
        BY <3>3 DEF SelectUser, Return, Step
      <4>4. Goes /\ (pc'[c] \in Found => Right(db[who[c]]))
        BY <2>2, <4>1, <4>3, <2>9
      <4>. QED BY <2>2, <4>2, <4>4
    <3>4. CASE StoreUser(c)
      <4>1. Right(user[c])
        BY <3>4 DEF StoreUser, AccountsNamed, RowsStay
      <4>2. /\ pc' = [pc EXCEPT ![c] = Goal(c, user[c])]
            /\ user' = [user EXCEPT ![c] = user[c]]
            /\ cache' = [cache EXCEPT ![who[c]] = user[c]]
        BY <3>4 DEF StoreUser, Return, Step
      <4>3. Goes
        BY <2>9, <4>2
      <4>4. user[c] \in Signup /\ Moves(user[c])
        BY <4>1, <4>2 DEF AccountOf
      <4>. QED BY <4>3, <4>4
    <3>. QED BY <1>2, <3>1, <3>2, <3>3, <3>4
  <2>4. PICK u \in Signup \cup {Null} : Moves(u)
    BY <2>3
  <2>5. RequestKnown'
    BY <2>1, <2>2, <2>3 DEF RequestKnown
  <2>6. AccountsNamed'
    BY <2>1, <2>2, <2>3, <2>4 DEF AccountsNamed, AccountOf
  <2>7. NobodyGone' => NobodyGone
    BY <2>1, <2>3 DEF NobodyGone
  <2>8. RowsStay'
    BY <2>1, <2>2, <2>3, <2>4, <2>7 DEF RowsStay
  <2>. QED
    BY <2>5, <2>6, <2>8
<1>3. ASSUME NEW c \in UserCall, AddUser(c)
      PROVE  Kept
  <2>1. /\ pc[c] = "insert" /\ aim[c] = "check" /\ c \in Signup /\ who[c] \in Name
        /\ UNCHANGED <<cache, who, user>>
    BY <1>3 DEF AddUser, Step, RequestKnown, caches, request
  <2>2. CASE /\ db[who[c]] = Null /\ db' = [db EXCEPT ![who[c]] = c]
             /\ pc' = [pc EXCEPT ![c] = "find"] /\ aim' = [aim EXCEPT ![c] = "login"]
    <3>1. RequestKnown'
      BY <2>1, <2>2 DEF RequestKnown
    <3>2. AccountsNamed'
      BY <2>1, <2>2 DEF AccountsNamed, AccountOf
    <3>3. NobodyGone' => NobodyGone
      BY <2>1, <2>2 DEF NobodyGone
    <3>4. NobodyGone => \A n \in Name : n = who[c] => cache[n] = Null
      BY <2>2 DEF RowsStay
    <3>5. \A d \in UserCall : pc'[d] \in Found => d # c /\ pc[d] \in Found
      BY <2>2
    <3>6. \A d \in UserCall : pc'[d] \in Found => AccountOf(who[d], user[d])
      BY <3>5 DEF AccountsNamed
    <3>7. NobodyGone => \A d \in UserCall : pc'[d] \in Found => user[d] = db[who[d]] /\ who[d] # who[c]
      BY <2>2, <3>5, <3>6 DEF RowsStay, AccountOf
    <3>8. NobodyGone => \A a \in Signup : aim[a] = "login" => db[who[a]] = a /\ who[a] # who[c]
      BY <2>1, <2>2 DEF RowsStay
    <3>9. RowsStay'
      BY <2>1, <2>2, <3>3, <3>4, <3>7, <3>8 DEF RowsStay, RequestKnown
    <3>. QED BY <3>1, <3>2, <3>9
  <2>3. CASE pc' = [pc EXCEPT ![c] = "error"] /\ UNCHANGED <<db, aim>>
    BY <2>1, <2>3 DEF RequestKnown, AccountsNamed, AccountOf, RowsStay, NobodyGone
  <2>. QED
    BY <1>3, <2>2, <2>3 DEF AddUser, Step
<1>4. ASSUME NEW c \in UserCall, AuthUser(c)
      PROVE  Kept
  <2>1. /\ pc[c] = "auth" /\ UNCHANGED <<db, cache, aim, who, user>>
        /\ \E to \in {"issue", "out", "error"} : pc' = [pc EXCEPT ![c] = to]
    BY <1>4 DEF AuthUser, Step, caches, request
  <2>. QED
    BY <2>1 DEF RequestKnown, AccountsNamed, AccountOf, RowsStay, NobodyGone
<1>5. ASSUME NEW c \in UserCall, NEW t \in Token, Authorize(c, t)
      PROVE  Kept
  <2>1. /\ pc[c] = "issue" /\ pc' = [pc EXCEPT ![c] = "in"]
        /\ UNCHANGED <<db, cache, aim, who, user>>
    BY <1>5 DEF Authorize, Step, request
  <2>. QED
    BY <2>1 DEF RequestKnown, AccountsNamed, AccountOf, RowsStay, NobodyGone
<1>6. ASSUME NEW c \in UserCall, EraseUser(c)
      PROVE  Kept
  <2>1. /\ pc[c] = "erase" /\ pc' = [pc EXCEPT ![c] = "gone"]
        /\ cache' = [cache EXCEPT ![who[c]] = Null] /\ db' = [db EXCEPT ![who[c]] = Null]
        /\ UNCHANGED <<aim, who, user>>
    BY <1>6 DEF EraseUser, Step, request
  <2>2. RequestKnown'
    BY <2>1 DEF RequestKnown
  <2>3. AccountsNamed'
    BY <2>1 DEF AccountsNamed, AccountOf
  <2>4. c \in Delete => ~NobodyGone'
    BY <2>1 DEF NobodyGone
  <2>. QED
    BY <2>1, <2>2, <2>3, <2>4 DEF RowsStay, RequestKnown
<1>7. CASE Tick \/ Cron \/ (\E t \in Token : Deauth(t)) \/ UNCHANGED userVars
  <2>1. UNCHANGED <<db, cache, pc, aim, who, user>>
    BY <1>7 DEF Tick, Cron, Deauth, userVars, caches, request
  <2>. QED
    BY <2>1 DEF RequestKnown, AccountsNamed, AccountOf, RowsStay, NobodyGone
<1>. QED
  BY <1>1, <1>2, <1>3, <1>4, <1>5, <1>6, <1>7 DEF UsersNext, UserStep

-----------------------------------------------------------------------------

\* The types, what requests know, and the rows hold in every state.
THEOREM UsersInvariant == UsersSpec => []UsersIInv
<1>1. UsersIInv /\ [UsersNext]_userVars => UsersIInv'
  BY UsersTypesKept, UsersInvariantKept DEF UsersIInv
<1>. QED
  BY <1>1, UsersInitial, PTL DEF UsersSpec

\* While nobody is deleted, get_user's three steps in whatever threads cache no
\* user the database does not have.
THEOREM CacheIsOfDatabase == UsersSpec => []CacheFollowsDatabase
<1>1. UsersIInv => CacheFollowsDatabase
  BY DEF UsersIInv, RowsStay, NobodyGone, CacheFollowsDatabase
<1>. QED
  BY <1>1, UsersInvariant, PTL

\* While nobody is deleted, a signup that is logged in made the account.
THEOREM SignupsAreOwn == UsersSpec => []SignedUpAsSelf
<1>1. UsersIInv => SignedUpAsSelf
  BY DEF UsersIInv, RequestKnown, RowsStay, NobodyGone, Found, UserCall, SignedUpAsSelf
<1>. QED
  BY <1>1, UsersInvariant, PTL

\* authorize_user gives a login a token nobody has, for the account found under
\* the name it asked for.
THEOREM TokensAreOfOneLogin == UsersSpec => TokenOfOneLogin
<1> DEFINE Given == \A c \in Signup \cup Login :
          pc[c] # "in" /\ pc'[c] = "in" =>
              /\ session[token'[c]] = Null
              /\ session'[token'[c]].account = user[c]
              /\ who[user[c]] = who[c]
<1>1. ASSUME UsersIInv, [UsersNext]_userVars
      PROVE  Given
  <2> SUFFICES ASSUME NEW c \in Signup \cup Login, pc[c] # "in", pc'[c] = "in"
               PROVE  /\ session[token'[c]] = Null
                      /\ session'[token'[c]].account = user[c]
                      /\ who[user[c]] = who[c]
    OBVIOUS
  <2>1. PICK t \in Token : Authorize(c, t)
    <3> USE <1>1 DEF UsersIInv, UsersTypeOK, UserCall
    <3>1. ASSUME NEW d \in UserCall, NEW n \in Name, Arrive(d, n) PROVE FALSE
      BY <3>1 DEF Arrive, Step
    <3>2. ASSUME NEW d \in UserCall, FindCached(d) \/ SelectUser(d) \/ StoreUser(d) PROVE FALSE
      <4>1. aim[d] \in Aims
        BY <3>2, Looking DEF FindCached, SelectUser, StoreUser
      <4>2. \A u : Goal(d, u) # "in"
        BY <4>1, GoalIs
      <4>. QED
        BY <3>2, <4>2 DEF FindCached, SelectUser, StoreUser, Return, Step
    <3>3. ASSUME NEW d \in UserCall, AddUser(d) \/ AuthUser(d) \/ EraseUser(d) PROVE FALSE
      BY <3>3 DEF AddUser, AuthUser, EraseUser, Step
    <3>4. ASSUME NEW d \in UserCall, NEW t \in Token, Authorize(d, t), d # c PROVE FALSE
      BY <3>4 DEF Authorize, Step
    <3>5. CASE Tick \/ Cron \/ (\E t \in Token : Deauth(t)) \/ UNCHANGED userVars
      BY <3>5 DEF Tick, Cron, Deauth, userVars
    <3>. QED
      BY <3>1, <3>2, <3>3, <3>4, <3>5 DEF UsersNext, UserStep
  <2>2. token'[c] = t /\ session[t] = Null /\ session'[t] = Session(c)
    BY <1>1, <2>1 DEF Authorize, UsersIInv, UsersTypeOK, UserCall
  <2>3. AccountOf(who[c], user[c])
    BY <1>1, <2>1 DEF Authorize, Step, UsersIInv, AccountsNamed, Found, UserCall
  <2>. QED
    BY <2>2, <2>3 DEF Session, AccountOf
<1>. QED
  BY <1>1, UsersInvariant, PTL DEF UsersSpec, TokenOfOneLogin
=============================================================================
