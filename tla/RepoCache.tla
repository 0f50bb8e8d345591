----------------------------- MODULE RepoCache -----------------------------
(***************************************************************************)
(* The cache of LocalRepo objects of the git mod                           *)
(* (mods/git/src/Repos/LocalRepo.cpp): m_cache maps a repository's path to *)
(* a weak pointer, m_cache_lru keeps strong pointers to objects used       *)
(* lately, and the destructor of an object erases its path from m_cache.   *)
(* Threads of the mod call get_repo, get_repos and create; an object is    *)
(* destroyed by the thread that gives up the last strong pointer to it.    *)
(***************************************************************************)
EXTENDS Integers, Sequences

CONSTANTS
    RepoPath,   \* paths of repositories
    Object,     \* LocalRepo objects, each constructed at most once
    Thread,     \* threads of the mod
    Null,       \* no entry, nobody
    LruMax,     \* m_lru_max_size, 30 by default
    MaxCalls    \* bound of the calls each thread makes

ASSUME CacheAssumption ==
    /\ Null \notin Object /\ Null \notin RepoPath /\ Null \notin Thread
    /\ LruMax \in Nat \ {0}     \* get_repos_cache_size never returns 0
    /\ MaxCalls \in Nat

VARIABLES
    m_cache,    \* path -> the object the weak pointer was made for
    m_cache_lru,
    repoOf,     \* BasicRepo::path() of an object
    life,       \* where an object stands between construction and free
    listed,     \* objects made by get_repos, whose deleter erases the path too
    held,       \* strong pointers a thread's call holds
    readers,    \* holders of m_cache_mtx
    writer,
    lruOwner,   \* holder of m_cache_lru_mutex
    pc, want,   \* where a thread stands, and the repository it asked for
    dying,      \* the object whose destructor a thread runs
    calls

cacheVars == <<m_cache, m_cache_lru, repoOf, life, listed, held, readers,
               writer, lruOwner, pc, want, dying, calls>>
locks == <<readers, writer, lruOwner>>
objs == <<repoOf, listed>>

CacheTypeOK ==
    /\ m_cache \in [RepoPath -> Object \cup {Null}]
    /\ m_cache_lru \in Seq(Object)
    /\ Len(m_cache_lru) <= LruMax
    /\ repoOf \in [Object -> RepoPath \cup {Null}]
    /\ life \in [Object -> {"unborn", "alive", "dying", "erased", "gone"}]
    /\ listed \subseteq Object
    /\ held \in [Thread -> SUBSET Object]
    /\ readers \subseteq Thread
    /\ writer \in Thread \cup {Null}
    /\ lruOwner \in Thread \cup {Null}
    /\ pc \in [Thread -> {"idle", "reading", "create", "push", "purge",
                          "using", "destroy"}]
    /\ want \in [Thread -> RepoPath \cup {Null}]
    /\ dying \in [Thread -> Object \cup {Null}]
    /\ calls \in [Thread -> 0..MaxCalls]

CacheInit ==
    /\ m_cache = [r \in RepoPath |-> Null]
    /\ m_cache_lru = <<>>
    /\ repoOf = [o \in Object |-> Null]
    /\ life = [o \in Object |-> "unborn"]
    /\ listed = {}
    /\ held = [t \in Thread |-> {}]
    /\ readers = {} /\ writer = Null /\ lruOwner = Null
    /\ pc = [t \in Thread |-> "idle"]
    /\ want = [t \in Thread |-> Null]
    /\ dying = [t \in Thread |-> Null]
    /\ calls = [t \in Thread |-> 0]

Stands(t, place) == pc[t] = place
Go(t, place) == pc' = [pc EXCEPT ![t] = place]

CanRead == writer = Null
CanWrite == writer = Null /\ readers = {}

\* weak_ptr::lock of the entry of r succeeds.
Cached(r) == m_cache[r] # Null /\ life[m_cache[r]] = "alive"

InLru(o) == \E i \in 1..Len(m_cache_lru) : m_cache_lru[i] = o

Begin(t, r) ==
    /\ Stands(t, "idle")
    /\ calls[t] < MaxCalls
    /\ calls' = [calls EXCEPT ![t] = @ + 1]
    /\ want' = [want EXCEPT ![t] = r]

Hold(t, o) == held' = [held EXCEPT ![t] = @ \cup {o}]

\* Leaving get_repo: the lock guard goes.
Unlock(t) ==
    /\ readers' = readers \ {t}
    /\ writer' = IF writer = t THEN Null ELSE writer

-----------------------------------------------------------------------------
(* get_repo.                                                               *)

GetRepo(t, r) ==
    /\ Begin(t, r)
    /\ CanRead
    /\ readers' = readers \cup {t}
    /\ Go(t, "reading")
    /\ UNCHANGED <<m_cache, m_cache_lru, objs, life, held, writer, lruOwner,
                   dying>>

\* Mutant: the read lock is kept for the second look-up.
FindShared_NotUnlocked(t) ==
    /\ Stands(t, "reading")
    /\ \/ /\ Cached(want[t])
          /\ Hold(t, m_cache[want[t]])
          /\ Go(t, "push")
       \/ /\ ~Cached(want[t])
          /\ Go(t, "create")
          /\ UNCHANGED held
    /\ UNCHANGED <<m_cache, m_cache_lru, objs, life, locks, want, dying, calls>>

\* The look-up under the read lock, which is kept over cache_lru_push.
FindShared(t) ==
    /\ Stands(t, "reading")
    /\ \/ /\ Cached(want[t])
          /\ Hold(t, m_cache[want[t]])
          /\ Go(t, "push")
          /\ UNCHANGED readers
       \/ /\ ~Cached(want[t])
          /\ readers' = readers \ {t}
          /\ Go(t, "create")
          /\ UNCHANGED held
    /\ UNCHANGED <<m_cache, m_cache_lru, objs, life, writer, lruOwner, want,
                   dying, calls>>

\* The second look-up, under the write lock.
FindExclusive(t) ==
    /\ Stands(t, "create")
    /\ CanWrite
    /\ Cached(want[t])
    /\ writer' = t
    /\ Hold(t, m_cache[want[t]])
    /\ Go(t, "push")
    /\ UNCHANGED <<m_cache, m_cache_lru, objs, life, readers, lruOwner, want,
                   dying, calls>>

\* Still not there: construct it.  The entry is assigned.
Construct(t) ==
    /\ Stands(t, "create")
    /\ CanWrite
    /\ ~Cached(want[t])
    /\ \E o \in Object :
          /\ life[o] = "unborn"
          /\ life' = [life EXCEPT ![o] = "alive"]
          /\ repoOf' = [repoOf EXCEPT ![o] = want[t]]
          /\ m_cache' = [m_cache EXCEPT ![want[t]] = o]
          /\ Hold(t, o)
    /\ Go(t, "using")
    /\ UNCHANGED <<m_cache_lru, listed, locks, want, dying, calls>>

-----------------------------------------------------------------------------
(* cache_lru_push, called with m_cache_mtx held.                           *)

LruFull == Len(m_cache_lru) >= LruMax

PushHeld(t) ==
    /\ \E o \in held[t] : m_cache_lru' = Append(m_cache_lru, o)
    /\ Unlock(t)
    /\ Go(t, "using")

Push(t) ==
    /\ Stands(t, "push")
    /\ lruOwner = Null
    /\ \/ ~LruFull /\ PushHeld(t) /\ UNCHANGED lruOwner
       \/ /\ LruFull
          /\ lruOwner' = t
          /\ Go(t, "purge")
          /\ UNCHANGED <<m_cache_lru, readers, writer>>
    /\ UNCHANGED <<m_cache, objs, life, held, want, dying, calls>>

\* A strong pointer to o goes: if it is the last, t runs the destructor.
LastReference(t, o) ==
    /\ \A u \in Thread \ {t} : o \notin held[u]
    /\ o \notin held'[t]
    /\ \A i \in 1..Len(m_cache_lru') : m_cache_lru'[i] # o

Release(t, o, next) ==
    \/ /\ LastReference(t, o)
       /\ life' = [life EXCEPT ![o] = "dying"]
       /\ dying' = [dying EXCEPT ![t] = o]
       /\ Go(t, "destroy")
    \/ /\ ~LastReference(t, o)
       /\ UNCHANGED <<life, dying>>
       /\ Go(t, next)

\* m_cache_lru.clear(), element by element.
PurgeOne(t) ==
    /\ Stands(t, "purge")
    /\ m_cache_lru # <<>>
    /\ m_cache_lru' = Tail(m_cache_lru)
    /\ UNCHANGED held
    /\ Release(t, Head(m_cache_lru), "purge")
    /\ UNCHANGED <<m_cache, objs, locks, want, calls>>

PurgeDone(t) ==
    /\ Stands(t, "purge")
    /\ m_cache_lru = <<>>
    /\ PushHeld(t)
    /\ lruOwner' = Null
    /\ UNCHANGED <<m_cache, objs, life, held, want, dying, calls>>

-----------------------------------------------------------------------------
(* Objects: use, release and destruction.                                  *)

\* The caller of get_repo or get_repos is done with an object.
Drop(t) ==
    /\ Stands(t, "using")
    /\ \E o \in held[t] :
          /\ held' = [held EXCEPT ![t] = @ \ {o}]
          /\ UNCHANGED m_cache_lru
          /\ Release(t, o, IF held[t] = {o} THEN "idle" ELSE "using")
    /\ UNCHANGED <<m_cache, objs, locks, want, calls>>

\* Mutant: the path is left in the map.
ErasePath_Not(o) == UNCHANGED m_cache

ErasePath(o) == m_cache' = [m_cache EXCEPT ![repoOf[o]] = Null]

\* ~LocalRepo takes the write lock and erases the path; the deleter of an object
\* of get_repos does so before it, on its own.
Destroy(t) ==
    /\ Stands(t, "destroy")
    /\ CanWrite
    /\ ErasePath(dying[t])
    /\ \/ /\ dying[t] \in listed /\ life[dying[t]] = "dying"
          /\ life' = [life EXCEPT ![dying[t]] = "erased"]
          /\ UNCHANGED <<dying, pc>>
       \/ /\ dying[t] \notin listed \/ life[dying[t]] = "erased"
          /\ life' = [life EXCEPT ![dying[t]] = "gone"]
          /\ dying' = [dying EXCEPT ![t] = Null]
          /\ Go(t, IF lruOwner = t THEN "purge"
                   ELSE IF held[t] = {} THEN "idle" ELSE "using")
    /\ UNCHANGED <<m_cache_lru, objs, held, locks, want, calls>>

-----------------------------------------------------------------------------
(* create and get_repos.                                                   *)

\* create: the object it builds the repository with is a temporary, and its
\* destructor erases the path, whether the repository was created or not.
Create(t, r) ==
    /\ Begin(t, r)
    /\ CanWrite
    /\ m_cache' = [m_cache EXCEPT ![r] = Null]
    /\ UNCHANGED <<m_cache_lru, objs, life, held, locks, pc, dying>>

\* get_repos, of the repositories asked: emplace leaves an entry whose object
\* is being destroyed as it is.
GetRepos(t, asked) ==
    /\ \E r \in asked : Begin(t, r)
    /\ CanWrite
    /\ \E found \in [asked -> Object] :
          LET new == {r \in asked : ~Cached(r)} IN
          /\ \A r \in asked \ new : found[r] = m_cache[r]
          /\ \A r \in new : life[found[r]] = "unborn"
          /\ \A r, q \in new : r # q => found[r] # found[q]
          /\ held' = [held EXCEPT ![t] = {found[r] : r \in asked}]
          /\ listed' = listed \cup {found[r] : r \in new}
          /\ life' = [o \in Object |->
                        IF \E r \in new : found[r] = o THEN "alive"
                        ELSE life[o]]
          /\ repoOf' = [o \in Object |->
                        IF \E r \in new : found[r] = o
                        THEN CHOOSE r \in new : found[r] = o ELSE repoOf[o]]
          /\ m_cache' = [r \in RepoPath |->
                        IF r \in new /\ m_cache[r] = Null THEN found[r]
                        ELSE m_cache[r]]
    /\ Go(t, "using")
    /\ UNCHANGED <<m_cache_lru, locks, dying>>

CacheStep(t) ==
    \/ FindShared(t) \/ FindExclusive(t) \/ Construct(t)
    \/ Push(t) \/ PurgeOne(t) \/ PurgeDone(t)
    \/ Drop(t) \/ Destroy(t)

CacheCall(t) ==
    \/ \E r \in RepoPath : GetRepo(t, r) \/ Create(t, r)
    \/ \E asked \in (SUBSET RepoPath) \ {{}} : GetRepos(t, asked)

CacheNext == \E t \in Thread : CacheCall(t) \/ CacheStep(t)

CacheSpec == CacheInit /\ [][CacheNext]_cacheVars

\* A thread that can run does; calls of the mod are bounded, so no lock is
\* asked for without end.
CacheFairSpec == CacheSpec /\ \A t \in Thread : WF_cacheVars(CacheStep(t))

-----------------------------------------------------------------------------

\* The map never leads to freed memory, nor to the object of another path: a
\* destructor that runs late, after the path was given to a newer object or
\* erased for it by create, leaves nothing behind.
FreedNotCached ==
    \A r \in RepoPath : m_cache[r] # Null =>
        /\ repoOf[m_cache[r]] = r
        /\ life[m_cache[r]] \in {"alive", "dying"}

\* Every strong pointer, of a call or of the LRU list, is to an object whose
\* destructor has not started, and an object without one is being destroyed by
\* exactly one thread: no use after free, no double free, no leak.
Ownership ==
    \A o \in Object :
        /\ life[o] = "alive" <=> InLru(o) \/ \E t \in Thread : o \in held[t]
        /\ life[o] \in {"dying", "erased"} <=> \E t \in Thread : dying[t] = o
        /\ \A t, u \in Thread : dying[t] = o /\ dying[u] = o => t = u

\* The cache hands out no memory that is freed, frees none twice and keeps none:
\* the map, the list and the pointers of the threads agree on what is alive.
MemorySafety == CacheTypeOK /\ FreedNotCached /\ Ownership

\* A thread that asks for a repository gets it and a destructor gets the lock,
\* whatever the other threads do: unless the list fills up and is purged, or the
\* objects of this instance of the model run out.
Stalled == lruOwner # Null \/ \A o \in Object : life[o] # "unborn"

EveryGetReturns ==
    \A t \in Thread :
        pc[t] \in {"reading", "create", "push"} ~> pc[t] = "using" \/ Stalled

\* A destructor that starts ends, unless a purge runs.
EveryDestructorEnds ==
    \A o \in Object : life[o] = "dying" ~> life[o] = "gone" \/ lruOwner # Null

\* No thread waits for ever for the locks of the cache but behind a purge.
LocksAreGivenBack == EveryGetReturns /\ EveryDestructorEnds

\* "Purge cache", cache_lru_push says of a full list: who begins that comes to an end.
PurgeEnds == \A t \in Thread : pc[t] = "purge" ~> pc[t] = "using"

\* "Can only have GitRepo instance per repository", LocalRepo's constructor says: two
\* threads that use a repository at a time use one object, and so one mutex.
OneInstancePerRepo ==
    \A o, p \in Object :
        life[o] = "alive" /\ life[p] = "alive" /\ o # p => repoOf[o] # repoOf[p]
=============================================================================
