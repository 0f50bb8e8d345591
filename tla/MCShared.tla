------------------------------ MODULE MCShared ------------------------------
(***************************************************************************)
(* What the callbacks and threads of the server share, for TLC: the        *)
(* requests of the HTTP clients and the objects of repositories, of which  *)
(* a behaviour exercises the one its focus names.                          *)
(***************************************************************************)
EXTENDS HttpExchange, RepoCache

VARIABLE focus

sharedVars == <<focus, httpVars, cacheVars>>

HttpOnly == focus = "http" /\ UNCHANGED <<focus, cacheVars>>
CacheOnly == focus = "cache" /\ UNCHANGED <<focus, httpVars>>

SharedInit == focus \in {"http", "cache"} /\ HttpInit /\ CacheInit

SharedNext ==
    \/ HttpNext /\ HttpOnly
    \/ CacheNext /\ CacheOnly

\* What is fair in HttpExchange, and in RepoCache.
SharedFairSpec ==
    /\ SharedInit /\ [][SharedNext]_sharedVars
    /\ WF_sharedVars(HttpTick /\ HttpOnly)
    /\ \A e \in Exchange :
          /\ WF_sharedVars(pending[e] = "resolving" /\ (Resolved(e) \/ Fail(e)) /\ HttpOnly)
          /\ WF_sharedVars(Expire(e) /\ HttpOnly)
    /\ \A t \in Thread : WF_sharedVars(CacheStep(t) /\ CacheOnly)
=============================================================================
