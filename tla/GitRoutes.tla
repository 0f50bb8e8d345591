----------------------------- MODULE GitRoutes -----------------------------
(***************************************************************************)
(* How the git mod routes a request (mods/git/src/Routes/): its handler    *)
(* asks the routers in their order for one that answers.  The handler runs *)
(* on a thread of the server; an exception that leaves it ends the server. *)
(*                                                                         *)
(* A url is a sequence of tokens: the separators, ".git", and the words    *)
(* between them: Terse ones of one character, Short ones of two, the others*)
(* of three or more, which makes no difference.                            *)
(***************************************************************************)
EXTENDS GitSearch

CONSTANTS
    Here, Away,         \* the domain of this instance, and of another
    Terse, Short,       \* words of one character, of two
    ApiLike, RepoLike   \* words that begin with "api", with "repo"

VARIABLES
    call,       \* the request
    routePc,
    answers,    \* how often it has been answered
    status,     \* of its last answer
    pending,    \* a request to the mod of another instance is under way
    served,     \* what was read or handed to git, for which repository
    onDisk,     \* repositories that have a directory
    gitUp

routeVars == <<call, routePc, answers, status, pending, served, onDisk, gitUp>>

NoCall == [url |-> <<>>, means |-> <<>>, post |-> FALSE, form |-> <<>>]
NotServed == [what |-> "nothing"]

-----------------------------------------------------------------------------
(* Urls.                                                                   *)

Separator == {"/", "?", "@"}
Width(url) ==
    Len(url) + Cardinality({i \in DOMAIN url : url[i] \notin Separator \cup Terse})
             + Cardinality({i \in DOMAIN url : url[i] \notin Separator \cup Terse \cup Short})

\* Where the first token of Ts at i or after is, or one past the end.
Find1(url, Ts, i) ==
    LET at == {j \in i..Len(url) : url[j] \in Ts} IN
    IF at = {} THEN Len(url) + 1 ELSE CHOOSE j \in at : \A k \in at : j <= k

Drop1(url, n) == SubSeq(url, n + 1, Len(url))
Slice(url, i, j) == SubSeq(url, i, IF j > Len(url) THEN Len(url) ELSE j)
Tokens(url) == {url[i] : i \in DOMAIN url}
NoSlashes(url) ==
    LET words == {j \in DOMAIN url : url[j] # "/"} IN
    IF words = {} THEN <<>> ELSE Drop1(url, (CHOOSE j \in words : \A k \in words : j <= k) - 1)

\* What has been read of a path before it proves to be none stays in the object.
Invalid(instance) == [kind |-> "invalid", instance |-> instance]
Throws == [kind |-> "throws"]
Parsed(owner, instance, name) ==
    [kind |-> "repo", owner |-> owner, name |-> name, instance |-> instance]

Foreign(instance) == IF instance = <<Here>> THEN <<>> ELSE instance

\* Mutant: ".git" stays.
EndOfName_Whole(url, end) == end

EndOfName(url, end) == IF url[end - 1] = ".git" THEN end - 1 ELSE end

\* Mutant: the '@' before the owner stays.
Unescaped_Not(url) == url

Unescaped(url) == IF url # <<>> /\ Head(url) = "@" THEN Tail(url) ELSE url

\* There are no four characters before the end that could be ".git".
TooShort(url, end) == Width(SubSeq(url, 1, end - 1)) < 4

\* BasicRepo::from_path.  A url whose first '@' stands behind the owner is invalid.
FromPath(full) ==
    LET bare == NoSlashes(full)
        url == Unescaped(bare)
        slash == Find1(url, {"/"}, 1)
        at == Find1(url, {"@"}, 1)
        owner == SubSeq(url, 1, (IF at > Len(url) THEN slash ELSE at) - 1)
        instance == IF at > Len(url) THEN <<>> ELSE Foreign(SubSeq(url, at + 1, slash - 1))
        end == Find1(url, {"/", "?"}, slash + 1)
        name == SubSeq(url, slash + 1, EndOfName(url, end) - 1) IN
    IF Width(full) < 3 THEN Invalid(<<>>)
    ELSE IF bare = <<>> THEN Throws
    ELSE IF Width(url) < 3 \/ slash > Len(url) \/ (at <= Len(url) /\ at > slash) THEN Invalid(<<>>)
    ELSE IF slash = Len(url) THEN Invalid(instance)
    ELSE IF TooShort(url, end) THEN Throws
    ELSE IF name = <<>> THEN Invalid(instance)
    ELSE Parsed(owner, instance, name)

\* What repo_router takes for the path below the repository: a '/' in the query
\* of a url without one ends the name too.
SubPath(full) ==
    LET url == NoSlashes(full)
        rest == Drop1(url, Find1(url, {"/"}, 1) - 1)
        slash == Find1(rest, {"/"}, 2)
        end == IF slash <= Len(rest) THEN slash ELSE Find1(rest, {"?"}, 1) IN
    NoSlashes(Drop1(rest, end - 1))

\* The directory git http-backend opens: the path as it was sent, up to the service
\* at its end.  It opens none for a path without one.
Services == {<<"/", "info", "/", "refs">>, <<"/", "git-receive-pack">>}
GitDir(url) ==
    LET path == SubSeq(NoSlashes(url), 1, Find1(NoSlashes(url), {"?"}, 1) - 1)
        dirs == {dir \in {SubSeq(path, 1, n) : n \in 0..Len(path)} :
                    \E service \in Services : path = dir \o service} IN
    IF dirs = {} THEN <<>> ELSE CHOOSE dir \in dirs : TRUE

\* A repository in a url, as the comment over from_path spells it.
Spelled(repo) ==
    {ats \o <<repo[1]>> \o instance \o <<"/", repo[2]>> \o git :
        ats \in {<<>>, <<"@">>}, git \in {<<>>, <<".git">>},
        instance \in {<<>>, <<"@", Here>>, <<"@", Away>>}}

Below == {<<>>, <<"?", "tab">>, <<"?", "/">>, <<"?", "@">>, <<"/", "commit", "/", "c0ffee">>,
          <<"/", "commit", "/", "none">>, <<"/", "tickets">>, <<"/", "info", "/", "refs">>,
          <<"/", "git-receive-pack">>,
          <<"/", "info", "/", "refs", "?", "git-receive-pack">>}

Words == {Names[i] : i \in DOMAIN Names}

\* The names that a url can spell have no separator in them and do not end in ".git".
\* repo_create_post asks nothing of a name; a repository with another is not reached.
ASSUME RoutesAssumption ==
    /\ (Local \cup Words \cup Short) \cap (Separator \cup {".git"}) = {}
    /\ Short \cap Terse = {}
    /\ (ApiLike \cup RepoLike \cup {Here, Away}) \cap Separator = {}
    /\ "api" \in ApiLike /\ "repo" \in RepoLike

PlainUrls ==
    {<<"/">>, <<"/", "?", "tab">>, <<"/", "main.css">>, <<"/", "/", "/">>,
     <<"/", "fonts", "/", "woff">>, <<"/", "fonts", "/", "other">>,
     <<"/", "api", "/", "v1">>, <<"/", "api", "/", "ticket", "/">>,
     <<"/", "repo", "/", "new">>, <<"/", "repo", "/", "other">>} \cup
    {<<"/", u>> \o below : u \in Local \cup {"api", "repo"},
        below \in {<<>>, <<"/">>, <<"?", "tab">>, <<"/", "?", "tab">>}} \cup
    {<<"/">> \o ats \o <<u>> \o instance \o <<"/", "/", "tab">> : u \in Local \cup Short,
        ats \in {<<>>, <<"@">>}, instance \in {<<>>, <<"@", Away>>}} \cup
    {<<"/", "api", "/", "repo", "/", endpoint, "/", u>> \o below :
        endpoint \in {"info", "tree"}, u \in Local \cup Short,
        below \in {<<"@", Here, "/">>, <<"@", Away, "/">>, <<"/", "?", "tab">>}} \cup
    {<<"/", "api", "/", "user", "/", u>> \o instance \o below : u \in Local,
        instance \in {<<>>, <<"@", Here>>, <<"@", Away>>},
        below \in {<<>>, <<"/", "likes">>, <<"/", "likes", "?", "bad">>,
                   <<"/", "likes_count">>, <<"/", "other">>}}

RepoUrls(repo) ==
    {<<"/", "api", "/", "repo", "/", endpoint, "/">> \o url :
        endpoint \in {"info", "tree"}, url \in Spelled(repo)} \cup
    {<<"/", "/">> \o url : url \in Spelled(repo)} \cup
    {<<"/">> \o url \o below : below \in Below, url \in Spelled(repo)}

\* The form that creates a repository.
Forms == [owner : Local, instance : {<<>>, <<Here>>, <<Away>>}, name : Words]

\* means: the repository a url spells.
PlainCalls == [url : PlainUrls, means : {<<>>}, post : {FALSE}, form : {<<>>}]
RepoCalls(repo) == [url : RepoUrls(repo), means : {repo}, post : {FALSE}, form : {<<>>}]
FormCalls ==
    [url : {<<"/", "repo", "/", "new">>}, means : {<<>>}, post : {TRUE}, form : {<<>>} \cup Forms]

-----------------------------------------------------------------------------

RoutesInit ==
    /\ call = NoCall
    /\ routePc = "idle"
    /\ answers = 0 /\ status = 0
    /\ pending = FALSE
    /\ served = NotServed
    /\ onDisk = Repo
    /\ gitUp = TRUE

RoutesTypeOK ==
    /\ call = NoCall \/ call.form \in {<<>>} \cup Forms
    /\ routePc \in {"idle", "handling", "creating", "inserting", "done"}
    /\ answers \in 0..2 /\ status \in {0, 200, 303, 400, 401, 404, 500}
    /\ pending \in BOOLEAN /\ gitUp \in BOOLEAN
    /\ Repo \subseteq onDisk

NextCall(c) ==
    /\ gitUp /\ routePc = "idle"
    /\ call' = c
    /\ routePc' = "handling"
    /\ UNCHANGED <<answers, status, pending, served, onDisk, gitUp>>

NoRequest ==
    /\ routePc' = "idle" /\ call' = NoCall
    /\ answers' = 0 /\ status' = 0 /\ pending' = FALSE /\ served' = NotServed
    /\ UNCHANGED onDisk

ThreadIsFree ==
    /\ gitUp /\ routePc = "done" /\ ~pending
    /\ NoRequest /\ UNCHANGED gitUp

\* The thread is at a place of the handler.
At(place) == gitUp /\ routePc = place

Stays == UNCHANGED <<call, gitUp>>
Responds(code) == answers' = answers + 1 /\ status' = code
Answers(code) == Responds(code) /\ routePc' = "done"
Says(code) == Answers(code) /\ Stays /\ UNCHANGED <<pending, served, onDisk>>

Denial == IF asker = Nobody THEN 303 ELSE 401

\* The exception leaves the handler, and its thread.
Ends ==
    /\ gitUp' = FALSE /\ routePc' = "done"
    /\ UNCHANGED <<call, answers, status, pending, served, onDisk>>

Begins(words) == Len(call.url) > 1 /\ call.url[2] \in words

\* static_asset_router and user_router, which answers every path of one component.
IsAsset ==
    \/ Slice(call.url, 1, 2) \in {<<"/">>, <<"/", "?">>, <<"/", "main.css">>}
    \/ call.url = <<"/", "fonts", "/", "woff">>
IsUser ==
    LET end == Find1(call.url, {"/", "?"}, 2) IN
    \/ end >= Len(call.url)
    \/ "?" \in Tokens(Slice(call.url, end, end + 1))

StaticOrUser == At("handling") /\ (IsAsset \/ IsUser) /\ Says(200)

Routed(words) == At("handling") /\ ~IsAsset /\ ~IsUser /\ Begins(words)

\* send_to_peer makes a request to the other instance, and does not send it.
SendToPeer ==
    /\ routePc' = "done"
    /\ Stays /\ UNCHANGED <<answers, status, pending, served, onDisk>>

\* What api_router hands to repo_api and to user_api.
ApiEndpoint == Slice(call.url, 3, 6)
ForRepoApi == ApiEndpoint \in {<<"/", "repo", "/", "info">>, <<"/", "repo", "/", "tree">>}
ForUserApi == Slice(call.url, 3, 5) = <<"/", "user", "/">>

\* api_router with user_api.
ApiUser ==
    /\ Routed({"api"}) /\ ForUserApi
    /\ LET rest == Drop1(call.url, 6)
           end == Find1(rest, {"/"}, 1) IN
       IF end > Len(rest) THEN Says(404)
       ELSE IF SubSeq(rest, 1, end - 1) = <<"@", Away>> THEN SendToPeer
       ELSE Says(IF Drop1(rest, end) = <<"likes", "?", "bad">> THEN 400
                 ELSE IF rest[end + 1] \in {"likes", "likes_count"} THEN 200 ELSE 404)

Serves(repo, what) ==
    /\ served' = [what |-> what, repo |-> repo]
    /\ Answers(200) /\ Stays /\ UNCHANGED <<pending, onDisk>>

IsOf(repo, parsed) == <<repo[1]>> = parsed.owner /\ <<repo[2]>> = parsed.name
InRepos(parsed) == \E r \in Repo : IsOf(r, parsed)

\* repo_api.  A path that is no repository's is looked up as one without a name,
\* here or on the instance in it.  The data of a repository is not a matter of access.
ApiRepo ==
    /\ Routed({"api"}) /\ ForRepoApi
    /\ LET repo == FromPath(Drop1(call.url, 6)) IN
       IF repo.kind = "throws" THEN Ends
       ELSE IF repo.instance # <<>> THEN SendToPeer
       ELSE IF repo.kind = "invalid" \/ ~InRepos(repo) THEN Says(404)
       ELSE IF ApiEndpoint[4] = "tree" THEN Says(500)
       ELSE \E r \in Repo : IsOf(r, repo) /\ Serves(r, "info")

\* Anything else that begins with "/api" ends here, the repositories of a user
\* whose name does among them.
ApiOther ==
    /\ Routed(ApiLike)
    /\ call.url[2] = "api" => ~ForRepoApi /\ ~ForUserApi
    /\ Says(IF call.url = <<"/", "api", "/", "v1">> THEN 400 ELSE 404)

-----------------------------------------------------------------------------
(* /repo/new and LocalRepo::create.                                        *)

IsNew == Slice(call.url, 2, 4) = <<"repo", "/", "new">>

\* repo_router for "/repo...", repo_create_get, and repo_create_post up to the
\* form.
RepoPage ==
    /\ Routed(RepoLike)
    /\ ~(IsNew /\ call.post /\ asker \in Local /\ call.form # <<>>)
    /\ Says(IF asker \notin Local THEN Denial
            ELSE IF ~IsNew THEN 404 ELSE IF call.post THEN 400 ELSE 200)

Posted == Routed(RepoLike) /\ IsNew /\ call.post /\ asker \in Local /\ call.form # <<>>

\* A repository of another instance is asked for there, and the handler goes on.
CreateAway ==
    /\ Posted /\ call.form.instance = <<Away>>
    /\ pending' = TRUE
    /\ routePc' = "creating"
    /\ Stays /\ UNCHANGED <<answers, status, served, onDisk>>

CreateHere ==
    /\ Posted /\ call.form.instance # <<Away>>
    /\ routePc' = "creating"
    /\ Stays /\ UNCHANGED <<answers, status, pending, served, onDisk>>

New == <<call.form.owner, call.form.name>>

\* The owner is the requester, the instance this one, and the name free.
CreateRefused ==
    /\ At("creating")
    /\ call.form.owner # asker \/ call.form.instance = <<Away>> \/ New \in Repo
    /\ Says(IF call.form.owner # asker THEN 401 ELSE 400)

\* create_directory fails when the directory is there.
CreateDirectory ==
    /\ At("creating")
    /\ call.form.owner = asker /\ call.form.instance # <<Away>> /\ New \notin Repo
    /\ IF New \in onDisk THEN Says(500)
       ELSE /\ onDisk' = onDisk \cup {New}
            /\ routePc' = "inserting"
            /\ Stays /\ UNCHANGED <<answers, status, pending, served>>

InitFails == At("inserting") /\ Says(500)

\* The row has no lastUpdateTs, which the table wants: exec throws.
Insert == At("inserting") /\ Ends

-----------------------------------------------------------------------------
(* repo_router for a repository.                                           *)

\* The url is passed on to repo_router.
ToRepo == At("handling") /\ ~IsAsset /\ ~IsUser /\ ~Begins(ApiLike \cup RepoLike)
TheRepo == FromPath(call.url)

NoRepo ==
    /\ ToRepo
    /\ \/ TheRepo.kind = "throws" /\ Ends
       \/ TheRepo.kind = "invalid" /\ Says(404)
       \/ TheRepo.kind = "repo" /\ TheRepo.instance = <<>> /\ ~InRepos(TheRepo) /\ Says(404)

\* Mutant: the handler goes on to the answer for what it does not know.
RemoteRepo_NotReturned ==
    /\ ToRepo /\ TheRepo.kind = "repo" /\ TheRepo.instance # <<>>
    /\ pending' = TRUE
    /\ Answers(404)
    /\ Stays /\ UNCHANGED <<served, onDisk>>

RemoteRepo ==
    /\ ToRepo /\ TheRepo.kind = "repo" /\ TheRepo.instance # <<>>
    /\ pending' = TRUE
    /\ routePc' = "done"
    /\ Stays /\ UNCHANGED <<answers, status, served, onDisk>>

Found(repo) ==
    /\ ToRepo /\ TheRepo.kind = "repo" /\ TheRepo.instance = <<>>
    /\ IsOf(repo, TheRepo)

IsPage == Slice(SubPath(call.url), 1, 1) \in {<<>>, <<"?">>}

ShowPage(repo) ==
    /\ Found(repo) /\ IsPage
    /\ IF CanAccess(repo, Read, asker) THEN Serves(repo, "page") ELSE Says(Denial)

\* Commits and tickets are not served yet.
NotServedYet(repo) ==
    /\ Found(repo) /\ ~IsPage /\ Head(SubPath(call.url)) \in {"commit", "tickets"}
    /\ Says(IF Len(SubPath(call.url)) = 3 /\ SubPath(call.url)[3] = "none" THEN 400 ELSE 404)

\* Mutant: only the last word of the url tells a push.
IsPush_Last == call.url[Len(call.url) - 1] = "/" /\ call.url[Len(call.url)] = "git-receive-pack"

IsPush == \E i \in DOMAIN call.url : call.url[i] = "git-receive-pack"

ToGit(repo) ==
    /\ Found(repo) /\ ~IsPage /\ Head(SubPath(call.url)) \notin {"commit", "tickets"}
    /\ IF CanAccess(repo, IF IsPush THEN Write ELSE Read, asker) THEN Serves(repo, "git")
       ELSE \E code \in {401, Denial} : Says(code)

-----------------------------------------------------------------------------

\* The callback of request_mod: the answer of the peer, or that there is none.
PeerAnswers ==
    /\ gitUp /\ pending
    /\ pending' = FALSE
    /\ \E code \in {200, 404, 500} : Responds(code)
    /\ UNCHANGED <<call, routePc, served, onDisk, gitUp>>

GitRestarts ==
    /\ ~gitUp
    /\ gitUp' = TRUE
    /\ NoRequest

Handler ==
    \/ StaticOrUser \/ ApiUser \/ ApiRepo \/ ApiOther \/ RepoPage
    \/ CreateAway \/ CreateHere \/ CreateRefused \/ CreateDirectory \/ InitFails \/ Insert
    \/ NoRepo \/ RemoteRepo
    \/ \E r \in Repo : ShowPage(r) \/ NotServedYet(r) \/ ToGit(r)

RoutesNext ==
    \/ \E c \in PlainCalls \cup FormCalls : NextCall(c)
    \/ \E r \in Local \X Words : \E c \in RepoCalls(r) : NextCall(c)
    \/ Handler \/ PeerAnswers \/ ThreadIsFree \/ GitRestarts

\* The rows stay as they are while requests are handled.
RoutesSpec ==
    /\ SearchInit /\ RoutesInit
    /\ [][RoutesNext /\ UNCHANGED searchVars]_<<searchVars, routeVars>>

-----------------------------------------------------------------------------

\* What from_path reads in a url that spells a repository: the url, or the part of
\* it behind "/api/repo/info" and "/api/repo/tree".
WhatIsRead == FromPath(IF Begins({"api"}) THEN Drop1(call.url, 6) ELSE call.url)
Meant == Parsed(<<call.means[1]>>, <<>>, <<call.means[2]>>)

\* The url spells a repository of this instance.  One of a user called "api" needs
\* the slashes or the '@' before it, else its url is one of the API.  A path of an
\* owner and a name of one character each ends the server (see AnsweredOnce).
SpellsOne ==
    /\ call.means # <<>> /\ ~({call.means[1], call.means[2]} \subseteq Terse)
    /\ call.means[1] = "api" => ~Begins({"api"})
    /\ Away \notin Tokens(call.url)

AtInQuery == \E i, j \in DOMAIN call.url : i < j /\ call.url[i] = "?" /\ call.url[j] = "@"

\* However a repository is spelled (slashes before it, an '@', the domain of this
\* instance, ".git", a path or a query below it), its url names that repository; with
\* an '@' below it, that repository or none, never another.
SpellingsAgree ==
    SpellsOne => WhatIsRead = Meant \/ (AtInQuery /\ WhatIsRead.kind = "invalid")

\* "[... things we don't care about]" (BasicRepo.cpp:20): what stands below a
\* repository does not change which one its url names.
AnythingMayStandBelow == SpellsOne => WhatIsRead = Meant

\* Whatever a request is taken for on its way through the routers, only one who
\* may read a repository gets its page or its objects, and only one who may write
\* gets to push; the directory git opens is that repository's or none.  That is so
\* for paths without a "..", which git follows and the check does not: the requests
\* here have none.  The data of the API is for everyone (see InfoIsForReaders).
ServedWithAccess ==
    /\ RoutesTypeOK
    /\ served.what \in {"page", "git"} =>
           LET push == served.what = "git" /\ "git-receive-pack" \in Tokens(call.url) IN
           CanAccess(served.repo, IF push THEN Write ELSE Read, asker)
    /\ served.what = "git" =>
           \/ GitDir(call.url) = <<served.repo[1], "/", served.repo[2]>>
           \/ GitDir(call.url) \notin {<<r[1], "/", r[2]>> : r \in Repo}

\* "Who can see this repo? 0 = only me/people I share to" (db.sql:45): what the API
\* tells about a repository is for those who may read it.
InfoIsForReaders == served.what = "info" => CanAccess(served.repo, Read, asker)

\* "0 access revoked (ie - blocked)" (db.sql:70): who is blocked from a repository
\* gets neither its page nor its objects.
BlockedIsRefused ==
    served.what \in {"page", "git"} =>
        ~\E g \in grants : g.repo = served.repo /\ g.who = asker /\ g.level = Blocked

\* An '@' before the owner makes the page of a repository reachable for those who
\* may read it, whatever the names of its owner and of other paths.
PageReachable ==
    \A r \in Repo :
        /\ routePc = "done" /\ gitUp
        /\ call.url = <<"/", "@", r[1], "/", r[2]>>
        => status = IF CanAccess(r, Read, asker) THEN 200 ELSE Denial

\* The server is ended by two things only: the creation of a repository, and a path
\* with fewer than four characters up to the end of its name.  That is one of slashes,
\* of an owner and a name of one character each, or of an owner of one or two
\* characters and no name.
TooFew ==
    {<<w, "/", v>> : w, v \in Terse} \cup
    {<<w, "/", v>> : w \in Terse \cup Short, v \in {"/", "?"}}

EndedBy ==
    \/ call.form # <<>>
    \/ NoSlashes(call.url) = <<>>
    \/ \E i \in DOMAIN call.url : Slice(call.url, i, i + 2) \in TooFew

\* A handled request has been answered once, by the handler or by the callback of
\* what it asked of a peer.  Not so a form that creates a repository on another
\* instance, which both answer; a request to the API of another instance, which
\* is never sent; and one that ends the server.
AnsweredOnce ==
    IF gitUp
    THEN routePc = "done" /\ ~pending =>
            \/ answers = 1
            \/ answers = 2 /\ call.form # <<>> /\ call.form.instance = <<Away>>
            \/ answers = 0 /\ Begins({"api"}) /\ Away \in Tokens(call.url)
    ELSE EndedBy
=============================================================================
