# A TLA+ verification of FIY

FIY is a federated host of web applications ("mods"): one C++ process per
instance serves HTTP, keeps local users, links to other instances ("peers") and
forwards requests to its mods. This directory holds TLA+ models of its
concurrent and stateful parts, TLC configurations that check them on small
instances, and TLAPS proofs. Names of variables and actions follow
the source; line numbers are those of the commit beside which the project lives.

Run everything from this directory:

    tlasany M.tla                              parse a module
    tlc -workers 2 -config X.cfg M             one run; see the table of runs
    tlapm PeersProofs.tla                      one of the eight modules of proofs

## 1. The system

One process, many threads: `config.concurrency` threads run a boost::asio
io_context; a thread counts `m_now`; two cron threads (peers, users) wake up
periodically; a pool of threads runs shared-object mods. Handlers of one connection or one outgoing request are serial (a
strand each); everything else interleaves at the granularity of the mutexes.
Mods keep their state in the process, in SQLite databases and on disk; the CDN of
the storage mod is a process of its own.

| Component | State | Operations | Talks to |
|---|---|---|---|
| Start, mods (`protocol/FIY.cpp`, `protocol/mods`) | `m_mods`, lookups by path and id, `m_net_connectors`, each mod's flags and connector | find_modules, start_all, start/stop/handle_request of a connector | sessions call handle_request; mods call back through `fiy_host_info_t` |
| Server (`protocol/Server`) | acceptor; a session's stream, parser, cookies | accept, do_read, on_read, route_request, respond, on_write, find_user | users, peers, mods |
| Thread pool (`util/ThreadPool.hpp`) | queue, condition variable | emplace, pop | mods |
| Peers (`protocol/peers`) | `m_peers_out` (domain to peer), `m_peers_in` (token to peer, or a null stub) | add_peer, remove_peer, new_token_stub, new_peer, prune, peer_handshake, request_peer | HTTP clients, sessions, mods |
| HTTP clients (`protocol/Http(s)Client.hpp`) | a chain of handlers with a timer per request | request, callbacks | peers, net mods |
| Users (`protocol/users`) | table Users, `m_username_cache`, `m_token_cache` | add_user, get_user, auth_user, authorize_user, delete_user, cron | sessions, mods |
| Config, database handle, pages | read at start | | all |
| git mod (`mods/git`): cache | `LocalRepo` objects: a weak map and an LRU list | get_repo, create, get_repos, destructors | its routes |
| git mod: processes (`util/CGI.hpp`) | pipes and child of each `git http-backend` | run_cmd | git, the repository on disk |
| git mod: repositories | a `GitRepo` with a mutex and one revision walker | branch_tip, commits_count, last_commit, entries | pages; pushes change what it reads |
| git mod: access, search | tables Repos, Likes, Privileges | can_access, RepoSearch | routes |
| git mod: routes | the request under way | api, repo pages, creation, git's own protocol | host, other instances |
| contacts (`mods/contacts`) | cards, properties, links of both and profiles, in SQL; a connection per thread | profile, picture, save, list, delete_user | host, other instances |
| mail (`mods/mail`) | mailboxes and links to mails, in memory | send, box, view, delete_user | host, other instances |
| CDN (`mods/storage/cdn`) | assets and tokens in SQL, files; statements kept by each worker | file, new, grant, delete | its clients |
| static (`mods/static`) | settings, the page for 404 | handle_request | the file system |
| oauth, reverse_proxy, social, chat, notifications | sketches | | |
| Utilities, modlib, frontends, vendored code | | conversions, route matching, pages | |

What is hard, and what correctness means:

* **Peers.** Two tables under one RW lock are changed in several locked
  sections with network requests between. Handshakes in both directions for one
  domain race, stubs reserve tokens, prune removes the expired. Correct: the
  tables agree, a link is verified and never silently replaced, a reserved token is
  its handshake's own, and handshakes end. That a 200 is backed by a registration and
  that a failed handshake gives its token back is not so (section 5).
* **Requests to peers.** A mod's request may need a new link, may be told to
  authenticate again (478), and is used by callbacks that run later. Correct:
  it goes to the verified peer that is linked under its domain, and the mod hears how it ended.
* **HTTP clients.** Timers against late answers, callbacks of success and
  failure. Correct: a callback in bounded time, whatever the host does.
* **Serving.** Handlers answer in many places, on several threads, and one pool
  serves all mods. Correct: requests and answers alternate, bodies stay in place
  while a mod reads them, no wake-up is lost, and the same installation routes alike.
* **Users.** The database is read and written outside the lock of the caches.
  Correct: the caches follow the database, a racing signup does not take an
  account, a token belongs to one login.
* **git.** Destructors with side effects on the map they come from, at
  whatever place the last shared_ptr goes; processes forked by several threads
  inherit each other's pipes; a page reads a repository in steps while it is pushed to;
  access is decided in C++ and again in SQL; a repository has many spellings.
  Correct: no freed memory, no deadlock, the whole output of git, a page of one
  commit, a search that shows what can_access allows, one answer per request,
  the same repository for every spelling. Several of these hold but for cases with a
  finding of their own.
* **contacts.** A save is a transaction of many statements on one of several
  connections, a deletion is five statements without one. Correct: a property
  is shown to those it is meant for, a card is whole, a deleted user is gone.
* **mail.** A mail to other instances is the same request made again there. Correct: it is
  stored once, on the instances it concerns and no others.
* **CDN.** A statement left unreset poisons its worker's next use of it, or the others'
  writes. Correct: nothing is sent for a revoked token. That ids read back and that
  a file granted is sent twice is not so.
* **static.** Each question to the file system is one of its own. Correct: what is
  answered was right at some moment of the request. That it is inside the root is not so of
  what a link leads to.

`PROJECT.json` lists every component with its status, the hazards by line with the
properties that watch them, and the map from definitions to source lines.

## 2. The modules

| Module | Models | Used by |
|---|---|---|
| `PeerDirectory` | abstract specification: what the peer tables promise | refined by `Peers` |
| `Peers` | peer tables, new_peer, peer_handshake, prune, remove_peer | `PeerRequests`, `PeersProofs` |
| `PeersProofs` | proofs about `Peers` and `PeerRequests` | |
| `PeerRequests` | request_peer on top of `Peers` (EXTENDS) | `MCPeerRequests`, `PeersProofs` |
| `Handshake` | two instances of this build: texts and credentials of a handshake | |
| `HttpExchange` | the handlers and timers of both HTTP clients | `MCShared`, `HttpProofs` |
| `Mods` | discovery and start of mods, FIY::start | `Serving` |
| `Serving` | listener, sessions, routes, thread pool, shared-object mods (EXTENDS `Mods`) | `MCServing`, `ServingProofs` |
| `ServingProofs` | proofs about `Mods` and `Serving` | |
| `Users` | local users, sessions, signup and login | `MCUsers`, `UsersProofs` |
| `RepoCache` | the cache of repositories of the git mod | `MCShared`, `GitProofs` |
| `GitProcess` | run_cmd, its pipes and children, on several threads | `MCGit`, `GitProofs` |
| `GitPages` | the page of a repository, read while others read and git pushes | `MCGit`, `GitProofs` |
| `GitSearch` | can_access and the statement of a search | `GitRoutes` |
| `GitRoutes` | the routers of the git mod (EXTENDS `GitSearch`) | `MCGit`, `RoutesProofs` |
| `Contacts` | contacts mod | `MCMods`, `ContactsProofs` |
| `Cdn`, `Mail` | the mods of these names | `MCMods`, `AppsProofs` |
| `Static` | static mod | `MCMods`, `AppsProofs` |
| `HttpProofs`, `UsersProofs` | proofs about the module of that name | |
| `GitProofs` | proofs about `GitProcess`, `GitPages` and `RepoCache` | |
| `RoutesProofs` | proofs about `GitSearch` and `GitRoutes` | |
| `ContactsProofs` | proofs about `Contacts` | |
| `AppsProofs` | proofs about `Cdn`, `Mail` and `Static` | |
| `MC...` | symmetry, constants and restrictions of the runs; `MCShared`, `MCGit` and `MCMods` put several modules in one run | |

How each corresponds to the code:

**Peers.** A `Call` is one Peer object: an element of `Out` is a call of new_peer,
one of `Inc` a received handshake. `pc` says which locked section or callback of
`Peers.cpp:105-190` or `Router.cpp:390-525` comes next; each is one action. A token is a
value of `Token`, or `Blank`, which peers linked from here keep. The
other instance's answers, and whether a signature verifies, are free choices. A
failed handshake leaves its stub (`HandshakeFails`; `reserved` is its token); `TryAdd`, `CheckDuplicate` are
the retry loop of peer_handshake with its unlocked gap, which ends in an answer of 200 also when no try
is left. `remove_peer` has no
caller; the action lets anyone call it. The clock ticks at any time, and drawing a
token needs one to be free.

**PeerRequests.** A request of a mod is `want`ed for a domain, `linking` (with its
new_peer call in `link`), `sent` through `via`, or `done`; `answers` counts calls
of the mod's callback. The HTTP client is one callback per request here.

**Handshake.** Where `Peers` leaves the other instance free, here it runs the same code.
A string is the sequence of its pieces and a text the sequence of its lines, so
that an empty line, a field in another's place and an argument that was
meant as a format (`signed_response`) are what they are in the code. `received` is
what has arrived at the other side; a callback is one step, its locked sections being those
of `Peers`.

**HttpExchange.** `pending` is the handler that runs next, `deadline` the
tcp_stream's timer, `called` the callbacks made. A peer that does nothing is
simply an action not taken.

**Mods and Serving.** `phase` follows FIY::start; a call through a null pointer is
the phase `crashed`. `number` and `answers` count requests read and responses
written on a connection; `held` are the ModDllConnectorRequest objects; `worker`
says whether a pool thread is at the queue, asleep on the condition variable or
inside a mod. `Sorted` are the results std::sort may have, which keeps no order of mods with one id.
`KeyArrives` is what follows from the key of a peer's handshake: one answer, two after a refusal or
an error callback that follows the answer, three after both; the connection is `torn` then. `Refuse` stands for every early answer of find_user and
handle_request. `cookies` and `login` say from which request m_cookies is and which
last set a new cookie.

**Users.** The three accesses of get_user (`FindCached`, `SelectUser`, `StoreUser`)
are separate actions, as are INSERT, password check and authorize_user. An account is named by
the signup that inserted it; hashing and form checks are left out, and a rejected form changes nothing.

**RepoCache.** Objects have a life (unborn, alive, dying, erased, gone); `held` are
shared_ptrs of threads; locks are those of RWMutex. `PurgeOne` destroys
the objects of a full list while the writer holds the lock.

**GitProcess.** `fds` are the pipe ends the server has open and `inherited` those of
each child: as none is close-on-exec, a fork copies them all. The end of a
pipe is seen when nobody holds its other end. A child may read its whole input before it
writes, write first, or not read; `job` says which, and data is counted in blocks.
Writing to a pipe nobody reads, without a handler of SIGPIPE, ends the server.

**GitPages.** A commit has a tree (file -> the commit that wrote it) and parents, a
push adds a commit or deletes a branch at any time, as git's own processes
take no lock of the server. `m_walker` is what the shared revision walker has queued; it is
reset and filled under `m_mtx`, entry by entry of the page, and the branch is looked
up again by each step.

**GitSearch and GitRoutes.** A repository is its owner and name; a visibility and
the granted levels are numbers as in the tables. `grants` are the rows of RepoAccess, which nothing in the source writes: any the table allows,
an owner's for his own repository among them.
`Parameterise` is one parameter of a
search's url, and each builds on the statement so far (`search.fields` is the text that
a later column relies on); `Find` runs it, with rows of one key in any order, and `NextPage` asks for the
next page of the same search (`earlier` holds what was shown before). limit and page are at most
`MaxShort` and an int at most `MaxInt` (65535 and 2^31 - 1 in the code), above which
their product has a sign. A url is a sequence of
tokens; `FromPath`, `SubPath` and `GitDir` are the three parsers that read
the same url. `GitDir` is the directory git http-backend opens: the whole path, up to the service at its end.
What from_path read of a path it refuses stays in the object (`Invalid`) and may name another instance
(`Foreign`), to which the API then turns. Each router is an action guarded by what it looks for, `NextCall` a
request with what its user meant (`means`), against which the properties compare
what is served.

**Contacts.** `db` is the committed database and `work` the transaction of `holder`;
a statement that meets another's transaction throws (`SaveThrows`, `ReadThrows`),
and one that threw is `spent`: it is not reset, so that thread cannot
save again. What a value was saved for is kept in the value itself, so that a row
shown to somebody else can be recognised whatever ids it passed through. A request for the picture of a
user of another instance is a `namesake` when a local user has the bare name: `task.about` is who get_pfp looks for,
`Named` whom the url means. A
deletion takes the tables one after the other (`EraseTable`), between which all others move.

**Cdn.** `used` are a worker's statements that were stepped and not reset, `open` the
workers with a row left in one. `StatementThrows` drops the session. `ToRhex` and
`FromRhex` are the two conversions of ids. `late` marks a request that came after the deletion of its token was answered.

**Mail.** Instances keep `mailbox`es; a mail's copies travel one by one and may be lost, and the
crash of the sender after the first (see 5) is the outcome of `PostAway`: the instance starts again without
its mails. `Distributed` are the instances a mail is sent on to, none for one that came from a peer. An `id` is
given to a mail by the model alone, to recognise its copies.

**Static.** The steps of handle_request over `disk`, a tree with files, directories,
pipes and links; `TreeChanges` makes or removes something, at most `MaxChanges`
times. `WeaklyCanonical` is the library's function by its description, as it decides
what is inside the root. `place` is where the path leads (`Follow`), which stays so, as links stand still. `led` holds
what the path has led to since the request began (`LedTo`, with what handle_request promises for it), and
`RightAnswer` is a 403 instead for what lies outside the root.

## 3. Runs

| Run | Instance | Shows |
|---|---|---|
| `peers` | 2 domains, 2 tokens, 1 outgoing, 2 incoming, clock to 1 | types; `TokenNamesLinkedPeer`, `IncomingPeerReachable`: tables agree; refinement of `PeerDirectory` |
| `requests` | 2 requests to 1 domain, 2 tokens, 2 new_peer calls, 1 incoming | `ReservedInFlight`, `SentToLinkedPeer`; liveness: `EveryRequestAnswered`, `EveryCallEnds` |
| `shared` | one of: a plain and a TLS request, time limit 2, clock to 6; 2 repositories, 3 objects, 2 threads, list of 1, 2 calls each | `TlsCallsBackOnce`, `AnsweredInTime`, `MemorySafety`; liveness: `EveryExchangeEnds`, `LocksAreGivenBack` |
| `users` | 2 names, 2 signups, 1 login, 1 deletion, 2 tokens, clock to 4 | `CacheFollowsDatabase`, `SignedUpAsSelf`, `TokenOfOneLogin` |
| `serving` | 9 installations of 2 mods; 2 connections with 2 requests; 2 pool threads | `PathsRouteAlike`, `OneAnswerEach`, `HeldRequestKept`, `WorkersWoken`, `NoCookiesFromBeforeLogin`; liveness: `EveryRequestServed` |
| `git` | one of: 2 git processes; 2 readers of 2 files on 2 branches; searches over 3 repositories with 2 parameters and their pages; every spelling of their urls | `RunIsComplete`, `PageOfOneCommit`, `SearchAgreesWithAccess`, `PagesAreApart`, `SpellingsAgree`, `ServedWithAccess`, `PageReachable`, `AnsweredOnce`; liveness: `EveryRunReturns` |
| `mods` | one of: contacts with 2 threads, 2 local users and 4 requests; a CDN with 2 workers and 3 requests; mail on 2 instances; one visitor of a tree that changes twice | `ShownToWhomMeant`, `CardIsWhole`, `DeletedUserGone`; `RevokedNotSent`; `StoredOnce`; `RightAtOneMoment` |

These runs pass. Each of five others checks one sentence of the repository, and TLC shows
what the code does instead; all but `handshake` have the instance of the passing run named, or one much like it
with fewer calls:

| Run | Of | Property | Shows |
|---|---|---|---|
| `handshake` | 2 instances that may both ask | `RequestConnects` | a request to a new instance does not link the two |
| `grant_recognition` | `peers` | `GrantRecognized` | after the last try a 200 grants a token that names another, or nobody |
| `requests_reuse` | `requests` | `NotUsedAfterAnswer` | a request is used after its callback (478) |
| `net_mods` | `serving`, net mods only | `NetModsStart` | the server does not survive the start of a net mod |
| `static_inside` | `mods` | `StaysInside` | a path leads out of the root |

The modules hold more formulas of this kind. Each states what a line of the repository says and the code
does not do, among the properties of its module, with the words it is from. No cfg lists them; added to that of the passing run
named, TLC refutes each within two minutes:

| Formula | As | Of | TLC shows |
|---|---|---|---|
| `StubRemovedOnFailure` | INVARIANT | `peers` | the token of a handshake that failed stays reserved |
| `NoErrorAfterAnswer` | INVARIANT | `shared` | the plain client reports an error for a request it has answered |
| `PurgeEnds` | PROPERTY | `shared` | a purge waits for the lock its own thread holds |
| `OneInstancePerRepo` | INVARIANT | `shared` | two threads use two objects of one repository |
| `FilterKeepsAccess` | INVARIANT | `git` | a search for a visibility shows what its asker may not read |
| `SharedIsAccess` | INVARIANT | `git` | a row for one's own repository opens all of that name |
| `AnythingMayStandBelow` | INVARIANT | `git` | an '@' below a repository makes its url invalid |
| `InfoIsForReaders` | INVARIANT | `git` | the API tells everyone about a private repository |
| `BlockedIsRefused` | INVARIANT | `git` | who is blocked from a public repository reads it |
| `OwnPictureOrTheirs` | INVARIANT | `mods` | the picture of a user elsewhere is that of a local one |
| `AllDataDeleted` | INVARIANT | `mods` | a save that overlaps a deletion leaves a card |
| `TokensReadBack` | INVARIANT | `mods` | a token given out is read back as another |
| `GrantedIsAnswered` | PROPERTY | `mods` | a worker sends one file and then none |
| `DeletedMailGone` | PROPERTY | `mods` | the mail of a deleted user stays |

A module's type invariant is the first conjunct of one of its properties: of
`AnsweredInTime`, `CacheFollowsDatabase`, `MemorySafety`,
`RunIsComplete`, `PageOfOneCommit`, `SearchAgreesWithAccess`, `ServedWithAccess`,
`CardIsWhole`, `RevokedNotSent`, `StoredOnce` and `RightAtOneMoment`; that of `Peers` is
`TypeOK`, and those of `PeerRequests`, `Mods` and `Serving` are proved (section 4).

Each property of a passing run has a mutant: a variant of one definition, beside
the original in its module, written as a plausible slip in the code (a dropped guard, a missed
notification, a check out of order), under which TLC must report the property.

**Several properties hold but for a named case**, where the code has a defect that would hide everything
else. Most of these defects have a violation run or a formula that TLC refutes, named here, so that the case is not lost:

* `LocksAreGivenBack` but for the purge of a full list (`PurgeEnds`); `MemorySafety` allows two live objects of one
  repository (`OneInstancePerRepo`).
* `OneAnswerEach` but for a handshake answered twice or three times (`KeyArrives`; the client's part is `NoErrorAfterAnswer`).
* `PathsRouteAlike` but for mods of one id, which Mod.cpp:54 allows: an order that nothing decides picks among them, and of two
  with one id on one path the one the path leads to is not the one the id leads to. The formula says both.
* `ServedWithAccess` is about requests without ".." in their path, which git follows and the check of access does not;
  what the API tells about a repository is left to `InfoIsForReaders`, and a row of level 0 grants what a missing one does (`BlockedIsRefused`).
* `SpellingsAgree` but for an owner and a name of one character each, and for an owner called "api" whose url
  has neither an '@' nor a second slash; an '@' in the query makes a url invalid, never another repository's (`AnythingMayStandBelow`).
* `SearchAgreesWithAccess` but for repositories called like one of the asker's own that has a row for him (`LikeHisOwn`,
  `SharedIsAccess`), and for searches that name a visibility (`FilterKeepsAccess`); a search for forks finds none.
* `PagesAreApart` but for repositories tied with another, as ORDER BY leaves them in any order, and for a page whose
  product with the limit is no int.
* `AnsweredOnce` but for forms and requests for another instance, and for what ends the server (`EndedBy`, `TooFew`).
* `EveryRunReturns` but for `Overfull` and `Crossed` (both pipes full, pipe ends inherited).
* `ShownToWhomMeant` speaks of whom a card was looked for under (`OwnPictureOrTheirs` of whom the url means), `DeletedUserGone` not of
  a user whose save overlapped the deletion (`AllDataDeleted`).
* `RightAtOneMoment` leaves aside two changes between several names for an index, a change by which the url leads
  elsewhere (`LedElsewhere`), what a link leads out of the root to (`LedOut`, `static_inside`), a 500 where something
  vanished, and a root with a slash at its end.

**Bounds and why they suffice.** `MaxTime`, `MaxTries`, `MaxAnswers`, `MaxCalls`, `MaxRequests` and the sets of calls
bound the server. Two incoming handshakes and one
outgoing are enough for every pair of racing sections, with two tokens so that
collisions and retries both happen; `MaxTries` 1 (10 in the code) reaches the
exhausted loop; `Lifetime` 0 lets every session expire. Three objects for
two repositories give a path to a second object while the first is being destroyed. Two pool
threads and two queued requests are what a lost notification needs; two requests
per connection show a stale parser or cookie. The theorems of section 4 remove
the bounds for the safety of `Peers`, `PeerRequests`, `HttpExchange`, `Serving`, `Users`,
`RepoCache`, `GitProcess`, `GitPages`, `GitSearch`, `Contacts`, `Mail`, `Static`, `GitRoutes` and `Cdn`. Deadlock is not checked: calls run once and clients stop,
so every instance comes to rest.

The HTTP clients and the cache share no state, nor do the mods with each other, so the runs `shared`, `git` and `mods` pick in the initial state
the part they look at (`focus`) and leave the others where they
are. `PipeSize` 1 and `MaxBlocks` 2 give bodies and outputs that do not fit a pipe;
`MaxCommits` 3 a merge and a push between two steps of a page;
`MaxParams` 2 every pair of parameters, and pairs are all the builder of a search can
mix up; `MaxShort` 3 and `MaxInt` 7 a product that overflows. In `mods`, `MaxCards` 2 and
`MaxProps` 2 make the database give ids again; `MaxTaken` allows four requests to
contacts (save, delete, save, look) and three to the CDN (make, use twice);
`MaxMails` 2 lets a mail meet the copies of another, and the restart its sending causes. The operators `Small...` of `MCMods` and
`Varied`, `Sizes`, `SmallPush` of `MCGit` drop requests that differ from others by a renaming,
or that need no database and are asked for once only. In `Static` a link and
where it leads stand still, paths have at most `MaxPath` 6 names, and one visitor
is enough, as visitors share only the 404 page.

**Fairness and why the code justifies it.** Handlers that are due run (io
threads never block for good: every outgoing request has a timer), cron threads
keep running, timers fire, a name look-up ends (the resolver's own limit), a
runnable thread runs. Nothing is assumed of a remote host, of a client that does not
send, of a failed accept or of spurious wake-ups. `EveryRequestServed` assumes
that mods return and call their callback, as the contract in `modlib/fiymod.h` asks.
`GitSpec` assumes that each thread in run_cmd and each child that can go on does (the kernel's
scheduler); nothing is assumed in `ModsSpec`, whose properties are all safety.
Weak fairness suffices everywhere; in RepoCache the calls are bounded, so a lock is
not asked for without end and no strong fairness of locks is needed.

## 4. Proofs

`PeersProofs` proves for every set of domains, tokens and calls, and every bound:

* `TypeCorrect`, `TokensNameLinkedPeers`, `StubsStayReserved` (`ReservedInFlight`),
  `IncomingPeersReachable`: `Spec => []...` of the invariants the runs check;
* `Refinement`: `Spec => Directory!Spec`, the tables implement `PeerDirectory`.

The assumptions are those of `PeersAssumption` only: the names of calls, null
values and tokens are apart, and the bounds are natural numbers. The invariant
`IInv` (in `Peers`) adds to the properties what makes them inductive: an entry of
either table is an object that add_peer has placed (`OutEntries`, `InEntries`) under its own
domain; outgoing objects accept only the blank token (`OutgoingAcceptsBlank`)
and incoming ones never do (`IncomingAcceptsToken`), which is why the second
locked section of new_peer cannot take the token of an incoming peer; a call past
`idle` knows its domain; answers are counted. A token in flight is its handshake's own by `InFlightHasToken` and
`StubsAreKept`: what is erased at the end of a handshake is never a stub, which is also why `StubRemovedOnFailure`
is refuted. `StepTypeOK`, `StepCallInv` and
`StepTablesInv` show that each action keeps its part; `TablesKept` and `PeerAdded` serve all
actions that leave the tables alone and the two that add a peer.

`ServingProofs` proves, for every set of installed mods, of
connections and of workers, and any number of requests, the types and the five safety properties of the
`serving` run as `ServingSpec => []...`: `ServingTypes`, `RoutingIsStable`,
`AnswersInTurn`, `HeldRequestsKept`, `NoLostWakeUp`, `CookiesAreFresh`.
The invariants are

* `ModsIInv`: types, a find_modules that has not finished has only `Usable` mods in
  the list it collects, and a finished one has the tables `PathOwner` and `IdOwner`
  give for some sort of all of them. `SortedAll` (neighbours in order are all in order), `FirstOwns` and `LastOwns` (by
  `Least` and `Greatest`, of well-founded induction) say who owns a path and an id then, whichever sort it
  was: the first mod with the path, the last with the id. So mods with one id on one path cannot have
  both, which is all that can be said of them.
* `ServingIInv`: `ModsIInv`, types, `RequestsRead` (a connection has read a
  request before it is anywhere but reading), and the four properties of
  connections and pool, which are inductive together with it. No wake-up is lost because
  `WorkersWoken` says of a sleeping worker that the queue holds no more requests
  than there are workers on their way to it: emplace adds one of each, and a worker looks at the
  queue again before it sleeps.

`AnswersInTurn` counts the several answers of `KeyArrives` with the others: their connection is never read from
again. `ServingInvariant` shows that each action keeps it; the fairness of the run is
not used. The assumptions are those of `Mods` and `Serving`.

The second half of `PeersProofs` proves `RequestsReachTheirPeer`: a request is sent to the verified peer in the table under
its domain (`SentToLinkedPeer`). Every step of `PeerRequests` is one of `Peers` or leaves
the tables alone (`StepOfTables`), so that `IInv` carries over; to it come
`SentIsVerified`, by `PlacedVerified` (what was in the tables is verified), and `LinkIsForWant`, that the new_peer call behind a
request has started and is for the domain wanted. `LinkedIsInTable` is why a call that ends well
leaves its own peer in the table, and not another's; the types are in `RequestsIInv`. A call keeps its domain and does not go back behind its
verification (`CallsKept`), so what another request or handshake does to it is harmless.

`HttpProofs` proves `TlsCallBack` and `Punctual` (`TlsCallsBackOnce`, `AnsweredInTime`).
The invariant `HttpIInv` adds `DeadlinesBounded`: what is pending has a timer that has not
gone by, and the deadline is at most one time limit after the beginning
as far as the TLS handshake, and at most two later, since the timer is set anew once.

`UsersProofs` proves `CacheIsOfDatabase`, `SignupsAreOwn` and `TokensAreOfOneLogin`.
The invariant `UsersIInv` adds `RequestKnown` (what a request has by the time it is at a
place), `AccountsNamed` (an account in the database, the cache or a request's hand was inserted under
the name it is looked up by) and `RowsStay`: while nobody is deleted an inserted
row stays, so that what get_user read before is still so when it is stored.

`GitProofs` proves `CacheIsSafe` (`MemorySafety`): no freed object is cached or
pointed to, none is freed twice. The invariant adds `Named` (a constructed object has its path) and `Places`: which
pointers a thread has at each place, that only a thread in a destructor has an object
that is dying, and that a purge has one owner, which holds the object it pushes. `Released` is the
lemma about a strong pointer that goes, whether it was the last one or not.

It proves `RunsAreComplete` (`RunIsComplete`), for every size of pipe. Of each run: the server has open what
its thread has not come to close (`OwnEnds`); a running child has its output open
whatever else does (`ChildHoldsOutput`), so that the end of the output is not seen before
the child is done; and output is read, in the pipe or unwritten (`OutputKept`).
`OthersKept` shows that runs share pipe ends and yet do not disturb each other's invariant.

Of the page of a repository it proves `PagesOfOneCommit` (`PageOfOneCommit`), for any number of
readers, branches, files and pushes: what a page shows is the tree and the count of the commit
its branch was at when the page was begun, whoever reads or pushes meanwhile. The history of a commit is defined as
the fewest commits closed under parents, so a page's claims about it
are proved by `HistoryInduction` (by well-founded induction on the numbers of commits). `PagesIInv` has `Ancestry`
(parents are older, a tree is that of a parent but for what the commit changed),
`OneWalks` (`m_walker` and `m_mtx` belong to one reader at a time, and what is queued is of that reader's commit) and
`PageSoFar` (what the page has at each place). `WalkStops` is why a walk of
a branch finds the last commit of a file; `PushKept` is why a push, which takes no lock, disturbs none.

`RoutesProofs` proves, for any users, names, rows and parameters, `SearchesAgree` (`SearchAgreesWithAccess`) and
`NothingComesTwice` (`PagesAreApart`). `SearchIInv` says that an answer is a window of the
selected repositories in their order, whatever order the parameters came in and ties fell (`AnswerInOrder`);
`AccessibleIsRead` is the lemma that the SQL of a search selects no repository can_access refuses, but for those
called like one of the asker's own (`LikeHisOwn`). For the pages it adds `EarlierIsBefore`: of a repository
shown before and not tied, fewer stand before it than the page begins with, though every statement orders ties anew.
`FewStandBefore` counts them where it was shown; a repository on this page has as many before it as the page
begins with (`ShownStands`).

Of the routers it proves `ServedToReaders` (`ServedWithAccess`) and `PagesAreReached` (`PageReachable`) for every
request of `PlainCalls`, `FormCalls` and `RepoCalls`, whoever the users and whatever the words are.
`RoutesIInv` adds `OnItsWay`: a request in hand has been served nothing, one that creates a
repository began with a word like "repo", and what waits for a peer asked for no page. `GitDirIsItsOwn` is why git, which opens the whole path up to its service, cannot
be handed another repository's directory: if that path is a repository's then from_path found that repository in it. (So it is
of paths without "..", see `ServedWithAccess`.) `ServesKeeps` is about what is served after a look at the access, `InfoKeeps` about the data
of the API, which is served without. `PageUrlIsRepos` follows the url of a page through the routers and from_path token by token; owner and
name of one character each end the server there, which `PageReachable` leaves to `AnsweredOnce`.

`SpellingsAreOne` (`SpellingsAgree`) needs no invariant but `CallMade`, that the requests are those modelled. `Reads`
says where owner, instance, name and ".git" are in a url; `PathReads` that each spelling has them there, whatever stands below
it, and `ReadsRepo` that from_path then takes them for what they are, or for nothing if an '@' stands below (`AtInQuery`), or throws: only if
owner and name are of one character each. `RepoIsRead` puts slashes and an '@' before that. The proof found an exception the runs
could not, as no user of theirs is called "api": `/api/repo/info` is his repository "repo" and an endpoint without one.

`RequestsAreAnswered` proves `AnsweredOnce` while the server is up. It rests on `OnceOnItsWay`, which counts the answers at each place
of the handler: none while it routes or makes a directory, one while it creates a repository only if the peer it asked has
answered already. That the API takes no url for another instance's that has not `Away` in it goes through all urls
(`ApiRepoAsks`, `ApiUserAsks`; `OwnerCalledApi` is the case above, where no instance is left to read). Which urls may
end the server, the other half of `AnsweredOnce`, is only model-checked. The theorems on routes assume of words
what a url can spell (`RoutesAssumption`).

`ContactsProofs` proves, for any number of users, clerks, cards and properties, `ContactsShown` (`ShownToWhomMeant`),
`ContactsWhole` (`CardIsWhole`) and `ContactsDeleted` (`DeletedUserGone`). `ContactsIInv`
adds to them

* `ClerksOK`: what a request is shown was written by its user, or by the user it is about and meant for
  one so trusted; what it saves is its user's;
* `Sound`, of the committed tables and of the transaction alike: every link has its property,
  with the same visibility, and the property of a card was written by the card's owner. This is what lets `ReadCard`
  check a link and show a property. A link may outlast its card only if its writer's
  save overlapped his deletion (`overlapped`, which `DeletedUserGone` leaves aside too);
* `OneWrites` and `Writing`: a transaction differs from what is committed by its own card alone,
  whose links are those `FillCard` has written, so that a commit loses nothing another wrote;
* `CardsWhole`, and `NoneWritesForDoomed`: nobody who had not begun before saves for a deleted user;
* `Erasing` and `Erased`: what is gone after each of the five statements of a deletion. Each relies on the ones before: a
  link is found by its card, so links go before cards.

`WithoutSound`, `PrunedSound`, `WithCardSound`, `WithPropSound` are the lemmas about the four changes to
tables, `NothingMoreKeeps` that about a save with no properties.

`AppsProofs` proves `CdnRevokedNotSent` (`RevokedNotSent`) for any
workers, tokens and requests. `CdnIInv` adds `CrewAtWork` (only a worker of the started server is at a statement) and
`RevokedHasNoRow`: a revoked token has no row, and nobody who asked late has found one.

It proves `MailStoredOnce` (`StoredOnce`) for any instances, users, mails and posters. `MailIInv` says of stored mails what is
wanted (`EachOnce`, `ForSomeone`), that they are of and to people with a domain, at the place of their index
(`BoxesInOrder`, `OnTheirWay`), and why it stays so: a copy on its way is the only one of its mail, and goes where the mail is
not but has a reader (`CopiesAhead`), and a mail under way is one poster's, with no copy yet (`PostsAhead`). That
depends on what came from a peer going no further (`Distributed`). On the way `DeletionDeletesNothing` shows what refutes
`DeletedMailGone` for every instance: a deletion looks for names without a domain, which no stored mail has.

Of the static mod it proves `StaticAnswersRight` (`RightAtOneMoment`) for every tree, all links, urls and
changes, and any number of visitors. `led` has what every tree of the request leads
to, so that `StaticIInv` is about why one of them is what the steps arrive at:

* `Looked`: all trees gave the url the same path, or the url was led elsewhere; what is at its place is asked again at
  every step, and for the tree of the moment (`AnswerFor`) the answer is in `led`;
* `InDirectory`, while names for an index are tried: there is one tree of the request (`Before`) that had the directory
  and none of the names tried, and agrees with the tree as it is now on those still to try. `BeforeAfter` is the step that
  needs care: a change to a name still to try makes the tree after it that witness, as it touches no other name and not the
  directory; any other change keeps the one there is; only with a second change is there perhaps none (`Raced`), which is the
  exception that the property names;
* what vanished leaves two answers in `led` that differ, 500 for a file as for a listing (`OpenKeeps`, `ListKeeps`):
  `AnswerThere` says that an answer is there in its own tree.

What `Follow` and `WeaklyCanonical` make of a path plays no part: the theorem holds for whatever
they are, as long as the code asks the library the same question as `LedTo`. What they make of a path outside the root is another
matter, which `RightAnswer` decides and `static_inside` shows.

All these assume of the constants what the ASSUME of the module says: null
values are apart from others, and limits and sizes are natural numbers. The fairness of a run is
never used. `TypeCorrect`, `HttpInvariant`, `UsersInvariant` and `ServingTypes`
hold the types.

Only model-checked are

* liveness: `EveryRequestAnswered`, `EveryCallEnds`, `EveryExchangeEnds`, `LocksAreGivenBack`,
  `EveryRequestServed`, `EveryRunReturns`, which is out of the prover's reach;
* which urls may end the git mod's server (`EndedBy` in `AnsweredOnce`);
* the violation runs and the formulas that TLC refutes, whose counterexamples need no proof.

## 5. What the repository says and the code does not do

Five violation runs, each with the sentence it contradicts quoted in `PROJECT.json` under "findings", and fourteen
formulas that TLC refutes (section 3):

* Server: two instances of this build refuse each other's handshakes, in three places one behind the other (`handshake`); the
  stub of a handshake that failed is never erased, its token stays reserved (`StubRemovedOnFailure`); a
  handshake is answered 200 when no try is left, without the registration (`grant_recognition`); a request is used after its
  callback (`requests_reuse`); the plain HTTP client calls both callbacks (`NoErrorAfterAnswer`); net mods end the server (`net_mods`).
* git: a purge of the full LRU list runs destructors that want the lock the purger holds (`PurgeEnds`); a path is erased from the cache
  whatever object is under it, so that a second live object of one repository comes into use (`OneInstancePerRepo`); two ways in which a
  search shows what can_access refuses (`FilterKeepsAccess`, `SharedIsAccess`); an '@' below a repository (`AnythingMayStandBelow`); /api/repo/info asks
  nothing of can_access (`InfoIsForReaders`); level 0 does not revoke what is public (`BlockedIsRefused`).
* Other mods: a picture at another instance is looked for here (`OwnPictureOrTheirs`), an overlapping save leaves rows of a deleted user (`AllDataDeleted`),
  mail outlives its user (`DeletedMailGone`), ids are not read back (`TokensReadBack`), the second use of a statement on a
  worker is dropped (`GrantedIsAnswered`), links lead out of the root (`static_inside`).

No function of the host calls a mod's delete_user yet (`LocalUsers::delete_user` has no caller), so `AllDataDeleted` and
`DeletedMailGone` are about what the mods would do when asked as `fiymod.h` describes.

Seen while modelling, in the models, without a formula of their own. The server:

* What `Peers` and `PeerRequests` show of links holds for whatever
  the other side answers and whatever the signature check says, though two instances of this build never link. Were that and the next item mended, two crossing
  handshakes would leave each side with the credentials of the other's
  (`CanAdd` fails for both askers), which the run would then report.
* new_peer's second locked section always finds its domain present (add_peer put
  it there), so a handshake that succeeded reports failure and the request that
  caused it is answered with a null response (`HandshakePublish`); the stub is never
  filled, and a peer linked from here has no entry to expire by.
* After a 478 the link is asked for while the old peer is in the table, so it
  cannot be replaced; the mod sees the 478.
* A peer handshake whose key request is answered with another status than 200 is
  answered twice (`SenderKeyArrives` in `Peers`, the stage `torn` in `Serving`); the plain client's second callback makes it
  one more.
* Mods may have one id (`Mod.cpp:54`), and std::sort keeps no order of them: of two on one path either may be reached by the path,
  and the other by the id (`PathsRouteAlike`).
* A directory under mods/ without a readable module.json ends the server
  (`Visit`): the mod is deleted and its destructor calls through a null connector.
* get_user may store a user that delete_user has removed since; delete_user has
  no callers, nor have deauth_token, remove_peer, get_repos, stop_all,
  set_enabled and set_path. A token works until cron erases it: auth_user does not
  look at its expiration, and reports success for a user that is not in the
  database, for whom login_user has asked before.

The git mod:

* The INSERT of create gives no lastUpdateTs, which is NOT NULL (`db.sql:53`): the statement throws, the
  server ends and the directory stays, so that a second try answers 500 (`Insert`).
* from_path throws for "a/b", which its comment allows (`BasicRepo.cpp:24`); a '/' in
  the query is taken for a sub-path; what it read of a path it refuses is used by the API, whose callers do not
  look at its answer (`Invalid`). git gets the path as it came, so "@", the
  domain or ".git" in a url name no directory (`GitDir`), and a ".." one that was not checked (section 6); owners that begin with "api" or
  "repo" are reached with '@' or a second slash only (`PageReachable`, `SpellingsAgree`); the comment at
  `ApiRouter.hpp:366` tells one called "api" of the '@'.
* repo_create_post takes any name (`RepoRouter.hpp:91`): from_path makes another of one that ends in ".git"
  or has a separator in it, so that repository is never reached (`RoutesAssumption`).
* Creating a repository on another instance is answered twice (`CreateAway`); send_to_peer never
  sends; two callbacks use a request and a text that are gone by then.
* The search: a column after "fork" lacks its comma and sorting by the last edit its
  space (`NoStatement`); "fork" compares a path with a bare name (`ListedAsFork`); a
  repository shared with a user is not found, nor one for the instance
  (`SharedWith`, `VisibleOver`); the limit is not enforced, and its product with the page overflows;
  ORDER BY leaves ties in any order, so that pages may repeat and skip them (`PagesAreApart`).
* A body and an output that both exceed their pipes block server and git (`Overfull`), and
  pipe ends inherited by a child of another thread keep a run waiting for that child
  too (`Crossed`).

The other mods:

* contacts: `/id/` answers the opposite of what it finds; a second profile saved as new is never
  shown; a statement that met another thread's transaction is not reset and fails that thread's saves
  until a restart; a read or a deletion that meets one ends the server; a picture that
  is a url is answered twice; delete always answers 400. Routes differ from API.md.
* mail: after the first request to another instance the mod requests itself with a
  null domain, which becomes a std::string, so the server ends and its mails are lost
  (`PostAway`); names without a domain mean another user where a copy arrives;
  two equal recipients list a mail twice; `/view/` does not ask whose mail it is.
* CDN: the DDL of Tokens has a syntax error, so there is no such table
  (`hasTokens`) unless it is made by hand; adding an asset names a column that does not
  exist and is dropped unanswered; granting an existing token is answered 200
  and does nothing; the expired are never looked for, and files never deleted.
* static: a file without an extension ends the server (`substr(1)` of an empty text
  throws what its handler does not catch, `OpenFile`); a root written with a slash at its end
  makes every request a 403 (`Inside`); with several index names and two changes, a listing may be answered that was
  right at no moment, which `RightAtOneMoment` leaves aside. weakly_canonical (`mod.cpp:184`) cuts a ".." after
  a missing name without looking, and follows the links before it once the name exists: such a
  url leads elsewhere from then on, in or out of the root, and a request that falls between is answered for neither (`LedElsewhere`).

## 6. Not modelled, and why

* **Configuration, database handle, pages**: read once, or pure output.
* **Formats** (headers, JSON, forms, vCards, signatures) appear as the outcomes a
  caller can tell apart. Encryption between peers is a TODO of the code.
* **Exceptions** that leave a handler of the server are not modelled, those of the git mod,
  of contacts, mail, static and the CDN are.
* **Never reached**: ScopedRequest and handshake_end have no caller; purge of the CDN is
  not called, and the download of an asset is not reached; delete_contact is called for no request;
  the internal routes for net mods and the body of ModConnectorNet's requests
  need a server that came up with a net mod; LRUCache, Pool and the Router of modlib are used by nobody (Pool does not
  compile when instantiated, Router::parse_route does not advance past a second '/').
* **git**: tags, likes, the parts of a commit and the text of its pages; git and its http-backend
  are the environment. The requests have no ".." in their paths, of which from_path makes an owner or a name and git a
  directory above: `ServedWithAccess` says nothing of them.
* **A second callback of the plain client** is in `HttpExchange` and `Serving`; `Peers` and `PeerRequests`, where it would
  run new_peer's end twice, take each callback once.
* **mail**: boxes, views and the links to them, which only read what is stored.
* **oauth, reverse_proxy, social, chat, notifications**: sketches or empty.
* **Frontends, wrappers, vendored code** have no part in the protocols.
* **Utilities**: tables and conversions without state (`mime.cpp`, `WebUtils.cpp`). Static takes uri_decode
  for what it does to a path. How request() takes the port out of a host name (ports of five digits, and
  a name cut short by one) is a computation on texts that no other part depends on here.
