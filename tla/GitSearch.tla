----------------------------- MODULE GitSearch -----------------------------
(***************************************************************************)
(* Who may do what with a repository of the git mod (LocalRepo::can_access)*)
(* and which repositories a search shows (RepoSearch, /api/repo/search).   *)
(* A search builds one SQL statement out of the parameters of its url; the *)
(* statement says again, in SQL, who may see a repository.                 *)
(*                                                                         *)
(* A repository is <<owner, name>>.  A text to look for is the set of the  *)
(* repositories it matches.                                                *)
(***************************************************************************)
EXTENDS Integers, Sequences, FiniteSets, SequencesExt

CONSTANTS
    Local, Remote,  \* users of this instance and of others
    Nobody,         \* a request without a user
    Names,          \* names of repositories, in their order
    Repo,           \* the repositories of the table Repos
    MaxParams,      \* bound of the parameters of a url
    MaxShort,       \* limit and page are at most MaxShort (of 16 bits in the code),
    MaxInt          \* and their product is an int (of 32)

\* A product that is no int has one bit too many, the sign.
ASSUME SearchAssumption ==
    /\ \A r \in Repo : \E u \in Local, i \in DOMAIN Names : r = <<u, Names[i]>>
    /\ IsFiniteSet(Repo)
    /\ Local \cap Remote = {} /\ Nobody \notin Local \cup Remote
    /\ MaxParams \in Nat /\ MaxShort \in Nat /\ MaxInt \in Nat
    /\ MaxShort * MaxShort <= 2 * MaxInt + 1

VARIABLES
    catalog,    \* rows of Repos
    grants,     \* rows of RepoAccess
    asker,      \* the user of the request
    search,     \* the RepoSearch object
    params,     \* parameters read so far
    found,      \* the answer
    earlier     \* shown on the pages before

searchVars == <<catalog, grants, asker, search, params, found, earlier>>

\* fiy::Locality, as a repository's visibility.
OnlyOwner == 0
OnInstance == 1
InFediverse == 2
Public == 3

Blocked == 0
Read == 1
Write == 2

Requester == Local \cup Remote \cup {Nobody}
Grant == [repo : Repo, who : Local \cup Remote, level : 0..3]
Part == {"id", "path", "description", "likes", "visibility", "fork", "created",
         "updated", "tickets", "invalid"}
Unsigned == 0..MaxShort

Search == [desc : BOOLEAN, forks : {"any", "yes", "no"},
           filter : -1..3,              \* -1: no filter
           owner : Requester,           \* Nobody: any
           sort : {"age", "likes", "name", "edit"},
           min_likes : -1..1, limit : Unsigned, page : Unsigned,
           text : SUBSET Repo, fields : Seq(Part)]

DefaultSearch == [desc |-> TRUE, forks |-> "any", filter |-> -1, owner |-> Nobody,
                  sort |-> "name", min_likes |-> -1, limit |-> MaxShort,
                  page |-> 0, text |-> Repo, fields |-> <<>>]

Asking == [status |-> 0, results |-> <<>>]

SearchTypeOK ==
    /\ catalog \in [Repo -> [visibility : 0..3, likes : {0, 2}]]
    /\ grants \subseteq Grant
    /\ asker \in Requester
    /\ search \in Search
    /\ params \in 0..MaxParams
    /\ found.status \in {0, 200, 500} /\ found.results \in Seq(Repo)
    /\ earlier \subseteq Repo

-----------------------------------------------------------------------------
(* LocalRepo::can_access.                                                  *)

Audience(visibility) ==
    {who \in Requester : \/ visibility = Public
                         \/ visibility = InFediverse /\ who # Nobody
                         \/ visibility = OnInstance /\ who \in Local}

\* user_can_access_local.
Granted(repo, level, who) ==
    \E g \in grants : g.repo = repo /\ g.who = who /\ g.level >= level

\* What a repository shows to many is not a matter of grants: a collaborator of
\* another instance does not read what is for the users of this one.
CanAccess(repo, level, who) ==
    IF level <= Read /\ catalog[repo].visibility # OnlyOwner
    THEN who \in Audience(catalog[repo].visibility)
    ELSE who = repo[1] \/ Granted(repo, level, who)

-----------------------------------------------------------------------------
(* The parameters of the url, in any order; the last of a key counts.      *)

Parameter ==
    [key : {"desc"}, value : BOOLEAN] \cup
    [key : {"forks"}, value : {"yes", "no"}] \cup
    [key : {"filter"}, value : 0..3] \cup
    [key : {"owner"}, value : Local] \cup
    [key : {"sort"}, value : {"age", "likes", "name", "edit"}] \cup
    [key : {"min_likes"}, value : {1}] \cup
    [key : {"limit", "page"}, value : Unsigned] \cup
    [key : {"text"}, value : {{r} : r \in Repo}] \cup
    [key : {"fields"}, value : {<<"fork">>, <<"path">>, <<"fork", "id">>}]

Parameterise(p) ==
    /\ found = Asking
    /\ params < MaxParams
    /\ params' = params + 1
    /\ search' = IF p.key = "fields" THEN [search EXCEPT !.fields = @ \o p.value]
                 ELSE [search EXCEPT ![p.key] = p.value]
    /\ UNCHANGED <<catalog, grants, asker, found, earlier>>

-----------------------------------------------------------------------------
(* The statement.                                                          *)

\* Mutant: a request without a user is taken for one of another instance's users.
VisibleOver_Anyone(who) == OnInstance

\* Shown by visibility: over the locality of the requester, so that a local user
\* is not shown what is for the users of the instance.
VisibleOver(who) ==
    IF who \in Local THEN OnInstance ELSE InFediverse

\* In the subquery userName is the column of RepoAccess: the path compared is that
\* of a repository of the requester himself, by the name of the one to show.
SharedWith(repo, who) ==
    \E g \in grants : g.who = who /\ g.level > Blocked /\ g.repo = <<who, repo[2]>>

Accessible(repo, who) ==
    catalog[repo].visibility > VisibleOver(who) \/ SharedWith(repo, who)

\* A path in the table of forks is compared with a bare name.
ListedAsFork(repo) == FALSE

Selected ==
    {r \in Repo :
        /\ search.filter \in {-1, OnlyOwner} => Accessible(r, asker)
        /\ search.owner \in {Nobody, r[1]}
        /\ search.filter \in {-1, catalog[r].visibility}
        /\ search.min_likes > 0 => catalog[r].likes > search.min_likes
        /\ search.forks # "any" => (ListedAsFork(r) <=> search.forks = "yes")
        /\ r \in search.text}

\* The part for "fork" ends without a comma.  A bare column after it becomes part
\* of the name "fork..." and the row is a column short; anything else is no SQL.
BareColumn == {"id", "description", "visibility", "created", "updated"}
AfterFork == {search.fields[i] : i \in {j \in 2..Len(search.fields) : search.fields[j - 1] = "fork"}}
NoStatement == search.sort = "edit" \/ AfterFork \ BareColumn # {}

Place(r) == CHOOSE i \in DOMAIN Names : Names[i] = r[2]
SortKey(r) == IF search.sort = "likes" THEN catalog[r].likes ELSE Place(r)
Before(r, q) == IF search.desc THEN SortKey(r) > SortKey(q) ELSE SortKey(r) < SortKey(q)

\* Mutant: the page counts rows.
Offset_Rows == search.page

\* page * limit as an int: a product that overflows is negative, and a negative
\* OFFSET none.
Offset == IF search.page * search.limit <= MaxInt THEN search.page * search.limit ELSE 0

Window(rows) ==
    SubSeq(rows, Offset + 1, IF Offset + search.limit < Len(rows) THEN Offset + search.limit ELSE Len(rows))

Find ==
    /\ found = Asking
    /\ IF NoStatement THEN found' = [status |-> 500, results |-> <<>>]
       ELSE \E rows \in SetToSeqs(Selected) :
              /\ \A i, j \in DOMAIN rows : Before(rows[i], rows[j]) => i < j
              /\ found' = IF AfterFork # {} /\ Window(rows) # <<>>
                          THEN [status |-> 500, results |-> <<>>]
                          ELSE [status |-> 200, results |-> Window(rows)]
    /\ UNCHANGED <<catalog, grants, asker, search, params, earlier>>

Shown == {found.results[i] : i \in DOMAIN found.results}

\* The next request is for the next page of the same search.
NextPage ==
    /\ found.status = 200
    /\ search.page < MaxShort
    /\ search' = [search EXCEPT !.page = @ + 1]
    /\ earlier' = earlier \cup Shown
    /\ found' = Asking
    /\ params' = MaxParams
    /\ UNCHANGED <<catalog, grants, asker>>

\* RepoAccess has one row of a repository and a user, the owner among them.
SearchInit ==
    /\ catalog \in [Repo -> [visibility : 0..3, likes : {0, 2}]]
    /\ grants \in SUBSET Grant
    /\ \A g, h \in grants : g.repo = h.repo /\ g.who = h.who => g = h
    /\ asker \in Requester
    /\ search = DefaultSearch
    /\ params = 0
    /\ found = Asking
    /\ earlier = {}

SearchNext == (\E p \in Parameter : Parameterise(p)) \/ Find \/ NextPage

SearchSpec == SearchInit /\ [][SearchNext]_searchVars

-----------------------------------------------------------------------------

\* A repository of the requester's own has this one's name, and a row for him.
LikeHisOwn(r) ==
    \E g \in grants : g.repo = <<asker, r[2]>> /\ g.who = asker /\ g.level > Blocked

\* The statement and can_access agree as far as they go.  A search that names no
\* visibility, or that of private repositories, shows what the requester may read,
\* and what is called like a repository of his own that has a row for him.  And it
\* leaves out no public repository it looks for when its first page is not full;
\* but a search for forks finds none.
SearchAgreesWithAccess ==
    /\ SearchTypeOK
    /\ found.status = 200 /\ search.filter \in {-1, OnlyOwner} =>
           \A r \in Shown : CanAccess(r, Read, asker) \/ LikeHisOwn(r)
    /\ /\ found.status = 200 /\ search.filter \in {-1, Public} /\ search.forks # "yes"
       /\ search.page = 0 /\ Len(found.results) < search.limit
       => {r \in search.text : /\ catalog[r].visibility = Public
                               /\ search.owner \in {Nobody, r[1]}
                               /\ search.min_likes = 1 => catalog[r].likes > 1}
             \subseteq Shown

\* Comes before or after each other repository that is selected.
Untied(r) == \A q \in Selected \ {r} : Before(r, q) \/ Before(q, r)

\* Who turns the pages of a search sees a repository again only if another has the
\* same key, which ORDER BY leaves in any order from one statement to the next, or
\* if the product of page and limit is no int.
PagesAreApart ==
    \A r \in Shown \cap earlier :
        Untied(r) => search.page * search.limit > MaxInt

\* "Only include repos the user has access to" (RepoSearch.cpp:303), when the
\* search names the visibility of some that are not private.
FilterKeepsAccess ==
    found.status = 200 /\ search.filter > OnlyOwner => \A r \in Shown : CanAccess(r, Read, asker)

\* "Only include repos the user has access to" (RepoSearch.cpp:303), when it names
\* none, or that of private ones.
SharedIsAccess ==
    found.status = 200 /\ search.filter \in {-1, OnlyOwner} => \A r \in Shown : CanAccess(r, Read, asker)
=============================================================================
