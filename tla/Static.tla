------------------------------- MODULE Static -------------------------------
(***************************************************************************)
(* The static mod (mods/static) over a tree of files that others change    *)
(* while it looks.  A path is the sequence of names from "/"; a request    *)
(* asks the file system several questions, one after the other.            *)
(***************************************************************************)
EXTENDS Integers, Sequences, FiniteSets, SequencesExt

CONSTANTS
    Visitor,        \* threads of the mod's pool
    Place,          \* paths at which something may be
    LinkTo,         \* path -> where a link there leads
    StaticRoot,     \* mod_settings.root, made absolute
    Urls,           \* what is asked for
    MaxPath,        \* PATH_MAX, in names
    NoExtension,    \* names without an extension
    MaxChanges      \* changes of the tree

Kinds == {"none", "file", "dir", "pipe", "link"}
DefaultIndex == <<"index.html", "index.htm", "index.xhtml">>

ASSUME StaticAssumption ==
    /\ Place \subseteq Seq(STRING) /\ StaticRoot \in Place
    /\ \A p \in Place : p = <<>> \/ Front(p) \in Place
    /\ LinkTo \in [Place -> Place] /\ MaxChanges \in Nat /\ MaxPath \in Nat

VARIABLES
    disk,           \* path -> what is there
    changes,        \* changes of the tree so far
    staticUp,       \* state of the mod
    settings,       \* mod_settings
    response_404,   \* what the page for missing files was made from
    visit           \* visitor -> the request it handles

staticVars == <<disk, changes, staticUp, settings, response_404, visit>>

Nowhere == <<"nowhere">>
NoVisit == [pc |-> "idle", url |-> <<>>, path |-> Nowhere, place |-> Nowhere, index |-> 1,
            status |-> 0, file |-> Nowhere, led |-> {}, since |-> 0]

StaticTypeOK ==
    /\ disk \in [Place -> Kinds] /\ changes \in 0..MaxChanges
    /\ staticUp \in {"down", "up", "refused", "ended"}
    /\ response_404 \in {"unset", "custom", "plain"}
    /\ \A t \in Visitor :
          /\ visit[t].pc \in {"idle", "missing", "decode", "resolve", "exists", "kind",
                              "index", "list", "regular", "open", "done"}
          /\ visit[t].status \in {0, 200, 400, 403, 404, 500}
          /\ visit[t].index \in 1..(Len(settings.index) + 1)

-----------------------------------------------------------------------------
(* The file system.                                                        *)

Node(tree, p) == IF p = <<>> THEN "dir" ELSE IF p \in Place THEN tree[p] ELSE "none"

Links(tree) == {p \in Place : tree[p] = "link"}

\* One name further, through links.
Enter_(links, at, name) ==
    IF name = ".." THEN (IF at = <<>> THEN at ELSE Front(at))
    ELSE LET p == Append(at, name) IN IF p \in links THEN LinkTo[p] ELSE p

\* Where a path leads.
Follow(links, p) == FoldLeft(LAMBDA at, name : Enter_(links, at, name), <<>>, p)
KindOf(tree, p) == Node(tree, Follow(Links(tree), p))

\* Without the file system.
Lexically(at, name) ==
    IF name = ".." THEN (IF at = <<>> THEN at ELSE Front(at)) ELSE Append(at, name)

Stands(tree, p) == p = <<>> \/ (KindOf(tree, Front(p)) = "dir" /\ KindOf(tree, p) # "none")

\* fs::weakly_canonical: links are followed as far as the path exists.
WeaklyCanonical(tree, p) ==
    LET known == {k \in 0..Len(p) : \A j \in 0..k : Stands(tree, SubSeq(p, 1, j))}
        k == CHOOSE n \in known : \A m \in known : m <= n
    IN FoldLeft(Lexically, Follow(Links(tree), SubSeq(p, 1, k)), SubSeq(p, k + 1, Len(p)))

\* std::mismatch of the root with the path reaches the end of the root.  A slash at
\* the end of the setting is one more, empty name, which no path has.
Inside(p) == ~settings.slash /\ IsPrefix(StaticRoot, p)

-----------------------------------------------------------------------------
(* What a request comes to when the tree stands still.                     *)

Answer_(path, status, file) == [path |-> path, status |-> status, file |-> file]

\* uri_decode, then the query is cut and the slashes before the path go.
Decoded(url) ==
    LET cut == {i \in DOMAIN url : url[i] = "?"} IN
    IF cut = {} THEN url
    ELSE SubSeq(url, 1, (CHOOSE i \in cut : \A j \in cut : i <= j) - 1)

\* The place of the i-th name for an index of the directory at a place.
IndexAt(tree, place, i) == Enter_(Links(tree), place, settings.index[i])

\* The path of a url, and what it leads to.
LedTo(tree, url) ==
    LET p == WeaklyCanonical(tree, StaticRoot \o Decoded(url))
        place == Follow(Links(tree), p)
        found == {i \in DOMAIN settings.index : Node(tree, IndexAt(tree, place, i)) = "file"}
        first == CHOOSE i \in found : \A j \in found : i <= j
    IN
    IF Len(url) >= MaxPath THEN Answer_(p, 400, Nowhere)
    ELSE IF ~IsPrefix(StaticRoot, p) THEN Answer_(p, 403, Nowhere)
    ELSE IF Node(tree, place) = "file" THEN Answer_(p, 200, place)
    ELSE IF Node(tree, place) # "dir" THEN Answer_(p, 404, Nowhere)
    ELSE IF found # {} THEN Answer_(p, 200, IndexAt(tree, place, first))
    ELSE IF settings.list THEN Answer_(p, 200, place)
    ELSE Answer_(p, 404, Nowhere)

\* What is right: nothing outside the root is sent.
RightAnswer(a) ==
    IF a.status = 200 /\ ~IsPrefix(StaticRoot, a.file) THEN Answer_(a.path, 403, Nowhere) ELSE a

-----------------------------------------------------------------------------
(* Start, and changes of the tree.                                         *)

StaticInit ==
    /\ disk \in [Place -> Kinds]
    /\ \A p \in Place : p # <<>> /\ disk[p] # "none" => Node(disk, Front(p)) = "dir"
    /\ changes = 0 /\ staticUp = "down" /\ response_404 = "unset"
    /\ settings = [index |-> DefaultIndex, list |-> TRUE, slash |-> FALSE]
    /\ visit = [t \in Visitor |-> NoVisit]

\* start: without a root the mod is not started; an index or a switch of the wrong
\* type is reported, and what stands in the source is kept.
StaticStart ==
    /\ staticUp = "down"
    /\ \E rooted, list, slash \in BOOLEAN, index \in {<<>>, DefaultIndex} :
          IF rooted /\ KindOf(disk, StaticRoot) # "none"
          THEN staticUp' = "up" /\ settings' = [index |-> index, list |-> list, slash |-> slash]
          ELSE staticUp' = "refused" /\ UNCHANGED settings
    /\ UNCHANGED <<disk, changes, response_404, visit>>

\* Somebody puts something at a leaf of the tree, or takes it away; links, and
\* what they lead to, stay.  Requests under way may come to one more thing.
TreeChanges ==
    /\ staticUp = "up" /\ changes < MaxChanges
    /\ changes' = changes + 1
    /\ \E p \in Place \ {<<>>}, kind \in Kinds \ {"link"} :
          LET tree == [disk EXCEPT ![p] = kind] IN
          /\ disk[p] # kind /\ disk[p] # "link" /\ (disk[p] = "none" \/ kind = "none")
          /\ Node(disk, Front(p)) = "dir"
          /\ \A q \in Place : q # <<>> /\ Front(q) = p => disk[q] = "none"
          /\ \A q \in Place : disk[q] = "link" => LinkTo[q] # p
          /\ disk' = tree
          /\ visit' = [t \in Visitor |->
                IF visit[t].pc \in {"idle", "done"} THEN visit[t]
                ELSE [visit[t] EXCEPT !.led = @ \cup {LedTo(tree, visit[t].url)}]]
    /\ UNCHANGED <<staticUp, settings, response_404>>

-----------------------------------------------------------------------------
(* handle_request.                                                         *)

AtStep(t, pc) == staticUp = "up" /\ visit[t].pc = pc
GoOn(t, pc) == visit' = [visit EXCEPT ![t].pc = pc]
Reply(t, status, file) ==
    visit' = [visit EXCEPT ![t].pc = "done", ![t].status = status, ![t].file = file]

Visit(t) ==
    /\ staticUp = "up" /\ visit[t].pc \in {"idle", "done"}
    /\ \E url \in Urls :
          visit' = [visit EXCEPT ![t] = [NoVisit EXCEPT !.url = url, !.since = changes,
              !.led = {LedTo(disk, url)},
              !.pc = IF response_404 = "unset" THEN "missing" ELSE "decode"]]
    /\ UNCHANGED <<disk, changes, staticUp, settings, response_404>>

\* The static body_404 is made by the first request; others wait for it.
MissingPage(t) ==
    /\ AtStep(t, "missing")
    /\ response_404' = IF response_404 # "unset" THEN response_404
                       ELSE IF KindOf(disk, Append(StaticRoot, "404.html")) = "file" THEN "custom"
                       ELSE "plain"
    /\ GoOn(t, "decode")
    /\ UNCHANGED <<disk, changes, staticUp, settings>>

Decode(t) ==
    /\ AtStep(t, "decode")
    /\ IF Len(visit[t].url) >= MaxPath THEN Reply(t, 400, Nowhere) ELSE GoOn(t, "resolve")

\* Mutant: the path is compared before its links and ".." are resolved.
Checked_Asked(p) == FoldLeft(Lexically, <<>>, p)

\* The path that is compared with the root, and then used.
Checked(p) == WeaklyCanonical(disk, p)

\* place: where the path leads, always the same as links stand still.
ResolvePath(t) ==
    LET p == Checked(StaticRoot \o Decoded(visit[t].url)) IN
    /\ AtStep(t, "resolve")
    /\ IF Inside(p) THEN visit' = [visit EXCEPT ![t].pc = "exists", ![t].path = p,
                                               ![t].place = Follow(Links(disk), p)]
       ELSE Reply(t, 403, Nowhere)

\* What is there now.
Kind(t) == Node(disk, visit[t].place)

PathExists(t) ==
    /\ AtStep(t, "exists")
    /\ IF Kind(t) = "none" THEN Reply(t, 404, Nowhere) ELSE GoOn(t, "kind")

IsDirectory(t) ==
    /\ AtStep(t, "kind")
    /\ GoOn(t, IF Kind(t) = "dir" THEN "index" ELSE "regular")

TryIndex(t) ==
    /\ AtStep(t, "index")
    /\ LET i == visit[t].index
           p == IndexAt(disk, visit[t].place, i) IN
       IF i > Len(settings.index)
       THEN IF settings.list THEN GoOn(t, "list") ELSE Reply(t, 404, Nowhere)
       ELSE IF Node(disk, p) = "file"
       THEN visit' = [visit EXCEPT ![t].pc = "open", ![t].place = p,
                                   ![t].path = Append(@, settings.index[i])]
       ELSE visit' = [visit EXCEPT ![t].index = i + 1]

\* list_directory_body: what is no directory any more throws, and is answered 500.
ListDirectory(t) ==
    /\ AtStep(t, "list")
    /\ IF Kind(t) = "dir" THEN Reply(t, 200, visit[t].place) ELSE Reply(t, 500, Nowhere)

IsRegular(t) ==
    /\ AtStep(t, "regular")
    /\ IF Kind(t) = "file" THEN GoOn(t, "open") ELSE Reply(t, 404, Nowhere)

\* file_response.  Of a name without an extension there is nothing to cut the dot
\* off, and nobody catches what substr throws.
OpenFile(t) ==
    /\ AtStep(t, "open")
    /\ IF Kind(t) = "none"
       THEN Reply(t, 500, Nowhere) /\ UNCHANGED staticUp
       ELSE IF Last(visit[t].path) \in NoExtension
       THEN staticUp' = "ended" /\ UNCHANGED visit
       ELSE Reply(t, 200, visit[t].place) /\ UNCHANGED staticUp
    /\ UNCHANGED <<disk, changes, settings, response_404>>

Looks(t) ==
    /\ \/ Decode(t) \/ ResolvePath(t) \/ PathExists(t) \/ IsDirectory(t)
       \/ TryIndex(t) \/ ListDirectory(t) \/ IsRegular(t)
    /\ UNCHANGED <<disk, changes, staticUp, settings, response_404>>

StaticNext ==
    \/ StaticStart \/ TreeChanges
    \/ \E t \in Visitor : Visit(t) \/ MissingPage(t) \/ Looks(t) \/ OpenFile(t)

StaticSpec == StaticInit /\ [][StaticNext]_staticVars

-----------------------------------------------------------------------------

\* weakly_canonical cuts a ".." after a name that is not there, and follows the links
\* before it once it is there: the url leads elsewhere.
LedElsewhere(t) == \E a, b \in visit[t].led : a.path # b.path

\* What is sent lies outside the root.
LedOut(t) == visit[t].status = 200 /\ ~IsPrefix(StaticRoot, visit[t].file)

\* However the tree changes while a request is handled, its answer is right for the
\* tree at one moment of the request.  Excepted are a 500, where something vanished
\* after it was found; a tree that changed twice while several names for an index were
\* tried, or so that the url leads elsewhere; what a link leads out of the root to,
\* which is sent (StaysInside); and a root set with a slash at its end, with which all
\* is answered 403.
RightAtOneMoment ==
    /\ StaticTypeOK
    /\ \A t \in Visitor : visit[t].pc = "done" /\ ~settings.slash =>
          \/ \E a \in visit[t].led :
                 LET right == RightAnswer(a) IN
                 right.status = visit[t].status /\ right.file = visit[t].file
          \/ visit[t].status = 500 /\ \E a, b \in visit[t].led : a # b
          \/ changes - visit[t].since > 1 /\ visit[t].index > 1
          \/ LedElsewhere(t) \/ LedOut(t)

\* As the source says of the comparison with the root: the path is still inside it.
\* What follows a missing name is compared without its links, which are followed when it
\* is opened; and so are those of a name for an index.
StaysInside == \A t \in Visitor : visit[t].pc = "done" => ~LedOut(t)
=============================================================================
