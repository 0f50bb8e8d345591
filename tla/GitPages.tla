------------------------------ MODULE GitPages ------------------------------
(***************************************************************************)
(* Reading a repository for its page (mods/git/src/Repos/GitRepo.cpp).     *)
(* The threads that hold a repository share one GitRepo object, with its   *)
(* mutex m_mtx and its revision walker m_walker; git processes push to the *)
(* repository on disk at the same time, and take no lock of this process.  *)
(*                                                                         *)
(* The content of a file is named by the commit that wrote it.             *)
(***************************************************************************)
EXTENDS Integers, Sequences, FiniteSetsExt

CONSTANTS
    Reader,     \* threads that make a page
    File,       \* entries of the root of the tree
    Branch,
    Main,       \* the branch HEAD names
    Unlocked,
    MaxCommits  \* bound of the history

ASSUME PagesAssumption == Main \in Branch /\ Unlocked \notin Reader /\ MaxCommits \in Nat

VARIABLES
    commits,    \* the commits, the older first
    tipOf,      \* branch -> its commit, or 0
    m_mtx,
    m_walker,   \* commits the walker has yet to return
    pagePc,
    page

pageVars == <<commits, tipOf, m_mtx, m_walker, pagePc, page>>
repository == <<commits, tipOf>>

CommitNo == 1..MaxCommits
EmptyPage == [tip |-> 0, count |-> 0, last |-> 0, files |-> [f \in {} |-> 0]]

PagesTypeOK ==
    /\ \A c \in 1..Len(commits) :
          /\ commits[c].parents \in {<<>>} \cup UNION {[1..n -> 1..(c - 1)] : n \in 1..2}
          /\ commits[c].tree \in [File -> 0..c]
    /\ tipOf \in [Branch -> 0..Len(commits)]
    /\ m_mtx \in Reader \cup {Unlocked}
    /\ m_walker \subseteq CommitNo
    /\ pagePc \in [Reader -> {"idle", "tip", "push", "count", "last",
                              "entries", "shown", "failed"}]
    /\ \A t \in Reader :
          /\ page[t].tip \in 0..MaxCommits /\ page[t].last \in 0..MaxCommits
          /\ page[t].count \in 0..MaxCommits
          /\ DOMAIN page[t].files \subseteq File
          /\ \A f \in DOMAIN page[t].files : page[t].files[f] \in CommitNo

PagesInit ==
    /\ commits = <<>>
    /\ tipOf = [b \in Branch |-> 0]
    /\ m_mtx = Unlocked
    /\ m_walker = {}
    /\ pagePc = [t \in Reader |-> "idle"]
    /\ page = [t \in Reader |-> EmptyPage]

PageGo(t, from, to) ==
    /\ pagePc[t] = from
    /\ pagePc' = [pagePc EXCEPT ![t] = to]

Parents(c) == {commits[c].parents[i] : i \in 1..Len(commits[c].parents)}

\* A commit and all it descends from: the fewest commits that it and the parents
\* of each are among.
History(c) ==
    {d \in 1..c : \A s \in SUBSET (1..c) : c \in s /\ (\A e \in s : Parents(e) \subseteq s)
                                              => d \in s}

-----------------------------------------------------------------------------
(* Pushes, by git processes.                                               *)

\* A commit on a branch, on top of nothing or of the tip, with or without a
\* merge of another branch.
PushCommit(b) ==
    /\ Len(commits) < MaxCommits
    /\ LET new == Len(commits) + 1
           merged == {tipOf[o] : o \in Branch \ {b}} \ {0, tipOf[b]} IN
       \E parents \in IF tipOf[b] = 0 THEN {<<>>} \cup {<<m>> : m \in merged}
                      ELSE {<<tipOf[b]>>} \cup {<<tipOf[b], m>> : m \in merged} :
       \E tree \in [File -> 0..new] :
          /\ \A f \in File : tree[f] \in {0, new}
                \cup {commits[parents[i]].tree[f] : i \in 1..Len(parents)}
          /\ commits' = Append(commits, [parents |-> parents, tree |-> tree])
          /\ tipOf' = [tipOf EXCEPT ![b] = new]
    /\ UNCHANGED <<m_mtx, m_walker, pagePc, page>>

PushDeletion(b) ==
    /\ tipOf[b] # 0
    /\ tipOf' = [tipOf EXCEPT ![b] = 0]
    /\ UNCHANGED <<commits, m_mtx, m_walker, pagePc, page>>

-----------------------------------------------------------------------------
(* get_repo_page_data.                                                     *)

\* default_branch, under its own lock: an unborn HEAD has none.
DefaultBranch(t) ==
    /\ PageGo(t, "idle", IF tipOf[Main] = 0 THEN "failed" ELSE "tip")
    /\ m_mtx = Unlocked
    /\ UNCHANGED <<repository, m_mtx, m_walker, page>>

EnterSection(t) == m_mtx = Unlocked /\ m_mtx' = t

\* branch_tip: the branch may have gone since.
BranchTip(t) ==
    /\ pagePc[t] = "tip"
    /\ IF tipOf[Main] = 0
       THEN /\ m_mtx = Unlocked
            /\ PageGo(t, "tip", "failed")
            /\ UNCHANGED <<m_mtx, page>>
       ELSE /\ EnterSection(t)
            /\ PageGo(t, "tip", "push")
            /\ page' = [page EXCEPT ![t].tip = tipOf[Main]]
    /\ UNCHANGED <<repository, m_walker>>

\* commits_count: the walk starts at the tip...
PushWalk(t) ==
    /\ PageGo(t, "push", "count")
    /\ m_walker' = m_walker \cup History(page[t].tip)
    /\ UNCHANGED <<repository, m_mtx, page>>

\* ... and ends with a reset.
CountWalk(t) ==
    /\ PageGo(t, "count", "last")
    /\ page' = [page EXCEPT ![t].count = Cardinality(m_walker)]
    /\ m_walker' = {}
    /\ UNCHANGED <<repository, m_mtx>>

LastCommit(t) ==
    /\ PageGo(t, "last", "entries")
    /\ page' = [page EXCEPT ![t].last = page[t].tip]
    /\ UNCHANGED <<repository, m_mtx, m_walker>>

\* The walk for a path ends at a root, or at a commit that differs from its
\* first parent there.
StopsAt(c, f) ==
    \/ commits[c].parents = <<>>
    \/ commits[c].tree[f] # commits[commits[c].parents[1]].tree[f]

\* Mutant: a walk that ends early leaves the rest in the walker.
AfterWalk_NotReset(rest) == m_walker' = rest

AfterWalk(rest) == m_walker' = {}

\* The walk starts at the tip: newest commits first.
Walk(t) == m_walker \cup History(page[t].tip)

Entry(t, f) ==
    /\ pagePc[t] = "entries"
    /\ f \notin DOMAIN page[t].files
    /\ commits[page[t].tip].tree[f] # 0
    /\ LET stop == Max({c \in Walk(t) : StopsAt(c, f)}) IN
          /\ page' = [page EXCEPT ![t].files =
                [g \in DOMAIN @ \cup {f} |-> IF g = f THEN stop ELSE @[g]]]
          /\ AfterWalk({c \in Walk(t) : c < stop})
    /\ UNCHANGED <<repository, m_mtx, pagePc>>

EntriesDone(t) ==
    /\ PageGo(t, "entries", "shown")
    /\ \A f \in File : commits[page[t].tip].tree[f] # 0 => f \in DOMAIN page[t].files
    /\ m_mtx' = Unlocked
    /\ UNCHANGED <<repository, m_walker, page>>

\* The thread turns to its next request.
PageAgain(t) ==
    /\ pagePc[t] \in {"shown", "failed"}
    /\ pagePc' = [pagePc EXCEPT ![t] = "idle"]
    /\ page' = [page EXCEPT ![t] = EmptyPage]
    /\ UNCHANGED <<repository, m_mtx, m_walker>>

PagesNext ==
    \/ \E b \in Branch : PushCommit(b) \/ PushDeletion(b)
    \/ \E t \in Reader :
          \/ DefaultBranch(t) \/ BranchTip(t) \/ PushWalk(t) \/ CountWalk(t)
          \/ LastCommit(t) \/ EntriesDone(t) \/ PageAgain(t)
          \/ \E f \in File : Entry(t, f)

PagesSpec == PagesInit /\ [][PagesNext]_pageVars

-----------------------------------------------------------------------------

Linear(c) == \A d \in History(c) : Len(commits[d].parents) <= 1

\* A page is of one commit, the tip when it was made: its number of commits, its
\* last commit and its files are those of that commit, whatever is pushed while
\* the page is made and whoever else walks with the same walker.  In a history
\* without merges, the commit shown beside a file is the one that wrote the content
\* the file has.  (With merges it need not be: only the first parent is compared,
\* and a root ends the walk.)
PageOfOneCommit ==
    /\ PagesTypeOK
    /\ \A t \in Reader : pagePc[t] = "shown" =>
           LET tip == page[t].tip IN
           /\ page[t].count = Cardinality(History(tip))
           /\ page[t].last = tip
           /\ DOMAIN page[t].files = {f \in File : commits[tip].tree[f] # 0}
           /\ Linear(tip) => \A f \in DOMAIN page[t].files :
                                page[t].files[f] = commits[tip].tree[f]
=============================================================================
