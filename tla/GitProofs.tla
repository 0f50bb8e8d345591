----------------------------- MODULE GitProofs ------------------------------
(***************************************************************************)
(* The git mod: run_cmd for every number of threads, size of pipe and      *)
(* length of output, the page of a repository for every number of readers, *)
(* commits and files, and the cache of repositories for any number of      *)
(* repositories, objects, threads and calls and every length of its list.  *)
(***************************************************************************)
EXTENDS RepoCache, GitProcess, GitPages, FiniteSetTheorems, WellFoundedInduction, TLAPS

\* The ends of a run's pipes that the server has open are those its thread has
\* not come to close.
OwnEnds(r) ==
    /\ <<r, "inR">> \in fds <=> runPc[r] \in {"piped", "forked"}
    /\ <<r, "outW">> \in fds <=> runPc[r] \in {"piped", "forked"}
    /\ <<r, "inW">> \in fds <=> runPc[r] \in {"piped", "forked", "writing"}
    /\ <<r, "outR">> \in fds
         <=> runPc[r] \in {"piped", "forked", "writing", "reading"}

\* A child that runs can write its output, whatever else holds the pipe.
ChildHoldsOutput(r) ==
    /\ child[r] = "none" <=> runPc[r] \in {"idle", "piped"}
    /\ child[r] = "running" => <<r, "outW">> \in inherited[r]
    /\ child[r] = "reaped" <=> runPc[r] = "returned"
    /\ runPc[r] = "waiting" => child[r] = "zombie"

\* Output is read, in the pipe, or not yet written.
OutputKept(r) ==
    /\ written[r] = got[r] + outPipe[r]
    /\ written[r] <= job[r].output
    /\ child[r] \in {"zombie", "reaped"} => written[r] = job[r].output
    /\ runPc[r] \in {"waiting", "returned"} => outPipe[r] = 0

InputBounded(r) == sent[r] <= job[r].body

RunOK(r) == OwnEnds(r) /\ ChildHoldsOutput(r) /\ OutputKept(r) /\ InputBounded(r)

ProcessIInv == ProcessTypeOK /\ \A r \in Run : RunOK(r)

\* What TLC checks of the strengthening follows from it.
LEMMA Complete == ProcessIInv => RunIsComplete
<1> SUFFICES ASSUME ProcessIInv, NEW r \in Run, runPc[r] = "returned"
             PROVE  /\ got[r] = job[r].output
                    /\ child[r] = "reaped"
                    /\ fds \cap PipeEnds(r) = {}
  BY DEF ProcessIInv, RunIsComplete
<1> USE DEF ProcessIInv, RunOK
<1>1. child[r] = "reaped"
  BY DEF ChildHoldsOutput
<1>2. got[r] = job[r].output
  <2>1. got[r] \in Int /\ outPipe[r] = 0 /\ written[r] = job[r].output
    BY <1>1 DEF OutputKept, ProcessTypeOK
  <2> QED BY <2>1 DEF OutputKept
<1>3. fds \cap PipeEnds(r) = {}
  <2>1. ASSUME NEW e \in PipeEnds(r) PROVE e \notin fds
    <3>1. PICK i \in {"inR", "inW", "outR", "outW"} : e = <<r, i>>
      BY DEF PipeEnds
    <3> QED BY <3>1 DEF OwnEnds
  <2> QED BY <2>1
<1> QED BY <1>1, <1>2, <1>3

\* No run has begun.
LEMMA ProcessStarts == ProcessInit => ProcessIInv
  BY ProcessAssumption
  DEF ProcessInit, ProcessIInv, ProcessTypeOK, RunOK, OwnEnds, ChildHoldsOutput,
      OutputKept, InputBounded, Jobs

\* A step of the thread or the child of one run changes nothing of another's.
LEMMA OthersKept ==
    ASSUME ProcessTypeOK, NEW r \in Run, ServerStep(r) \/ ChildStep(r),
           NEW q \in Run \ {r}, RunOK(q)
    PROVE  RunOK(q)'
<1> USE DEF RunOK, OwnEnds, ChildHoldsOutput, OutputKept, InputBounded,
            ProcessTypeOK, RunStep, pipes, ServerKeeps
<1>1. CASE MakePipes(r)
  BY <1>1 DEF MakePipes, PipeEnds
<1>2. CASE Fork(r)
  BY <1>2 DEF Fork
<1>3. CASE CloseChildEnds(r)
  BY <1>3 DEF CloseChildEnds
<1>4. CASE WriteBody(r)
  BY <1>4 DEF WriteBody
<1>5. CASE CloseInput(r)
  BY <1>5 DEF CloseInput
<1>6. CASE ReadOutput(r)
  BY <1>6 DEF ReadOutput
<1>7. CASE ReadEnd(r)
  BY <1>7 DEF ReadEnd, CloseOutput
<1>8. CASE Reap(r)
  BY <1>8 DEF Reap
<1>9. CASE ChildStep(r)
  BY <1>9 DEF ChildStep, ChildWrite, ChildRead, ChildEnd, ChildExit
<1> QED
  BY <1>1, <1>2, <1>3, <1>4, <1>5, <1>6, <1>7, <1>8, <1>9 DEF ServerStep

\* Nor does it break its own, or a type.
LEMMA OwnKept ==
    ASSUME ProcessTypeOK, NEW r \in Run, ServerStep(r) \/ ChildStep(r), RunOK(r)
    PROVE  RunOK(r)' /\ ProcessTypeOK'
<1> USE ProcessAssumption
    DEF RunOK, OwnEnds, ChildHoldsOutput, OutputKept, InputBounded,
        ProcessTypeOK, RunStep, pipes, ServerKeeps
<1> DEFINE AllEnds == UNION {PipeEnds(q) : q \in Run}
<1>0. PipeEnds(r) \subseteq AllEnds
  OBVIOUS
<1>j. job[r].body \in 0..MaxBlocks /\ job[r].output \in 0..MaxBlocks
  BY DEF Jobs
<1>1. CASE MakePipes(r)
  <2>1. ProcessTypeOK'
    BY <1>0, <1>1 DEF MakePipes
  <2>2. RunOK(r)'
    BY <1>1 DEF MakePipes, PipeEnds
  <2> QED BY <2>1, <2>2
<1>2. CASE Fork(r)
  BY <1>2 DEF Fork, Inherits
<1>3. CASE CloseChildEnds(r)
  BY <1>3 DEF CloseChildEnds
<1>4. CASE WriteBody(r)
  <2>1. CASE UNCHANGED up
    <3>1. /\ inPipe' = [inPipe EXCEPT ![r] = @ + 1] /\ inPipe[r] < PipeSize
          /\ sent' = [sent EXCEPT ![r] = @ + 1] /\ sent[r] < job[r].body
      BY <1>4, <2>1 DEF WriteBody
    <3> QED BY <1>4, <1>j, <2>1, <3>1 DEF WriteBody
  <2>2. CASE up' = FALSE /\ UNCHANGED <<inPipe, sent>>
    BY <1>4, <2>2 DEF WriteBody
  <2> QED BY <1>4, <2>1, <2>2 DEF WriteBody
<1>5. CASE CloseInput(r)
  BY <1>5 DEF CloseInput
<1>6. CASE ReadOutput(r)
  BY <1>6, <1>j DEF ReadOutput
<1>7. CASE ReadEnd(r)
  <2>1. child[r] \notin {"none", "running"}
    BY <1>7 DEF ReadEnd, EndOfOutput, HeldOpen
  <2> QED BY <1>7, <2>1 DEF ReadEnd, EndOfOutput, CloseOutput
<1>8. CASE Reap(r)
  BY <1>8 DEF Reap
<1>9. CASE ChildWrite(r)
  BY <1>9, <1>j DEF ChildWrite, Running
<1>10. CASE ChildRead(r) \/ ChildEnd(r)
  BY <1>10 DEF ChildRead, ChildEnd
<1>11. CASE ChildExit(r)
  BY <1>11 DEF ChildExit, Running
<1> QED
  BY <1>1, <1>2, <1>3, <1>4, <1>5, <1>6, <1>7, <1>8, <1>9, <1>10, <1>11
  DEF ServerStep, ChildStep

-----------------------------------------------------------------------------

\* What run_cmd returns is the whole output of its own child, which is reaped,
\* and no end of its pipes stays open, with any number of threads whose children
\* inherit each other's pipes.
THEOREM RunsAreComplete == ProcessSpec => []RunIsComplete
<1>1. ProcessIInv /\ [ProcessNext]_processVars => ProcessIInv'
  <2> SUFFICES ASSUME ProcessIInv, [ProcessNext]_processVars PROVE ProcessIInv'
    OBVIOUS
  <2>1. ASSUME NEW r \in Run, ServerStep(r) \/ ChildStep(r) PROVE ProcessIInv'
    BY <2>1, OwnKept, OthersKept DEF ProcessIInv
  <2>2. ASSUME NEW r \in Run, OutOfResources(r) PROVE ProcessIInv'
    BY <2>2 DEF OutOfResources, ProcessIInv, ProcessTypeOK, RunOK, OwnEnds,
       ChildHoldsOutput, OutputKept, InputBounded, pipes
  <2>3. CASE UNCHANGED processVars
    BY <2>3 DEF processVars, ProcessIInv, ProcessTypeOK, RunOK, OwnEnds,
       ChildHoldsOutput, OutputKept, InputBounded
  <2> QED BY <2>1, <2>2, <2>3 DEF ProcessNext
<1> QED BY ProcessStarts, <1>1, Complete, PTL DEF ProcessSpec

-----------------------------------------------------------------------------
(***************************************************************************)
(* The page of a repository (GitPages).                                    *)
(***************************************************************************)

Commit == [parents : Seq(Nat), tree : [File -> Nat]]

OlderThan(c) == {<<>>} \cup UNION {[1..n -> 1..(c - 1)] : n \in 1..2}

\* A commit descends from older ones, and has files it wrote or those of a parent.
Ancestry ==
    /\ commits \in Seq(Commit) /\ Len(commits) <= MaxCommits
    /\ tipOf \in [Branch -> 0..Len(commits)]
    /\ \A c \in 1..Len(commits) :
          /\ commits[c].parents \in OlderThan(c)
          /\ Parents(c) \subseteq 1..(c - 1)
          /\ commits[c].tree \in [File -> 0..c]
          /\ \A f \in File : commits[c].tree[f] \in {0, c}
                \cup {commits[p].tree[f] : p \in Parents(c)}

Section == {"push", "count", "last", "entries"}

\* One reader is in the section, and what the walker has left is the rest of a
\* count's walk.
OneWalks ==
    /\ pagePc \in [Reader -> {"idle", "tip", "shown", "failed"} \cup Section]
    /\ m_mtx \in Reader \cup {Unlocked}
    /\ \A t \in Reader : pagePc[t] \in Section => m_mtx = t
    /\ \A t \in Reader : pagePc[t] = "count" => m_walker = History(page[t].tip)
    /\ m_walker # {} => \E t \in Reader : pagePc[t] = "count"

PageShape(pg) ==
    /\ pg = [tip |-> pg.tip, count |-> pg.count, last |-> pg.last,
             files |-> [f \in DOMAIN pg.files |-> pg.files[f]]]
    /\ DOMAIN pg.files \subseteq File

\* What a page has of its commit so far.
PageSoFar(t) ==
    LET tip == page[t].tip
        files == page[t].files IN
    /\ PageShape(page[t])
    /\ IF pagePc[t] \in Section \cup {"shown"} THEN tip \in 1..Len(commits) ELSE page[t] = EmptyPage
    /\ page[t].count = IF pagePc[t] \in {"last", "entries", "shown"}
                       THEN Cardinality(History(tip)) ELSE 0
    /\ page[t].last = IF pagePc[t] \in {"entries", "shown"} THEN tip ELSE 0
    /\ DOMAIN files # {} => pagePc[t] \in {"entries", "shown"}
    /\ \A f \in DOMAIN files :
          /\ commits[tip].tree[f] # 0 /\ files[f] \in History(tip)
          /\ Linear(tip) => files[f] = commits[tip].tree[f]
    /\ pagePc[t] = "shown" => \A f \in File : commits[tip].tree[f] # 0 => f \in DOMAIN files

PagesIInv ==
    /\ Ancestry /\ OneWalks
    /\ page = [t \in Reader |-> page[t]]
    /\ \A t \in Reader : PageSoFar(t)

\* Sets of naturals have a least element.
LEMMA Least ==
  ASSUME NEW T, T \subseteq Nat, T # {}
  PROVE  \E x \in T : \A y \in T : x <= y
<1>1. PICK x \in T : \A y \in T : ~(<<y, x>> \in OpToRel(<, Nat))
  BY NatLessThanWellFounded, WFMin
<1>2. \A y \in T : ~(y < x)
  BY <1>1 DEF OpToRel
<1> QED BY <1>2

\* So have bounded ones a greatest, which is their Max.
LEMMA Greatest ==
  ASSUME NEW n \in Nat, NEW T, T \subseteq 0..n, T # {}
  PROVE  Max(T) \in T /\ \A y \in T : y <= Max(T)
<1> DEFINE D == {n - y : y \in T}
<1>1. \A y \in T : n - y \in Nat /\ y \in Nat
  OBVIOUS
<1>2. D \subseteq Nat /\ D # {}
  BY <1>1
<1>3. PICK d \in D : \A e \in D : d <= e
  BY <1>2, Least
<1>4. PICK x \in T : d = n - x
  BY <1>3
<1>5. \A y \in T : n - x <= n - y
  BY <1>3, <1>4
<1>6. \A y \in T : x >= y
  BY <1>1, <1>5
<1>7. Max(T) \in T /\ \A y \in T : Max(T) >= y
  BY <1>6 DEF Max
<1> QED BY <1>1, <1>7

\* What holds of a commit, and of the parents of whatever it holds of, holds of its
\* history.
LEMMA HistoryInduction ==
    ASSUME NEW c \in Nat, NEW s \in SUBSET (1..c), c \in s,
           \A e \in s : Parents(e) \subseteq s
    PROVE  History(c) \subseteq s
  BY DEF History

\* The history of a commit is of it and older ones, with the parents of each.
LEMMA HistoryClosed ==
    ASSUME Ancestry, NEW c \in 1..Len(commits)
    PROVE  /\ History(c) \subseteq 1..c /\ c \in History(c)
           /\ \A e \in History(c) : Parents(e) \subseteq History(c)
<1>1. Len(commits) \in Nat
  BY DEF Ancestry
<1>2. c \in History(c) /\ History(c) \subseteq 1..c
  BY <1>1 DEF History
<1>3. ASSUME NEW e \in History(c), NEW p \in Parents(e) PROVE p \in History(c)
  <2>1. e \in 1..c /\ Parents(e) \subseteq 1..(e - 1)
    BY <1>1, <1>2 DEF Ancestry
  <2>2. p \in 1..c
    BY <1>1, <2>1
  <2>3. \A s \in SUBSET (1..c) : c \in s /\ (\A d \in s : Parents(d) \subseteq s) => e \in s
    BY DEF History
  <2> QED BY <2>2, <2>3 DEF History
<1> QED BY <1>2, <1>3

\* A history is finite.
LEMMA HistoryCounted ==
    ASSUME Ancestry, NEW c \in 1..Len(commits)
    PROVE  Cardinality(History(c)) \in 0..MaxCommits
<1>1. Len(commits) \in Nat /\ Len(commits) <= MaxCommits /\ MaxCommits \in Nat
  BY PagesAssumption DEF Ancestry
<1>2. IsFiniteSet(1..c) /\ Cardinality(1..c) = c
  BY <1>1, FS_Interval
<1>3. History(c) \subseteq 1..c
  BY HistoryClosed
<1>4. IsFiniteSet(History(c)) /\ Cardinality(History(c)) <= c
  BY <1>2, <1>3, FS_Subset
<1>5. Cardinality(History(c)) \in Nat
  BY <1>4, FS_CardinalityType
<1> QED BY <1>1, <1>4, <1>5

\* A push adds to no history but that of its commit.
LEMMA HistoryKept ==
    ASSUME Ancestry, NEW new, commits' = Append(commits, new), NEW c \in 1..Len(commits)
    PROVE  /\ commits'[c] = commits[c] /\ History(c)' = History(c)
           /\ Linear(c)' <=> Linear(c)
<1>1. commits \in Seq(Commit) /\ Len(commits) \in Nat
  BY DEF Ancestry
<1>2. \A d \in 1..Len(commits) : commits'[d] = commits[d]
  BY <1>1
<1>3. \A d \in 1..c : d \in 1..Len(commits) /\ Parents(d)' = Parents(d)
  BY <1>1, <1>2 DEF Parents
<1>4. History(c)' = History(c)
  <2>1. \A s \in SUBSET (1..c) : (\A e \in s : Parents(e)' \subseteq s)
                                 <=> (\A e \in s : Parents(e) \subseteq s)
    BY <1>3
  <2> QED BY <2>1 DEF History
<1>5. History(c) \subseteq 1..c
  BY HistoryClosed
<1>6. Linear(c)' <=> Linear(c)
  BY <1>2, <1>3, <1>4, <1>5 DEF Linear
<1> QED BY <1>2, <1>4, <1>6

\* The walk for a file stops, and without merges at the commit that wrote it.
LEMMA WalkStops ==
    ASSUME Ancestry, NEW c \in 1..Len(commits), NEW f \in File, commits[c].tree[f] # 0
    PROVE  LET stop == Max({d \in History(c) : StopsAt(d, f)}) IN
           /\ stop \in History(c)
           /\ Linear(c) => stop = commits[c].tree[f]
<1> DEFINE H == History(c)
           Stops == {d \in H : StopsAt(d, f)}
           stop == Max(Stops)
           v == commits[c].tree[f]
<1>1. Len(commits) \in Nat /\ c \in Nat
  BY DEF Ancestry
<1>2. H \subseteq 1..c /\ c \in H /\ \A e \in H : Parents(e) \subseteq H
  BY HistoryClosed
<1>3. ASSUME NEW d \in H
      PROVE  /\ d \in 1..Len(commits)
             /\ commits[d].parents \in OlderThan(d)
             /\ Parents(d) \subseteq 1..(d - 1)
             /\ commits[d].tree[f] \in {0, d} \cup {commits[p].tree[f] : p \in Parents(d)}
  <2>1. d \in 1..Len(commits)
    BY <1>1, <1>2
  <2> QED BY <2>1 DEF Ancestry
<1>4. \A d \in H : commits[d].parents # <<>> =>
         /\ commits[d].parents[1] \in Parents(d) /\ Len(commits[d].parents) \in 1..2
  BY <1>3 DEF Parents, OlderThan
<1>5. Stops # {}
  <2>1. PICK m \in H : \A e \in H : m <= e
    BY <1>1, <1>2, Least
  <2>2. commits[m].parents = <<>>
    <3> SUFFICES ASSUME commits[m].parents # <<>> PROVE FALSE
      OBVIOUS
    <3>1. commits[m].parents[1] \in H /\ commits[m].parents[1] \in 1..(m - 1) /\ m \in Nat
      BY <1>2, <1>3, <1>4
    <3> QED BY <2>1, <3>1
  <2> QED BY <2>2 DEF StopsAt
<1>6. stop \in Stops /\ \A d \in Stops : d <= stop
  <2>1. Stops \subseteq 0..c
    BY <1>1, <1>2
  <2> HIDE DEF Stops
  <2> QED BY <1>1, <1>5, <2>1, Greatest
<1> HIDE DEF stop
<1>7. ASSUME Linear(c) PROVE stop = v
  <2> DEFINE S == {d \in H : commits[d].tree[f] = v \/ d < stop}
  <2>1. \A d \in H : Parents(d) \subseteq {commits[d].parents[1]}
    BY <1>3, <1>4, <1>7 DEF Linear, Parents, OlderThan
  <2>2. ASSUME NEW d \in S, NEW p \in Parents(d) PROVE p \in S
    <3>1. p \in H /\ p \in Nat /\ d \in Nat /\ p < d /\ p = commits[d].parents[1]
      BY <1>2, <1>3, <2>1
    <3>2. stop \in Nat
      BY <1>2, <1>6
    <3>3. CASE d <= stop
      BY <3>1, <3>2, <3>3
    <3>4. CASE d > stop
      <4>1. ~StopsAt(d, f) /\ commits[d].tree[f] = v
        BY <1>6, <3>1, <3>2, <3>4
      <4> QED BY <3>1, <4>1 DEF StopsAt
    <3> QED BY <3>1, <3>2, <3>3, <3>4
  <2>3. H \subseteq S
    <3>1. S \in SUBSET (1..c) /\ c \in S
      BY <1>2
    <3> HIDE DEF S
    <3> QED BY <1>1, <2>2, <3>1, HistoryInduction
  <2>4. commits[stop].tree[f] = v /\ stop \in Nat
    BY <1>2, <1>6, <2>3
  <2>5. StopsAt(stop, f) /\ stop \in H
    BY <1>6
  <2>6. CASE commits[stop].parents = <<>>
    <3>1. Parents(stop) = {}
      BY <2>6 DEF Parents
    <3> QED BY <1>3, <2>4, <2>5, <3>1
  <2>7. CASE commits[stop].tree[f] # commits[commits[stop].parents[1]].tree[f]
    BY <1>3, <2>1, <2>4, <2>5, <2>7
  <2> QED BY <2>5, <2>6, <2>7 DEF StopsAt
<1> QED BY <1>6, <1>7 DEF stop
-----------------------------------------------------------------------------

\* A page that is not touched stays of its commit, while commits stay or one is added.
LEMMA PageKept ==
    ASSUME Ancestry, NEW u \in Reader, PageSoFar(u),
           commits' = commits \/ \E new : commits' = Append(commits, new),
           page'[u] = page[u], pagePc'[u] = pagePc[u]
    PROVE  PageSoFar(u)'
<1> DEFINE tip == page[u].tip
<1>1. commits \in Seq(Commit) /\ Len(commits) \in Nat
  BY DEF Ancestry
<1>2. \A c \in 1..Len(commits) :
         /\ c \in 1..Len(commits') /\ commits'[c] = commits[c]
         /\ History(c)' = History(c) /\ (Linear(c)' <=> Linear(c))
  <2>1. CASE commits' = commits
    BY <2>1 DEF Linear, History, Parents
  <2>2. ASSUME NEW new, commits' = Append(commits, new)
        PROVE  Len(commits') = Len(commits) + 1
    BY <1>1, <2>2
  <2> QED BY <1>1, <2>1, <2>2, HistoryKept
<1>3. CASE pagePc[u] \in Section \cup {"shown"}
  <2>1. tip \in 1..Len(commits)
    BY <1>3 DEF PageSoFar
  <2>2. /\ page'[u].tip = tip /\ tip \in 1..Len(commits') /\ commits'[tip] = commits[tip]
        /\ History(tip)' = History(tip) /\ (Linear(tip)' <=> Linear(tip))
    BY <1>2, <2>1
  <2>3. History(page[u].tip)' = History(page[u].tip) /\ (Linear(page[u].tip)' <=> Linear(page[u].tip))
    BY <2>2 DEF Linear, History, Parents
  <2> HIDE DEF Section
  <2> QED BY <1>3, <2>2, <2>3 DEF PageSoFar
<1>4. CASE pagePc[u] \notin Section \cup {"shown"}
  <2>1. page[u] = EmptyPage /\ page'[u] = EmptyPage
    BY <1>4 DEF PageSoFar
  <2> QED BY <1>4, <2>1 DEF PageSoFar, PageShape, EmptyPage, Section
<1> QED BY <1>3, <1>4

\* At first there is no repository and no reader.
LEMMA PagesInitIInv == PagesInit => PagesIInv
  BY PagesAssumption DEF PagesInit, PagesIInv, Ancestry, OneWalks, PageSoFar, PageShape, EmptyPage,
     Section

\* A step that adds no commit leaves who descends from whom.
LEMMA AncestryKept ==
    ASSUME Ancestry, UNCHANGED commits, tipOf' \in [Branch -> 0..Len(commits)]
    PROVE  Ancestry'
<1>1. \A c : Parents(c)' = Parents(c)
  BY DEF Parents
<1>2. ASSUME NEW c \in 1..Len(commits), NEW f \in File
      PROVE  commits[c].tree[f] \in {0, c} \cup {commits'[p].tree[f] : p \in Parents(c)'}
  BY <1>1 DEF Ancestry
<1> QED BY <1>1, <1>2 DEF Ancestry

\* What belongs to a commit is the same after a step that leaves commits alone.
LEMMA TipKept ==
    ASSUME NEW t \in Reader, UNCHANGED commits, page'[t].tip = page[t].tip
    PROVE  /\ History(page[t].tip)' = History(page[t].tip)
           /\ Linear(page[t].tip)' <=> Linear(page[t].tip)
  BY DEF Linear, History, Parents

\* The walk of a count goes on while others do what takes no lock.
LEMMA WalkKept ==
    ASSUME OneWalks, UNCHANGED <<commits, m_mtx, m_walker>>,
           pagePc' \in [Reader -> {"idle", "tip", "shown", "failed"} \cup Section],
           \A u \in Reader :
              /\ pagePc'[u] \in Section => pagePc[u] \in Section
              /\ pagePc'[u] = "count" <=> pagePc[u] = "count"
              /\ pagePc[u] = "count" => page'[u].tip = page[u].tip
    PROVE  OneWalks'
<1>1. \A u \in Reader : pagePc'[u] = "count" =>
         History(page[u].tip)' = History(page[u].tip)
  BY TipKept
<1> QED BY <1>1 DEF OneWalks

\* A push adds a commit whose parents are there, and changes no page.
LEMMA PushKept ==
    ASSUME PagesIInv, NEW b \in Branch, PushCommit(b) \/ PushDeletion(b)
    PROVE  PagesIInv'
<1>1. commits \in Seq(Commit) /\ Len(commits) \in Nat /\ MaxCommits \in Nat
  BY PagesAssumption DEF PagesIInv, Ancestry
<1>2. UNCHANGED <<m_mtx, m_walker, pagePc, page>>
  BY DEF PushCommit, PushDeletion
<1>3. commits' = commits \/ \E new : commits' = Append(commits, new)
  BY DEF PushCommit, PushDeletion
<1>4. Ancestry'
  <2>1. CASE PushDeletion(b)
    <3>1. commits' = commits /\ tipOf' = [tipOf EXCEPT ![b] = 0]
      BY <2>1 DEF PushDeletion
    <3>2. tipOf' \in [Branch -> 0..Len(commits)]
      BY <1>1, <3>1 DEF PagesIInv, Ancestry
    <3> QED BY <3>1, <3>2, AncestryKept DEF PagesIInv
  <2>2. CASE PushCommit(b)
    <3> DEFINE n == Len(commits) + 1
               merged == {tipOf[o] : o \in Branch \ {b}} \ {0, tipOf[b]}
    <3>1. PICK parents \in (IF tipOf[b] = 0 THEN {<<>>} \cup {<<m>> : m \in merged}
                            ELSE {<<tipOf[b]>>} \cup {<<tipOf[b], m>> : m \in merged}),
               tree \in [File -> 0..n] :
             /\ \A f \in File : tree[f] \in {0, n}
                   \cup {commits[parents[i]].tree[f] : i \in 1..Len(parents)}
             /\ commits' = Append(commits, [parents |-> parents, tree |-> tree])
             /\ tipOf' = [tipOf EXCEPT ![b] = n]
      BY <2>2 DEF PushCommit
    <3>2. Len(commits) < MaxCommits
      BY <2>2 DEF PushCommit
    <3>3. tipOf \in [Branch -> 0..Len(commits)] /\ merged \subseteq 1..Len(commits)
      BY <1>1 DEF PagesIInv, Ancestry
    <3>4. /\ parents \in OlderThan(n)
          /\ parents \in Seq(Nat)
          /\ {parents[i] : i \in 1..Len(parents)} \subseteq 1..(n - 1)
      <4> USE DEF OlderThan
      <4> HIDE DEF merged
      <4>2. ASSUME NEW m \in merged, parents = <<m>>
            PROVE  parents \in [1..1 -> 1..(n - 1)] /\ parents \in Seq(Nat) /\ Len(parents) = 1
        BY <1>1, <3>3, <4>2
      <4>3. CASE tipOf[b] # 0 /\ parents = <<tipOf[b]>>
        <5>1. tipOf[b] \in 1..(n - 1)
          BY <1>1, <3>3, <4>3
        <5>2. parents \in [1..1 -> 1..(n - 1)] /\ parents \in Seq(Nat) /\ Len(parents) = 1
          BY <1>1, <4>3, <5>1
        <5> QED BY <1>1, <4>3, <5>1, <5>2
      <4>4. ASSUME NEW m \in merged, tipOf[b] # 0, parents = <<tipOf[b], m>>
            PROVE  parents \in [1..2 -> 1..(n - 1)] /\ parents \in Seq(Nat) /\ Len(parents) = 2
        BY <1>1, <3>3, <4>4
      <4>5. CASE tipOf[b] = 0 /\ \E m \in merged : parents = <<m>>
        BY <1>1, <3>3, <4>2, <4>5
      <4>6. CASE tipOf[b] # 0 /\ \E m \in merged : parents = <<tipOf[b], m>>
        <5>1. PICK m \in merged : parents = <<tipOf[b], m>>
          BY <4>6
        <5>2. tipOf[b] \in 1..(n - 1) /\ m \in 1..(n - 1)
          BY <1>1, <3>3, <4>6
        <5> QED BY <4>4, <4>6, <5>1, <5>2
      <4>7. CASE parents = <<>>
        <5>1. {parents[i] : i \in 1..Len(parents)} = {}
          BY <4>7
        <5> QED BY <4>7, <5>1
      <4> QED BY <3>1, <4>3, <4>5, <4>6, <4>7
    <3> DEFINE new == [parents |-> parents, tree |-> tree]
    <3>5. new \in Commit
      BY <1>1, <3>4 DEF Commit
    <3> HIDE DEF new, merged
    <3>6. commits' = Append(commits, new)
      BY <3>1 DEF new
    <3>7. /\ commits' \in Seq(Commit) /\ Len(commits') = n /\ n <= MaxCommits
          /\ \A c \in 1..Len(commits) : commits'[c] = commits[c]
          /\ commits'[n] = new
      BY <1>1, <3>2, <3>5, <3>6
    <3>8. tipOf' \in [Branch -> 0..n]
      BY <1>1, <3>1, <3>3
    <3>9. ASSUME NEW c \in 1..n
          PROVE  /\ commits'[c].parents \in OlderThan(c)
                 /\ Parents(c)' \subseteq 1..(c - 1)
                 /\ commits'[c].tree \in [File -> 0..c]
                 /\ \A f \in File : commits'[c].tree[f] \in {0, c}
                       \cup {commits'[p].tree[f] : p \in Parents(c)'}
      <4>1. CASE c = n
        <5>1. Parents(c)' = {parents[i] : i \in 1..Len(parents)}
          BY <3>7, <4>1 DEF Parents, new
        <5>2. \A p \in Parents(c)' : commits'[p] = commits[p]
          <6>1. Parents(c)' \subseteq 1..Len(commits)
            BY <1>1, <3>4, <5>1
          <6> QED BY <3>7, <6>1
        <5>3. \A f \in File : {commits[parents[i]].tree[f] : i \in 1..Len(parents)}
                              = {commits'[p].tree[f] : p \in Parents(c)'}
          BY <5>1, <5>2
        <5>4. commits'[c].parents = parents /\ commits'[c].tree = tree
          BY <3>7, <4>1 DEF new
        <5>5. \A f \in File : commits'[c].tree[f] \in {0, c}
                       \cup {commits'[p].tree[f] : p \in Parents(c)'}
          BY <3>1, <4>1, <5>3, <5>4
        <5> QED BY <3>1, <3>4, <4>1, <5>1, <5>4, <5>5
      <4>2. CASE c \in 1..Len(commits)
        <5>1. Parents(c)' = Parents(c) /\ Parents(c) \subseteq 1..(c - 1)
          BY <3>7, <4>2 DEF Parents, PagesIInv, Ancestry
        <5>2. \A p \in Parents(c) : commits'[p] = commits[p]
          BY <1>1, <3>7, <4>2, <5>1
        <5>3. commits'[c] = commits[c]
          BY <3>7, <4>2
        <5>4. ASSUME NEW f \in File
              PROVE  commits'[c].tree[f] \in {0, c}
                       \cup {commits'[p].tree[f] : p \in Parents(c)'}
          <6>1. commits[c].tree[f] \in {0, c} \cup {commits[p].tree[f] : p \in Parents(c)}
            BY <4>2 DEF PagesIInv, Ancestry
          <6> QED BY <5>1, <5>2, <5>3, <6>1
        <5>5. /\ commits[c].parents \in OlderThan(c)
              /\ commits[c].tree \in [File -> 0..c]
          BY <4>2 DEF PagesIInv, Ancestry
        <5> QED BY <5>1, <5>3, <5>4, <5>5
      <4> QED BY <1>1, <4>1, <4>2
    <3> QED BY <3>7, <3>8, <3>9 DEF Ancestry
  <2> QED BY <2>1, <2>2
<1>5. OneWalks'
  <2>1. ASSUME NEW t \in Reader, pagePc[t] = "count"
        PROVE  History(page[t].tip)' = History(page[t].tip)
    <3>1. page[t].tip \in 1..Len(commits)
      BY <2>1 DEF PagesIInv, PageSoFar, Section
    <3>2. CASE commits' = commits
      BY <1>2, <3>2 DEF History, Parents
    <3>3. CASE \E new : commits' = Append(commits, new)
      <4>1. History(page[t].tip)' = {d \in 1..page[t].tip : \A s \in SUBSET (1..page[t].tip) :
                 page[t].tip \in s /\ (\A e \in s : Parents(e)' \subseteq s) => d \in s}
        BY <1>2 DEF History
      <4> QED BY <3>1, <3>3, <4>1, HistoryKept DEF PagesIInv, History
    <3> QED BY <1>3, <3>2, <3>3
  <2> QED BY <1>2, <2>1 DEF PagesIInv, OneWalks
<1>6. page' = [t \in Reader |-> page'[t]] /\ \A t \in Reader : PageSoFar(t)'
  BY <1>2, <1>3, PageKept DEF PagesIInv
<1> QED BY <1>4, <1>5, <1>6 DEF PagesIInv

\* Steps of a reader that leave the repository and its own page but for these fields
\* alone keep the pages of the others, and one reader in the section.
LEMMA ReaderKept ==
    ASSUME PagesIInv, NEW t \in Reader, UNCHANGED repository,
           \E to : pagePc' = [pagePc EXCEPT ![t] = to],
           page' = page \/ (\E p : page' = [page EXCEPT ![t] = p]),
           PageSoFar(t)', OneWalks'
    PROVE  PagesIInv'
<1>1. UNCHANGED <<commits, tipOf>>
  BY DEF repository
<1>2. Ancestry'
  BY <1>1, AncestryKept DEF PagesIInv, Ancestry
<1>3. \A u \in Reader \ {t} : page'[u] = page[u] /\ pagePc'[u] = pagePc[u]
  BY DEF PagesIInv, OneWalks
<1>4. \A u \in Reader \ {t} : PageSoFar(u)'
  BY <1>1, <1>3, PageKept DEF PagesIInv
<1>5. page' = [u \in Reader |-> page'[u]]
  BY DEF PagesIInv
<1> QED BY <1>2, <1>4, <1>5 DEF PagesIInv

\* A thread that makes no page has an empty one.
LEMMA NoPage ==
    ASSUME NEW t \in Reader, page'[t] = EmptyPage, pagePc'[t] \notin Section \cup {"shown"}
    PROVE  PageSoFar(t)'
  BY DEF PageSoFar, PageShape, EmptyPage, Section

\* A step of a reader, at each place of the page it fills.
LEMMA ReaderStep ==
    ASSUME PagesIInv, NEW t \in Reader,
           \/ DefaultBranch(t) \/ BranchTip(t) \/ PushWalk(t) \/ CountWalk(t)
           \/ LastCommit(t) \/ EntriesDone(t) \/ PageAgain(t)
           \/ \E f \in File : Entry(t, f)
    PROVE  PagesIInv'
<1> DEFINE tip == page[t].tip
<1> USE DEF PageGo, PagesIInv
<1>0. /\ Ancestry /\ OneWalks /\ page = [u \in Reader |-> page[u]] /\ PageSoFar(t)
      /\ pagePc \in [Reader -> {"idle", "tip", "shown", "failed"} \cup Section]
  BY DEF OneWalks
<1>1. CASE DefaultBranch(t)
  <2>1. page[t] = EmptyPage
    BY <1>0, <1>1 DEF DefaultBranch, PageSoFar, Section
  <2>2. PageSoFar(t)'
    BY <1>0, <1>1, <2>1, NoPage DEF DefaultBranch, Section
  <2>3. OneWalks'
    BY <1>0, <1>1, WalkKept DEF DefaultBranch, Section, repository
  <2> QED BY <1>1, <2>2, <2>3, ReaderKept DEF DefaultBranch
<1>2. CASE BranchTip(t)
  <2>1. page[t] = EmptyPage
    BY <1>0, <1>2 DEF BranchTip, PageSoFar, Section
  <2>2. CASE tipOf[Main] = 0
    <3>1. PageSoFar(t)'
      BY <1>0, <1>2, <2>1, <2>2, NoPage DEF BranchTip, Section
    <3>2. OneWalks'
      BY <1>0, <1>2, <2>2, WalkKept DEF BranchTip, Section, repository
    <3> QED BY <1>2, <2>2, <3>1, <3>2, ReaderKept DEF BranchTip
  <2>3. CASE tipOf[Main] # 0
    <3>1. /\ m_mtx = Unlocked /\ m_mtx' = t /\ pagePc[t] = "tip"
          /\ pagePc' = [pagePc EXCEPT ![t] = "push"]
          /\ page' = [page EXCEPT ![t].tip = tipOf[Main]]
          /\ UNCHANGED <<commits, tipOf, m_walker>>
      BY <1>2, <2>3 DEF BranchTip, EnterSection, repository
    <3>2. \A u \in Reader : pagePc[u] \notin Section
      BY <1>0, <3>1, PagesAssumption DEF OneWalks
    <3>3. tipOf[Main] \in 1..Len(commits)
      BY <2>3, PagesAssumption DEF Ancestry
    <3>4. PageSoFar(t)'
      <4>1. page'[t] = [EmptyPage EXCEPT !.tip = tipOf[Main]] /\ pagePc'[t] = "push"
        BY <1>0, <2>1, <3>1
      <4>2. /\ page'[t].tip = tipOf[Main] /\ page'[t].count = 0 /\ page'[t].last = 0
            /\ DOMAIN page'[t].files = {} /\ page'[t].files = [f \in {} |-> 0]
            /\ page'[t] = [tip |-> tipOf[Main], count |-> 0, last |-> 0, files |-> [f \in {} |-> 0]]
        BY <4>1 DEF EmptyPage
      <4>3. PageShape(page'[t])
        BY <4>2 DEF PageShape
      <4> QED BY <3>1, <3>3, <4>1, <4>2, <4>3 DEF PageSoFar, Section
    <3>5. OneWalks'
      BY <1>0, <3>1, <3>2 DEF OneWalks, Section
    <3> QED BY <3>1, <3>4, <3>5, ReaderKept DEF repository
  <2> QED BY <2>2, <2>3
<1>3. CASE PushWalk(t)
  <2>1. /\ pagePc[t] = "push" /\ pagePc' = [pagePc EXCEPT ![t] = "count"]
        /\ m_walker' = m_walker \cup History(tip) /\ UNCHANGED <<commits, tipOf, m_mtx, page>>
    BY <1>3 DEF PushWalk, repository
  <2>2. \A u \in Reader : pagePc[u] \in Section => u = t
    BY <1>0, <2>1 DEF OneWalks, Section
  <2>3. m_walker = {}
    BY <1>0, <2>1, <2>2 DEF OneWalks, Section
  <2>4. /\ History(page[t].tip)' = History(page[t].tip)
        /\ Linear(page[t].tip)' <=> Linear(page[t].tip)
    BY <2>1, TipKept
  <2>5. PageSoFar(t)'
    BY <1>0, <2>1, <2>4 DEF PageSoFar, Section
  <2>6. OneWalks'
    BY <1>0, <2>1, <2>2, <2>3, <2>4 DEF OneWalks, Section
  <2> QED BY <2>1, <2>5, <2>6, ReaderKept DEF repository
<1>4. CASE CountWalk(t)
  <2>1. /\ pagePc[t] = "count" /\ pagePc' = [pagePc EXCEPT ![t] = "last"]
        /\ page' = [page EXCEPT ![t].count = Cardinality(m_walker)]
        /\ m_walker' = {} /\ UNCHANGED <<commits, tipOf, m_mtx>>
    BY <1>4 DEF CountWalk, repository
  <2>2. \A u \in Reader : pagePc[u] \in Section => u = t
    BY <1>0, <2>1 DEF OneWalks, Section
  <2>3. m_walker = History(tip)
    BY <1>0, <2>1 DEF OneWalks
  <2>4. /\ page'[t].tip = tip /\ page'[t].count = Cardinality(History(tip))
        /\ page'[t].last = page[t].last /\ page'[t].files = page[t].files
        /\ page'[t] = [page[t] EXCEPT !.count = Cardinality(History(tip))]
        /\ PageShape(page'[t])
    <3>1. PageShape(page[t])
      BY <1>0 DEF PageSoFar
    <3> QED BY <1>0, <2>1, <2>3, <3>1 DEF PageShape
  <2>5. /\ History(page[t].tip)' = History(page[t].tip)
        /\ Linear(page[t].tip)' <=> Linear(page[t].tip)
    BY <2>1, <2>4, TipKept
  <2>6. PageSoFar(t)'
    BY <1>0, <2>1, <2>4, <2>5 DEF PageSoFar, Section
  <2>7. OneWalks'
    BY <1>0, <2>1, <2>2 DEF OneWalks, Section
  <2> QED BY <2>1, <2>6, <2>7, ReaderKept DEF repository
<1>5. CASE LastCommit(t)
  <2>1. /\ pagePc[t] = "last" /\ pagePc' = [pagePc EXCEPT ![t] = "entries"]
        /\ page' = [page EXCEPT ![t].last = tip]
        /\ UNCHANGED <<commits, tipOf, m_mtx, m_walker>>
    BY <1>5 DEF LastCommit, repository
  <2>2. \A u \in Reader : pagePc[u] \in Section => u = t
    BY <1>0, <2>1 DEF OneWalks, Section
  <2>4. /\ page'[t].tip = tip /\ page'[t].count = page[t].count
        /\ page'[t].last = tip /\ page'[t].files = page[t].files
        /\ page'[t] = [page[t] EXCEPT !.last = tip]
        /\ PageShape(page'[t])
    <3>1. PageShape(page[t])
      BY <1>0 DEF PageSoFar
    <3> QED BY <1>0, <2>1, <3>1 DEF PageShape
  <2>5. /\ History(page[t].tip)' = History(page[t].tip)
        /\ Linear(page[t].tip)' <=> Linear(page[t].tip)
    BY <2>1, <2>4, TipKept
  <2>6. PageSoFar(t)'
    BY <1>0, <2>1, <2>4, <2>5 DEF PageSoFar, Section
  <2>7. OneWalks'
    BY <1>0, <2>1, <2>2 DEF OneWalks, Section
  <2> QED BY <2>1, <2>6, <2>7, ReaderKept DEF repository
<1>6. ASSUME NEW f \in File, Entry(t, f) PROVE PagesIInv'
  <2> DEFINE stop == Max({c \in Walk(t) : StopsAt(c, f)})
             files == page[t].files
  <2>1. /\ pagePc[t] = "entries" /\ f \notin DOMAIN files /\ commits[tip].tree[f] # 0
        /\ page' = [page EXCEPT ![t].files =
                      [g \in DOMAIN @ \cup {f} |-> IF g = f THEN stop ELSE @[g]]]
        /\ m_walker' = {} /\ UNCHANGED <<commits, tipOf, m_mtx, pagePc>>
    BY <1>6 DEF Entry, AfterWalk, repository
  <2>2. \A u \in Reader : pagePc[u] \in Section => u = t
    BY <1>0, <2>1 DEF OneWalks, Section
  <2>3. m_walker = {} /\ Walk(t) = History(tip)
    BY <1>0, <2>1, <2>2 DEF OneWalks, Section, Walk
  <2>4. tip \in 1..Len(commits)
    BY <1>0, <2>1 DEF PageSoFar, Section
  <2>5. stop \in History(tip) /\ (Linear(tip) => stop = commits[tip].tree[f])
    BY <1>0, <2>1, <2>3, <2>4, WalkStops
  <2> HIDE DEF stop
  <2>6. /\ page'[t].tip = tip /\ page'[t].count = page[t].count
        /\ page'[t].last = page[t].last
        /\ page'[t].files = [g \in DOMAIN files \cup {f} |-> IF g = f THEN stop ELSE files[g]]
        /\ page'[t] = [page[t] EXCEPT !.files =
                          [g \in DOMAIN files \cup {f} |-> IF g = f THEN stop ELSE files[g]]]
    BY <1>0, <2>1 DEF PageSoFar, PageShape
  <2>7. /\ History(page[t].tip)' = History(page[t].tip)
        /\ Linear(page[t].tip)' <=> Linear(page[t].tip)
    BY <2>1, <2>6, TipKept
  <2>8. PageSoFar(t)'
    <3>1. \A g \in DOMAIN page'[t].files :
            /\ commits[tip].tree[g] # 0 /\ page'[t].files[g] \in History(tip)
            /\ Linear(tip) => page'[t].files[g] = commits[tip].tree[g]
      <4>1. \A g \in DOMAIN files :
            /\ commits[tip].tree[g] # 0 /\ files[g] \in History(tip)
            /\ Linear(tip) => files[g] = commits[tip].tree[g]
        BY <1>0 DEF PageSoFar
      <4>2. /\ page'[t].files[f] = stop
            /\ \A g \in DOMAIN files : page'[t].files[g] = files[g]
            /\ DOMAIN page'[t].files = DOMAIN files \cup {f}
        BY <2>1, <2>6
      <4> HIDE DEF files
      <4> QED BY <2>1, <2>5, <4>1, <4>2
    <3>2. PageShape(page'[t])
      BY <1>0, <2>6 DEF PageSoFar, PageShape
    <3>3. /\ page[t].count = Cardinality(History(tip)) /\ page[t].last = tip
      BY <1>0, <2>1 DEF PageSoFar
    <3>4. (\A g \in DOMAIN page[t].files :
             /\ commits[page[t].tip].tree[g] # 0 /\ page[t].files[g] \in History(page[t].tip)
             /\ Linear(page[t].tip) => page[t].files[g] = commits[page[t].tip].tree[g])'
      <4>1. commits'[page'[t].tip] = commits[tip]
        BY <2>1, <2>6
      <4> HIDE DEF files
      <4> QED BY <2>7, <3>1, <4>1
    <3>5. pagePc'[t] = "entries" /\ commits' = commits
      BY <2>1
    <3> HIDE DEF files
    <3> QED BY <2>4, <2>6, <2>7, <3>2, <3>3, <3>4, <3>5 DEF PageSoFar, Section
  <2>9. OneWalks'
    BY <1>0, <2>1, <2>2 DEF OneWalks, Section
  <2>10. pagePc' = [pagePc EXCEPT ![t] = "entries"]
    BY <1>0, <2>1
  <2> QED BY <2>1, <2>8, <2>9, <2>10, ReaderKept DEF repository
<1>7. CASE EntriesDone(t)
  <2>1. /\ pagePc[t] = "entries" /\ pagePc' = [pagePc EXCEPT ![t] = "shown"]
        /\ \A f \in File : commits[tip].tree[f] # 0 => f \in DOMAIN page[t].files
        /\ m_mtx' = Unlocked /\ UNCHANGED <<commits, tipOf, m_walker, page>>
    BY <1>7 DEF EntriesDone, repository
  <2>2. \A u \in Reader : pagePc[u] \in Section => u = t
    BY <1>0, <2>1 DEF OneWalks, Section
  <2>3. m_walker = {}
    BY <1>0, <2>1, <2>2 DEF OneWalks, Section
  <2>4. /\ History(page[t].tip)' = History(page[t].tip)
        /\ Linear(page[t].tip)' <=> Linear(page[t].tip)
    BY <2>1, TipKept
  <2>5. PageSoFar(t)'
    BY <1>0, <2>1, <2>4 DEF PageSoFar, Section
  <2>6. OneWalks'
    BY <1>0, <2>1, <2>2, <2>3 DEF OneWalks, Section
  <2> QED BY <2>1, <2>5, <2>6, ReaderKept DEF repository
<1>8. CASE PageAgain(t)
  <2>1. PageSoFar(t)'
    BY <1>0, <1>8, NoPage DEF PageAgain, Section
  <2>2. OneWalks'
    BY <1>0, <1>8, WalkKept DEF PageAgain, Section, repository
  <2> QED BY <1>8, <2>1, <2>2, ReaderKept DEF PageAgain
<1> QED BY <1>1, <1>2, <1>3, <1>4, <1>5, <1>6, <1>7, <1>8

\* So it holds of every state of the pages.
LEMMA PagesInvariant == PagesSpec => []PagesIInv
<1>1. PagesIInv /\ UNCHANGED pageVars => PagesIInv'
  <2> SUFFICES ASSUME PagesIInv, UNCHANGED pageVars PROVE PagesIInv'
    OBVIOUS
  <2>1. Ancestry'
    BY AncestryKept DEF pageVars, PagesIInv, Ancestry
  <2>2. OneWalks'
    BY WalkKept DEF pageVars, PagesIInv, OneWalks
  <2> QED BY <2>1, <2>2, PageKept DEF pageVars, PagesIInv
<1>2. PagesIInv /\ [PagesNext]_pageVars => PagesIInv'
  BY <1>1, PushKept, ReaderStep DEF PagesNext
<1> QED BY <1>2, PagesInitIInv, PTL DEF PagesSpec

\* Every page that is shown is of one commit.
THEOREM PagesOfOneCommit == PagesSpec => []PageOfOneCommit
<1>1. PagesIInv => PageOfOneCommit
  <2> SUFFICES ASSUME PagesIInv PROVE PageOfOneCommit
    OBVIOUS
  <2>1. Len(commits) \in Nat /\ Len(commits) <= MaxCommits /\ MaxCommits \in Nat
    BY PagesAssumption DEF PagesIInv, Ancestry
  <2>2. ASSUME NEW t \in Reader
        PROVE  /\ page[t].tip \in 0..MaxCommits /\ page[t].last \in 0..MaxCommits
               /\ page[t].count \in 0..MaxCommits
               /\ DOMAIN page[t].files \subseteq File
               /\ \A f \in DOMAIN page[t].files : page[t].files[f] \in CommitNo
    <3>1. CASE page[t] = EmptyPage
      BY <2>1, <3>1 DEF EmptyPage
    <3>2. CASE page[t].tip \in 1..Len(commits)
      <4>1. Cardinality(History(page[t].tip)) \in 0..MaxCommits
        BY <3>2, HistoryCounted DEF PagesIInv
      <4>2. History(page[t].tip) \subseteq CommitNo
        BY <2>1, <3>2, HistoryClosed DEF PagesIInv, CommitNo
      <4>3. page[t].count \in {0, Cardinality(History(page[t].tip))}
        BY DEF PagesIInv, PageSoFar
      <4>4. page[t].last \in {0, page[t].tip}
        BY DEF PagesIInv, PageSoFar
      <4>5. \A f \in DOMAIN page[t].files : page[t].files[f] \in History(page[t].tip)
        BY DEF PagesIInv, PageSoFar
      <4>6. DOMAIN page[t].files \subseteq File
        BY DEF PagesIInv, PageSoFar, PageShape
      <4> QED BY <2>1, <3>2, <4>1, <4>2, <4>3, <4>4, <4>5, <4>6
    <3> QED BY <3>1, <3>2 DEF PagesIInv, PageSoFar
  <2>3. m_walker \subseteq CommitNo
    <3>1. ASSUME NEW t \in Reader, pagePc[t] = "count" PROVE m_walker \subseteq CommitNo
      <4>1. page[t].tip \in 1..Len(commits) /\ m_walker = History(page[t].tip)
        BY <3>1 DEF PagesIInv, PageSoFar, OneWalks, Section
      <4> QED BY <2>1, <4>1, HistoryClosed DEF PagesIInv, CommitNo
    <3> QED BY <3>1 DEF PagesIInv, OneWalks
  <2>4. PagesTypeOK
    BY <2>2, <2>3 DEF PagesTypeOK, PagesIInv, Ancestry, OneWalks, OlderThan, Section
  <2>5. ASSUME NEW t \in Reader, pagePc[t] = "shown"
        PROVE  LET tip == page[t].tip IN
           /\ page[t].count = Cardinality(History(tip))
           /\ page[t].last = tip
           /\ DOMAIN page[t].files = {f \in File : commits[tip].tree[f] # 0}
           /\ Linear(tip) => \A f \in DOMAIN page[t].files :
                                page[t].files[f] = commits[tip].tree[f]
    BY <2>5 DEF PagesIInv, PageSoFar, PageShape
  <2> QED BY <2>4, <2>5 DEF PageOfOneCommit
<1> QED BY <1>1, PagesInvariant, PTL

(***************************************************************************)
(* The cache of repositories (RepoCache).                                  *)
(***************************************************************************)

\* What a thread has in each place: a call that begins has nothing, one that
\* pushes or purges has the object it pushes, and only destructors have dying ones.
Places ==
    \A t \in Thread :
        /\ pc[t] = "idle" => held[t] = {}
        /\ pc[t] \in {"reading", "create"} => want[t] \in RepoPath
        /\ pc[t] \in {"push", "purge"} => held[t] # {}
        /\ pc[t] = "purge" => lruOwner = t
        /\ lruOwner = t => pc[t] \in {"purge", "destroy"} /\ held[t] # {}
        /\ pc[t] = "destroy" <=> dying[t] # Null

\* An object has a path from its construction on.
Named == \A o \in Object : life[o] # "unborn" => repoOf[o] \in RepoPath

RepoIInv == MemorySafety /\ Places /\ Named

-----------------------------------------------------------------------------

\* An element of a sequence longer by one is one of before or the last.
LEMMA InAppended ==
    ASSUME NEW q \in Seq(Object), NEW o \in Object, NEW p \in Object
    PROVE  (\E i \in 1..Len(Append(q, o)) : Append(q, o)[i] = p)
               <=> (p = o \/ \E i \in 1..Len(q) : q[i] = p)
<1>1. /\ Len(Append(q, o)) = Len(q) + 1 /\ Append(q, o)[Len(q) + 1] = o
      /\ \A i \in 1..Len(q) : Append(q, o)[i] = q[i]
  OBVIOUS
<1>. QED
  BY <1>1

\* An element of a sequence is its head or in its tail.
LEMMA InTail ==
    ASSUME NEW q \in Seq(Object), q # <<>>, NEW p \in Object
    PROVE  /\ Head(q) \in Object /\ Tail(q) \in Seq(Object) /\ Len(Tail(q)) = Len(q) - 1
           /\ (\E i \in 1..Len(q) : q[i] = p)
                  <=> (p = Head(q) \/ \E i \in 1..Len(Tail(q)) : Tail(q)[i] = p)
<1>1. /\ Head(q) \in Object /\ Tail(q) \in Seq(Object) /\ Len(Tail(q)) = Len(q) - 1
      /\ Head(q) = q[1] /\ Len(q) \in Nat \ {0}
      /\ \A i \in 1..Len(Tail(q)) : Tail(q)[i] = q[i + 1]
  OBVIOUS
<1>2. ASSUME NEW i \in 1..Len(q), q[i] = p, p # Head(q)
      PROVE  \E j \in 1..Len(Tail(q)) : Tail(q)[j] = p
  <2>1. i - 1 \in 1..Len(Tail(q)) /\ Tail(q)[i - 1] = p
    BY <1>1, <1>2
  <2>. QED
    BY <2>1
<1>3. ASSUME NEW j \in 1..Len(Tail(q)), Tail(q)[j] = p
      PROVE  \E i \in 1..Len(q) : q[i] = p
  <2>1. j + 1 \in 1..Len(q) /\ q[j + 1] = p
    BY <1>1, <1>3
  <2>. QED
    BY <2>1
<1>. QED
  BY <1>1, <1>2, <1>3

\* The empty cache satisfies the invariant.
LEMMA RepoInitial == CacheInit => RepoIInv
  BY CacheAssumption
  DEF CacheInit, RepoIInv, MemorySafety, CacheTypeOK, FreedNotCached, Ownership, InLru,
      Places, Named

\* A strong pointer of t to o goes, from its call or from the list: either it was
\* the last and o is dying, or all stay as alive as they were.
LEMMA Released ==
    ASSUME RepoIInv, NEW t \in Thread, NEW o \in Object, NEW next, Release(t, o, next),
           pc[t] # "destroy", o \in held[t] \/ InLru(o),
           held' \in [Thread -> SUBSET Object],
           \A p \in Object, u \in Thread : <<p, u>> # <<o, t>> => (p \in held'[u] <=> p \in held[u]),
           \A p \in Object : InLru(p)' => InLru(p),
           \A p \in Object : p # o => (InLru(p)' <=> InLru(p))
    PROVE  /\ life' \in [Object -> {"unborn", "alive", "dying", "erased", "gone"}]
           /\ dying' \in [Thread -> Object \cup {Null}]
           /\ Ownership'
           /\ \A p \in Object : life'[p] = life[p] \/ (life[p] = "alive" /\ life'[p] = "dying")
           /\ pc' = [pc EXCEPT ![t] = pc'[t]] /\ pc'[t] \in {"destroy", next}
           /\ pc'[t] = "destroy" \/ next = "destroy" \/ UNCHANGED dying
           /\ \A u \in Thread \ {t} : dying'[u] = dying[u]
           /\ next # "destroy" => (pc'[t] = "destroy" <=> dying'[t] # Null)
<1> USE CacheAssumption DEF RepoIInv, MemorySafety, CacheTypeOK
<1>1. life[o] = "alive" /\ dying[t] = Null
  BY DEF Ownership, Places
<1>2. CASE LastReference(t, o)
  <2>1. /\ life' = [life EXCEPT ![o] = "dying"] /\ dying' = [dying EXCEPT ![t] = o]
        /\ pc' = [pc EXCEPT ![t] = "destroy"]
    BY <1>2 DEF Release, Go
  <2>2. ~InLru(o)' /\ \A u \in Thread : o \notin held'[u]
    BY <1>2 DEF LastReference, InLru
  <2>3. Ownership'
    BY <1>1, <2>1, <2>2 DEF Ownership
  <2>. QED
    BY <1>1, <2>1, <2>3
<1>3. CASE ~LastReference(t, o)
  <2>1. UNCHANGED <<life, dying>> /\ pc' = [pc EXCEPT ![t] = next]
    BY <1>3 DEF Release, Go
  <2>2. InLru(o)' \/ \E u \in Thread : o \in held'[u]
    BY <1>3 DEF LastReference, InLru
  <2>3. Ownership'
    BY <1>1, <2>1, <2>2 DEF Ownership
  <2>. QED
    BY <1>1, <2>1, <2>3
<1>. QED
  BY <1>2, <1>3

-----------------------------------------------------------------------------

\* Steps that give an object to a thread, or nothing at all: what is alive and who
\* destroys it stay as they are.
LEMMA Shared ==
    ASSUME RepoIInv, NEW t \in Thread,
           UNCHANGED <<m_cache, m_cache_lru, life, repoOf, dying>>,
           held' \in [Thread -> SUBSET Object],
           \A u \in Thread \ {t} : held'[u] = held[u],
           held[t] \subseteq held'[t], \A o \in held'[t] \ held[t] : life[o] = "alive"
    PROVE  FreedNotCached' /\ Ownership' /\ Named'
<1> USE DEF RepoIInv, MemorySafety, CacheTypeOK
<1>1. FreedNotCached' /\ Named'
  BY DEF FreedNotCached, Named
<1>2. \A o \in Object : InLru(o)' <=> InLru(o)
  BY DEF InLru
<1>3. \A o \in Object : (\E u \in Thread : o \in held'[u])
                           <=> (\E u \in Thread : o \in held[u]) \/ o \in held'[t] \ held[t]
  OBVIOUS
<1>4. \A o \in Object : life'[o] = "alive" <=> InLru(o)' \/ \E u \in Thread : o \in held'[u]
  BY <1>2, <1>3 DEF Ownership
<1>5. Ownership'
  BY <1>4 DEF Ownership
<1>. QED
  BY <1>1, <1>5

\* get_repo: look-ups and construction.
LEMMA GetRepoKept ==
    ASSUME RepoIInv, NEW t \in Thread,
           (\E r \in RepoPath : GetRepo(t, r)) \/ FindShared(t) \/ FindExclusive(t) \/ Construct(t)
    PROVE  RepoIInv'
<1> USE CacheAssumption DEF RepoIInv, MemorySafety, CacheTypeOK
<1>1. ASSUME NEW r \in RepoPath, GetRepo(t, r)
      PROVE  RepoIInv'
  <2>1. CacheTypeOK' /\ Places'
    BY <1>1 DEF GetRepo, Begin, Stands, Go, Places, objs
  <2>2. FreedNotCached' /\ Ownership' /\ Named'
    BY <1>1, Shared DEF GetRepo, objs
  <2>. QED
    BY <2>1, <2>2
<1>2. CASE FindShared(t)
  <2>1. want[t] \in RepoPath
    BY <1>2 DEF FindShared, Stands, Places
  <2>2. CASE /\ Cached(want[t]) /\ Hold(t, m_cache[want[t]]) /\ Go(t, "push")
             /\ UNCHANGED readers
    <3>1. m_cache[want[t]] \in Object /\ life[m_cache[want[t]]] = "alive"
      BY <2>1, <2>2 DEF Cached
    <3>2. CacheTypeOK' /\ Places'
      BY <1>2, <2>2, <3>1 DEF FindShared, Stands, Go, Hold, Places, objs
    <3>3. /\ held' = [held EXCEPT ![t] = held[t] \cup {m_cache[want[t]]}]
          /\ UNCHANGED <<m_cache, m_cache_lru, life, repoOf, dying>>
      BY <1>2, <2>2 DEF FindShared, Hold, objs
    <3>4. /\ held' \in [Thread -> SUBSET Object] /\ \A u \in Thread \ {t} : held'[u] = held[u]
          /\ held'[t] = held[t] \cup {m_cache[want[t]]}
      BY <3>1, <3>3
    <3>5. FreedNotCached' /\ Ownership' /\ Named'
      BY <3>1, <3>3, <3>4, Shared
    <3>. QED
      BY <3>2, <3>5
  <2>3. CASE readers' = readers \ {t} /\ Go(t, "create") /\ UNCHANGED held
    <3>1. CacheTypeOK' /\ Places'
      BY <1>2, <2>1, <2>3 DEF FindShared, Stands, Go, Places, objs
    <3>2. FreedNotCached' /\ Ownership' /\ Named'
      BY <1>2, <2>3, Shared DEF FindShared, objs
    <3>. QED
      BY <3>1, <3>2
  <2>. QED
    BY <1>2, <2>2, <2>3 DEF FindShared
<1>3. CASE FindExclusive(t)
  <2>1. m_cache[want[t]] \in Object /\ life[m_cache[want[t]]] = "alive"
    BY <1>3 DEF FindExclusive, Stands, Places, Cached
  <2>2. CacheTypeOK' /\ Places'
    BY <1>3, <2>1 DEF FindExclusive, Stands, Go, Hold, Places, objs
  <2>3. /\ held' = [held EXCEPT ![t] = held[t] \cup {m_cache[want[t]]}]
        /\ UNCHANGED <<m_cache, m_cache_lru, life, repoOf, dying>>
    BY <1>3 DEF FindExclusive, Hold, objs
  <2>4. /\ held' \in [Thread -> SUBSET Object] /\ \A u \in Thread \ {t} : held'[u] = held[u]
        /\ held'[t] = held[t] \cup {m_cache[want[t]]}
    BY <2>1, <2>3
  <2>5. FreedNotCached' /\ Ownership' /\ Named'
    BY <2>1, <2>3, <2>4, Shared
  <2>. QED
    BY <2>2, <2>5
<1>4. CASE Construct(t)
  <2>1. PICK o \in Object :
           /\ life[o] = "unborn" /\ life' = [life EXCEPT ![o] = "alive"]
           /\ repoOf' = [repoOf EXCEPT ![o] = want[t]]
           /\ m_cache' = [m_cache EXCEPT ![want[t]] = o]
           /\ Hold(t, o)
    BY <1>4 DEF Construct
  <2>2. /\ want[t] \in RepoPath /\ pc[t] = "create" /\ pc' = [pc EXCEPT ![t] = "using"]
        /\ held' = [held EXCEPT ![t] = held[t] \cup {o}]
        /\ UNCHANGED <<m_cache_lru, listed, readers, writer, lruOwner, want, dying, calls>>
    BY <1>4, <2>1 DEF Construct, Stands, Go, Hold, Places, locks
  <2>3. CacheTypeOK' /\ Places'
    BY <2>1, <2>2 DEF Places
  <2>4. FreedNotCached' /\ Named'
    BY <2>1, <2>2 DEF FreedNotCached, Named
  <2>5. \A p \in Object : InLru(p)' <=> InLru(p)
    BY <2>2 DEF InLru
  <2>6. Ownership'
    BY <2>1, <2>2, <2>5 DEF Ownership
  <2>. QED
    BY <2>3, <2>4, <2>6
<1>. QED
  BY <1>1, <1>2, <1>3, <1>4

\* The object a thread has pushed is in the list, and its call goes on.
LEMMA PushedKept ==
    ASSUME RepoIInv, NEW t \in Thread, PushHeld(t), Len(m_cache_lru) < LruMax,
           pc[t] \in {"push", "purge"},
           lruOwner' = IF lruOwner = t THEN Null ELSE lruOwner,
           UNCHANGED <<m_cache, objs, life, held, want, dying, calls>>
    PROVE  RepoIInv'
<1> USE CacheAssumption DEF RepoIInv, MemorySafety, CacheTypeOK
<1>1. PICK o \in held[t] : m_cache_lru' = Append(m_cache_lru, o)
  BY DEF PushHeld
<1>2. o \in Object /\ life[o] = "alive"
  BY <1>1 DEF Ownership
<1>3. m_cache_lru' \in Seq(Object) /\ Len(m_cache_lru') <= LruMax
  BY <1>1, <1>2
<1>4. CacheTypeOK'
  BY <1>3 DEF PushHeld, Unlock, Go, objs
<1>5. Places'
  BY DEF PushHeld, Go, Places
<1>6. \A p \in Object : InLru(p)' <=> p = o \/ InLru(p)
  BY <1>1, <1>2, InAppended DEF InLru
<1>7. FreedNotCached' /\ Ownership' /\ Named'
  BY <1>1, <1>2, <1>6 DEF FreedNotCached, Ownership, Named, objs
<1>. QED
  BY <1>4, <1>5, <1>7

\* cache_lru_push and its purge.
LEMMA PushStepKept ==
    ASSUME RepoIInv, NEW t \in Thread, Push(t) \/ PurgeOne(t) \/ PurgeDone(t)
    PROVE  RepoIInv'
<1> USE CacheAssumption DEF RepoIInv, MemorySafety, CacheTypeOK
<1>1. CASE Push(t)
  <2>1. pc[t] = "push" /\ lruOwner = Null /\ UNCHANGED <<m_cache, objs, life, held, want, dying, calls>>
    BY <1>1 DEF Push, Stands
  <2>2. CASE ~LruFull /\ PushHeld(t) /\ UNCHANGED lruOwner
    <3>1. Len(m_cache_lru) < LruMax /\ lruOwner' = IF lruOwner = t THEN Null ELSE lruOwner
      BY <2>1, <2>2 DEF LruFull
    <3>. QED
      BY <2>1, <2>2, <3>1, PushedKept
  <2>3. CASE lruOwner' = t /\ Go(t, "purge") /\ UNCHANGED <<m_cache_lru, readers, writer>>
    <3>1. CacheTypeOK' /\ Places'
      BY <2>1, <2>3 DEF Go, Places, objs
    <3>2. FreedNotCached' /\ Ownership' /\ Named'
      BY <2>1, <2>3, Shared DEF objs
    <3>. QED
      BY <3>1, <3>2
  <2>. QED
    BY <1>1, <2>2, <2>3 DEF Push
<1>2. CASE PurgeOne(t)
  <2> DEFINE o == Head(m_cache_lru)
  <2>1. /\ pc[t] = "purge" /\ m_cache_lru # <<>> /\ m_cache_lru' = Tail(m_cache_lru)
        /\ UNCHANGED <<held, m_cache, objs, readers, writer, lruOwner, want, calls>>
        /\ Release(t, o, "purge")
    BY <1>2 DEF PurgeOne, Stands, locks
  <2>2. /\ o \in Object /\ m_cache_lru' \in Seq(Object) /\ Len(m_cache_lru') = Len(m_cache_lru) - 1
        /\ \A p \in Object : InLru(p) <=> p = o \/ InLru(p)'
    <3>1. \A p \in Object :
             (\E i \in 1..Len(m_cache_lru) : m_cache_lru[i] = p)
                <=> (p = o \/ \E i \in 1..Len(Tail(m_cache_lru)) : Tail(m_cache_lru)[i] = p)
      <4>1. m_cache_lru \in Seq(Object) /\ m_cache_lru # <<>>
        BY <2>1
      <4>. QED
        BY <4>1, InTail, Zenon
    <3>2. /\ o \in Object /\ m_cache_lru' \in Seq(Object)
          /\ Len(m_cache_lru') = Len(m_cache_lru) - 1
      BY <2>1, InTail
    <3>3. \A p \in Object : InLru(p)' <=> \E i \in 1..Len(Tail(m_cache_lru)) : Tail(m_cache_lru)[i] = p
      BY <2>1 DEF InLru
    <3>. QED
      BY <3>1, <3>2, <3>3 DEF InLru
  <2> HIDE DEF o
  <2>9. /\ InLru(o) /\ pc[t] # "destroy" /\ held' \in [Thread -> SUBSET Object]
        /\ \A p \in Object, u \in Thread : <<p, u>> # <<o, t>> => (p \in held'[u] <=> p \in held[u])
        /\ \A p \in Object : InLru(p)' => InLru(p)
        /\ \A p \in Object : p # o => (InLru(p)' <=> InLru(p))
    BY <2>1, <2>2
  <2>3. /\ life' \in [Object -> {"unborn", "alive", "dying", "erased", "gone"}]
        /\ dying' \in [Thread -> Object \cup {Null}]
        /\ Ownership'
        /\ \A p \in Object : life'[p] = life[p] \/ (life[p] = "alive" /\ life'[p] = "dying")
        /\ pc' = [pc EXCEPT ![t] = pc'[t]] /\ pc'[t] \in {"destroy", "purge"}
        /\ \A u \in Thread \ {t} : dying'[u] = dying[u]
        /\ pc'[t] = "destroy" <=> dying'[t] # Null
    <3>1. "purge" # "destroy" /\ RepoIInv /\ Release(t, o, "purge") /\ o \in Object
      BY <2>1, <2>2
    <3> HIDE DEF RepoIInv
    <3>. QED
      BY <2>9, <3>1, Released
  <2>10. pc' \in [Thread -> {"idle", "reading", "create", "push", "purge", "using", "destroy"}]
    BY <2>3
  <2>4. CacheTypeOK'
    BY <2>1, <2>2, <2>3, <2>10 DEF objs
  <2>5. Places'
    BY <2>1, <2>3 DEF Places
  <2>6. FreedNotCached' /\ Named'
    BY <2>1, <2>3 DEF FreedNotCached, Named, objs
  <2>. QED
    BY <2>3, <2>4, <2>5, <2>6
<1>3. CASE PurgeDone(t)
  <2>1. Len(m_cache_lru) < LruMax /\ lruOwner' = Null /\ lruOwner = t
    BY <1>3 DEF PurgeDone, Stands, Places
  <2>. QED
    BY <1>3, <2>1, PushedKept DEF PurgeDone, Stands
<1>. QED
  BY <1>1, <1>2, <1>3

\* Use, release and destruction.
LEMMA DropKept ==
    ASSUME RepoIInv, NEW t \in Thread, Drop(t) \/ Destroy(t)
    PROVE  RepoIInv'
<1> USE CacheAssumption DEF RepoIInv, MemorySafety, CacheTypeOK
<1>1. CASE Drop(t)
  <2>1. PICK o \in held[t] :
           /\ held' = [held EXCEPT ![t] = held[t] \ {o}] /\ UNCHANGED m_cache_lru
           /\ Release(t, o, IF held[t] = {o} THEN "idle" ELSE "using")
    BY <1>1 DEF Drop
  <2>2. pc[t] = "using" /\ UNCHANGED <<m_cache, objs, readers, writer, lruOwner, want, calls>>
    BY <1>1 DEF Drop, Stands, locks
  <2>3. \A p \in Object : InLru(p)' <=> InLru(p)
    BY <2>1 DEF InLru
  <2> DEFINE next == IF held[t] = {o} THEN "idle" ELSE "using"
  <2>4. o \in Object /\ held' \in [Thread -> SUBSET Object]
    BY <2>1
  <2>5. \A p \in Object, u \in Thread : <<p, u>> # <<o, t>> => (p \in held'[u] <=> p \in held[u])
    BY <2>1
  <2>10. /\ pc[t] # "destroy" /\ next # "destroy" /\ Release(t, o, next)
         /\ \A p \in Object : InLru(p)' => InLru(p)
         /\ \A p \in Object : p # o => (InLru(p)' <=> InLru(p))
    BY <2>1, <2>2, <2>3
  <2> HIDE DEF next
  <2>6. /\ life' \in [Object -> {"unborn", "alive", "dying", "erased", "gone"}]
        /\ dying' \in [Thread -> Object \cup {Null}]
        /\ Ownership'
        /\ \A p \in Object : life'[p] = life[p] \/ (life[p] = "alive" /\ life'[p] = "dying")
        /\ pc' = [pc EXCEPT ![t] = pc'[t]] /\ pc'[t] \in {"destroy", next}
        /\ \A u \in Thread \ {t} : dying'[u] = dying[u]
        /\ pc'[t] = "destroy" <=> dying'[t] # Null
    BY <2>1, <2>4, <2>5, <2>10, Released
  <2>7. CacheTypeOK'
    <3>1. pc' \in [Thread -> {"idle", "reading", "create", "push", "purge", "using", "destroy"}]
      BY <2>6 DEF next
    <3>. QED
      BY <2>1, <2>2, <2>4, <2>6, <3>1 DEF objs
  <2>8. Places'
    BY <2>1, <2>2, <2>6 DEF Places, next
  <2>9. FreedNotCached' /\ Named'
    BY <2>2, <2>6 DEF FreedNotCached, Named, objs
  <2>. QED
    BY <2>6, <2>7, <2>8, <2>9
<1>2. CASE Destroy(t)
  <2> DEFINE o == dying[t]
  <2>1. /\ pc[t] = "destroy" /\ m_cache' = [m_cache EXCEPT ![repoOf[o]] = Null]
        /\ UNCHANGED <<m_cache_lru, objs, held, readers, writer, lruOwner, want, calls>>
    BY <1>2 DEF Destroy, Stands, ErasePath, locks
  <2>2. o \in Object /\ life[o] \in {"dying", "erased"} /\ repoOf[o] \in RepoPath
    BY <2>1 DEF Places, Ownership, Named
  <2>3. \A p \in Object : InLru(p)' <=> InLru(p)
    BY <2>1 DEF InLru
  <2>4. \A r \in RepoPath : m_cache'[r] # Null => m_cache'[r] = m_cache[r] /\ m_cache[r] # o
    BY <2>1, <2>2 DEF FreedNotCached
  <2>5. CASE life' = [life EXCEPT ![o] = "erased"] /\ UNCHANGED <<dying, pc>>
    <3>1. CacheTypeOK' /\ Places'
      BY <2>1, <2>2, <2>5 DEF Places, objs
    <3>2. FreedNotCached' /\ Named'
      BY <2>1, <2>2, <2>4, <2>5 DEF FreedNotCached, Named, objs
    <3>3. Ownership'
      BY <2>1, <2>2, <2>3, <2>5 DEF Ownership
    <3>. QED
      BY <3>1, <3>2, <3>3
  <2>6. CASE /\ life' = [life EXCEPT ![o] = "gone"] /\ dying' = [dying EXCEPT ![t] = Null]
             /\ Go(t, IF lruOwner = t THEN "purge"
                      ELSE IF held[t] = {} THEN "idle" ELSE "using")
    <3>1. CacheTypeOK' /\ Places'
      BY <2>1, <2>2, <2>6 DEF Places, Go, objs
    <3>2. FreedNotCached' /\ Named'
      BY <2>1, <2>2, <2>4, <2>6 DEF FreedNotCached, Named, objs
    <3>3. Ownership'
      BY <2>1, <2>2, <2>3, <2>6 DEF Ownership
    <3>. QED
      BY <3>1, <3>2, <3>3
  <2>. QED
    BY <1>2, <2>5, <2>6 DEF Destroy
<1>. QED
  BY <1>1, <1>2

\* create erases the path its temporary was for, get_repos caches what is not there.
LEMMA CreateKept ==
    ASSUME RepoIInv, NEW t \in Thread, NEW r \in RepoPath, Create(t, r)
    PROVE  RepoIInv'
<1> USE CacheAssumption DEF RepoIInv, MemorySafety, CacheTypeOK
<1>1. /\ pc[t] = "idle" /\ want' = [want EXCEPT ![t] = r] /\ calls' \in [Thread -> 0..MaxCalls]
      /\ m_cache' = [m_cache EXCEPT ![r] = Null]
      /\ UNCHANGED <<m_cache_lru, objs, life, held, readers, writer, lruOwner, pc, dying>>
  BY DEF Create, Begin, Stands, locks
<1>2. CacheTypeOK' /\ Places'
  BY <1>1 DEF Places, objs
<1>3. \A o \in Object : InLru(o)' <=> InLru(o)
  BY <1>1 DEF InLru
<1>4. FreedNotCached' /\ Ownership' /\ Named'
  BY <1>1, <1>3 DEF FreedNotCached, Ownership, Named, objs
<1>. QED
  BY <1>2, <1>4

\* The objects get_repos makes are new, and of different paths.
LEMMA GetReposKept ==
    ASSUME RepoIInv, NEW t \in Thread, NEW asked \in (SUBSET RepoPath) \ {{}}, GetRepos(t, asked)
    PROVE  RepoIInv'
<1> USE CacheAssumption DEF RepoIInv, MemorySafety, CacheTypeOK
<1> DEFINE new == {r \in asked : ~Cached(r)}
<1>1. /\ pc[t] = "idle" /\ pc' = [pc EXCEPT ![t] = "using"]
      /\ want' \in [Thread -> RepoPath \cup {Null}] /\ calls' \in [Thread -> 0..MaxCalls]
      /\ \A u \in Thread \ {t} : want'[u] = want[u]
      /\ UNCHANGED <<m_cache_lru, readers, writer, lruOwner, dying>>
  BY DEF GetRepos, Begin, Stands, Go, locks
<1>2. PICK found \in [asked -> Object] :
         /\ \A r \in asked \ new : found[r] = m_cache[r]
         /\ \A r \in new : life[found[r]] = "unborn"
         /\ \A r, q \in new : r # q => found[r] # found[q]
         /\ held' = [held EXCEPT ![t] = {found[r] : r \in asked}]
         /\ listed' = listed \cup {found[r] : r \in new}
         /\ life' = [o \in Object |-> IF \E r \in new : found[r] = o THEN "alive" ELSE life[o]]
         /\ repoOf' = [o \in Object |->
                       IF \E r \in new : found[r] = o THEN CHOOSE r \in new : found[r] = o
                       ELSE repoOf[o]]
         /\ m_cache' = [r \in RepoPath |->
                        IF r \in new /\ m_cache[r] = Null THEN found[r] ELSE m_cache[r]]
  BY DEF GetRepos
<1>3. \A r \in asked \ new : m_cache[r] \in Object /\ life[m_cache[r]] = "alive"
  BY DEF Cached
<1> DEFINE Born(o) == \E r \in new : found[r] = o
<1>4. ASSUME NEW r \in new
      PROVE  repoOf'[found[r]] = r /\ life'[found[r]] = "alive"
  <2>1. found[r] \in Object /\ Born(found[r])
    BY <1>2
  <2>2. (CHOOSE q \in new : found[q] = found[r]) = r
    BY <1>2
  <2>. QED
    BY <1>2, <2>1, <2>2
<1>5. \A o \in Object : ~Born(o) => life'[o] = life[o] /\ repoOf'[o] = repoOf[o]
  BY <1>2
<1>6. \A o \in Object : Born(o) => life[o] = "unborn" /\ life'[o] = "alive" /\ repoOf'[o] \in RepoPath
  BY <1>2, <1>4
<1> HIDE DEF new
<1>7. CacheTypeOK'
  <2>1. life' \in [Object -> {"unborn", "alive", "dying", "erased", "gone"}]
    BY <1>2, <1>5, <1>6
  <2>2. repoOf' \in [Object -> RepoPath \cup {Null}]
    BY <1>2, <1>5, <1>6
  <2>3. m_cache' \in [RepoPath -> Object \cup {Null}]
    BY <1>2 DEF new
  <2>4. held' \in [Thread -> SUBSET Object] /\ listed' \subseteq Object
    BY <1>2 DEF new
  <2>. QED
    BY <1>1, <2>1, <2>2, <2>3, <2>4
<1>8. Places'
  BY <1>1, <1>2 DEF Places
<1>9. Named'
  BY <1>5, <1>6 DEF Named
<1>10. FreedNotCached'
  <2> SUFFICES ASSUME NEW r \in RepoPath, m_cache'[r] # Null
               PROVE  repoOf'[m_cache'[r]] = r /\ life'[m_cache'[r]] \in {"alive", "dying"}
    BY DEF FreedNotCached
  <2>1. CASE r \in new /\ m_cache[r] = Null
    BY <1>2, <1>4, <2>1
  <2>2. CASE m_cache'[r] = m_cache[r]
    <3>1. /\ m_cache[r] \in Object /\ repoOf[m_cache[r]] = r
          /\ life[m_cache[r]] \in {"alive", "dying"}
      BY <2>2 DEF FreedNotCached
    <3>2. ~Born(m_cache[r])
      BY <1>6, <3>1
    <3>. QED
      BY <1>5, <2>2, <3>1, <3>2
  <2>. QED
    BY <1>2, <2>1, <2>2
<1>11. Ownership'
  <2>1. \A o \in Object : InLru(o)' <=> InLru(o)
    BY <1>1 DEF InLru
  <2>2. held[t] = {} /\ \A u \in Thread \ {t} : held'[u] = held[u]
    BY <1>1, <1>2 DEF Places
  <2>3. \A o \in Object : o \in held'[t] => Born(o) \/ (life[o] = "alive" /\ ~Born(o))
    BY <1>2, <1>3, <1>6
  <2>4. \A o \in Object : Born(o) => o \in held'[t]
    BY <1>2 DEF new
  <2>5. \A o \in Object : life'[o] = "alive" <=> InLru(o)' \/ \E u \in Thread : o \in held'[u]
    <3>1. ASSUME NEW o \in Object, Born(o)
          PROVE  life'[o] = "alive" /\ \E u \in Thread : o \in held'[u]
      BY <1>6, <2>4, <3>1
    <3>2. ASSUME NEW o \in Object, ~Born(o)
          PROVE  life'[o] = "alive" <=> InLru(o)' \/ \E u \in Thread : o \in held'[u]
      <4>1. life'[o] = life[o] /\ (InLru(o)' <=> InLru(o)) /\ (o \in held'[t] => life[o] = "alive")
        BY <1>5, <2>1, <2>3, <3>2
      <4>2. life[o] = "alive" <=> InLru(o) \/ \E u \in Thread : o \in held[u]
        BY DEF Ownership
      <4>. QED
        BY <2>2, <4>1, <4>2
    <3>. QED
      BY <3>1, <3>2
  <2>6. \A o \in Object : life'[o] \in {"dying", "erased"} <=> life[o] \in {"dying", "erased"}
    BY <1>5, <1>6
  <2>. QED
    BY <1>1, <2>5, <2>6 DEF Ownership
<1>. QED
  BY <1>7, <1>8, <1>9, <1>10, <1>11

\* Each step of a thread keeps the invariant.
LEMMA RepoKept == RepoIInv /\ [CacheNext]_cacheVars => RepoIInv'
<1> SUFFICES ASSUME RepoIInv, [CacheNext]_cacheVars
             PROVE  RepoIInv'
  OBVIOUS
<1>1. ASSUME NEW t \in Thread, CacheCall(t)
      PROVE  RepoIInv'
  BY <1>1, GetRepoKept, CreateKept, GetReposKept DEF CacheCall
<1>2. ASSUME NEW t \in Thread, CacheStep(t)
      PROVE  RepoIInv'
  BY <1>2, GetRepoKept, PushStepKept, DropKept DEF CacheStep
<1>3. CASE UNCHANGED cacheVars
  BY <1>3 DEF cacheVars, RepoIInv, MemorySafety, CacheTypeOK, FreedNotCached, Ownership,
              InLru, Places, Named
<1>. QED
  BY <1>1, <1>2, <1>3 DEF CacheNext

-----------------------------------------------------------------------------

\* However destructors and look-ups of the cache's threads fall, the map leads to no
\* freed object, every strong pointer is to a living one, and one thread destroys it.
THEOREM CacheIsSafe == CacheSpec => []MemorySafety
<1>1. RepoIInv => MemorySafety
  BY DEF RepoIInv
<1>. QED
  BY <1>1, RepoInitial, RepoKept, PTL DEF CacheSpec
=============================================================================
