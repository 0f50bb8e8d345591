---------------------------- MODULE RoutesProofs ----------------------------
(***************************************************************************)
(* The searches of the git mod and its routers for every set of users,     *)
(* repositories and names, and every bound of a page.                      *)
(***************************************************************************)
EXTENDS GitRoutes, FiniteSetTheorems, WellFoundedInduction, SequenceTheorems, TLAPS

(***************************************************************************)
(* A search (GitSearch).                                                   *)
(***************************************************************************)

InTheirOrder(rows) == \A i, j \in DOMAIN rows : Before(rows[i], rows[j]) => i < j

\* An answer is a window of the selected repositories in their order.
AnswerInOrder ==
    \/ found.status # 200 /\ found.results = <<>>
    \/ \E rows \in SetToSeqs(Selected) : InTheirOrder(rows) /\ found.results = Window(rows)

\* What the pages before have shown stands before this one, unless it is tied.
StandsBefore(r) == {q \in Selected : Before(q, r)}
EarlierIsBefore ==
    /\ earlier # {} => params = MaxParams
    /\ earlier \subseteq Selected
    /\ search.page * search.limit <= MaxInt =>
        \A r \in earlier :
            Untied(r) => Cardinality(StandsBefore(r)) < search.page * search.limit

SearchIInv == SearchTypeOK /\ AnswerInOrder /\ EarlierIsBefore

\* The columns a search asks for are columns.
LEMMA FieldsGrow ==
    ASSUME NEW p \in Parameter, p.key = "fields", NEW fields \in Seq(Part)
    PROVE  fields \o p.value \in Seq(Part)
<1>1. p.value \in {<<"fork">>, <<"path">>, <<"fork", "id">>}
  BY DEF Parameter
<1>2. "fork" \in Part /\ "path" \in Part /\ "id" \in Part
  BY DEF Part
<1> HIDE DEF Part
<1>3. <<"fork">> \in Seq(Part) /\ <<"path">> \in Seq(Part) /\ <<"fork", "id">> \in Seq(Part)
  BY <1>2
<1>4. p.value \in Seq(Part)
  BY <1>1, <1>3
<1> QED BY <1>4

\* A parameter leaves a search a search.
LEMMA ParameterKeeps == SearchIInv /\ (\E p \in Parameter : Parameterise(p)) => SearchIInv'
<1> SUFFICES ASSUME SearchIInv, NEW p \in Parameter, Parameterise(p) PROVE SearchIInv'
  OBVIOUS
<1>1. /\ found = Asking /\ found' = Asking /\ params' = params + 1 /\ params < MaxParams
      /\ UNCHANGED <<catalog, grants, asker, earlier>>
  BY DEF Parameterise
<1>2. search' \in Search
  <2>1. search \in Search
    BY DEF SearchIInv, SearchTypeOK
  <2>2. CASE p.key = "fields"
    <3>1. search' = [search EXCEPT !.fields = @ \o p.value]
      BY <2>2 DEF Parameterise
    <3>2. search.fields \o p.value \in Seq(Part)
      BY <2>1, <2>2, FieldsGrow DEF Search
    <3> QED BY <2>1, <3>1, <3>2 DEF Search
  <2>3. CASE p.key # "fields"
    <3>1. search' = [search EXCEPT ![p.key] = p.value]
      BY <2>3 DEF Parameterise
    <3>2. p.key \in {"desc", "forks", "filter", "owner", "sort", "min_likes", "limit", "page", "text"}
      BY <2>3 DEF Parameter
    <3>3. CASE p.key = "desc"
      <4>1. p.value \in BOOLEAN
        BY <3>3 DEF Parameter
      <4> QED BY <2>1, <3>1, <3>3, <4>1 DEF Search
    <3>4. CASE p.key = "forks"
      <4>1. p.value \in {"any", "yes", "no"}
        BY <3>4 DEF Parameter
      <4> QED BY <2>1, <3>1, <3>4, <4>1 DEF Search
    <3>5. CASE p.key = "filter"
      <4>1. p.value \in -1..3
        BY <3>5 DEF Parameter
      <4> QED BY <2>1, <3>1, <3>5, <4>1 DEF Search
    <3>6. CASE p.key = "owner"
      <4>1. p.value \in Requester
        BY <3>6 DEF Parameter, Requester
      <4> QED BY <2>1, <3>1, <3>6, <4>1 DEF Search
    <3>7. CASE p.key = "sort"
      <4>1. p.value \in {"age", "likes", "name", "edit"}
        BY <3>7 DEF Parameter
      <4> QED BY <2>1, <3>1, <3>7, <4>1 DEF Search
    <3>8. CASE p.key = "min_likes"
      <4>1. p.value \in -1..1
        BY <3>8 DEF Parameter
      <4> QED BY <2>1, <3>1, <3>8, <4>1 DEF Search
    <3>9. CASE p.key \in {"limit", "page"}
      <4>1. p.value \in Unsigned
        BY <3>9 DEF Parameter
      <4> HIDE DEF Unsigned
      <4> QED BY <2>1, <3>1, <3>9, <4>1 DEF Search
    <3>10. CASE p.key = "text"
      <4>1. p.value \in SUBSET Repo
        BY <3>10 DEF Parameter
      <4> QED BY <2>1, <3>1, <3>10, <4>1 DEF Search
    <3> QED BY <3>2, <3>3, <3>4, <3>5, <3>6, <3>7, <3>8, <3>9, <3>10
  <2> QED BY <2>2, <2>3
<1>3. SearchTypeOK'
  BY <1>1, <1>2, SearchAssumption DEF SearchIInv, SearchTypeOK, Asking
<1>4. earlier = {} /\ earlier' = {}
  BY <1>1, SearchAssumption DEF SearchIInv, EarlierIsBefore, SearchTypeOK
<1> QED BY <1>1, <1>3, <1>4 DEF SearchIInv, EarlierIsBefore, AnswerInOrder, Asking

\* A window of a sequence is one.
LEMMA WindowOfRows ==
    ASSUME SearchTypeOK, NEW rows \in SetToSeqs(Selected)
    PROVE  /\ Selected \subseteq Repo /\ IsFiniteSet(Selected)
           /\ rows \in Seq(Repo) /\ Len(rows) = Cardinality(Selected)
           /\ Offset \in Nat
           /\ Window(rows) \in Seq(Repo)
           /\ \A i \in DOMAIN Window(rows) :
                 /\ Offset + i \in DOMAIN rows /\ Window(rows)[i] = rows[Offset + i]
                 /\ i \in 1..search.limit
           /\ Offset = 0 /\ Len(Window(rows)) < search.limit =>
                 DOMAIN rows \subseteq DOMAIN Window(rows)
           /\ \A q \in Selected : \E j \in DOMAIN rows : rows[j] = q
<1>1. Selected \subseteq Repo
  BY DEF Selected
<1>2. IsFiniteSet(Selected)
  BY <1>1, SearchAssumption, FS_Subset
<1>3. Cardinality(Selected) \in Nat
  BY <1>2, FS_CardinalityType
<1> HIDE DEF Selected
<1>4. rows \in [1..Cardinality(Selected) -> Selected]
  BY DEF SetToSeqs
<1>5. rows \in Seq(Repo) /\ Len(rows) = Cardinality(Selected)
  BY <1>1, <1>3, <1>4
<1>6. search.page \in Nat /\ search.limit \in Nat
  BY SearchAssumption DEF SearchTypeOK, Search, Unsigned
<1>7. Offset \in Nat
  BY <1>6 DEF Offset
<1> DEFINE last == IF Offset + search.limit < Len(rows) THEN Offset + search.limit ELSE Len(rows)
<1>8. last \in Nat /\ last <= Len(rows)
  BY <1>3, <1>5, <1>6, <1>7
<1>9. Window(rows) = SubSeq(rows, Offset + 1, last)
  BY DEF Window
<1> HIDE DEF last
<1>10. /\ Window(rows) \in Seq(Repo)
       /\ DOMAIN Window(rows) = 1..(IF Offset + 1 <= last THEN last - Offset ELSE 0)
       /\ \A i \in DOMAIN Window(rows) :
                 Offset + i \in DOMAIN rows /\ Window(rows)[i] = rows[Offset + i]
  BY <1>3, <1>5, <1>7, <1>8, <1>9
<1>11. \A i \in DOMAIN Window(rows) : i \in 1..search.limit
  BY <1>3, <1>5, <1>6, <1>7, <1>10 DEF last
<1>12. Offset = 0 /\ Len(Window(rows)) < search.limit => DOMAIN rows \subseteq DOMAIN Window(rows)
  BY <1>3, <1>5, <1>6, <1>8, <1>10 DEF last
<1>13. \A q \in Selected : \E j \in DOMAIN rows : rows[j] = q
  <2> DEFINE D == 1..Cardinality(Selected)
  <2>1. IsFiniteSet(D) /\ Cardinality(D) = Cardinality(Selected)
    <3>1. /\ IsFiniteSet(D)
          /\ Cardinality(D) = IF 1 > Cardinality(Selected) THEN 0 ELSE Cardinality(Selected) - 1 + 1
      BY <1>3, FS_Interval
    <3> QED BY <1>3, <3>1
  <2>2. rows \in Injection(D, Selected)
    BY <1>4 DEF SetToSeqs, Injection, IsInjective
  <2>3. rows \in Surjection(D, Selected)
    BY <1>2, <2>1, <2>2, FS_Injection
  <2> QED BY <1>4, <2>3 DEF Surjection
<1> QED BY <1>1, <1>2, <1>5, <1>7, <1>10, <1>11, <1>12, <1>13

\* What a search selects, in which order and which window of it, depends on the
\* tables, the requester and the parameters.
LEMMA SelectedKept ==
    ASSUME UNCHANGED <<catalog, grants, asker, search>>
    PROVE  /\ Selected' = Selected
           /\ \A rows : (Window(rows))' = Window(rows) /\ (InTheirOrder(rows))' = InTheirOrder(rows)
           /\ \A r : (Untied(r))' = Untied(r) /\ (StandsBefore(r))' = StandsBefore(r)
<1>1. Selected' = Selected
  BY DEF Selected, Accessible, SharedWith
<1>2. Offset' = Offset
  BY DEF Offset
<1>3. \A rows : (Window(rows))' = Window(rows)
  BY <1>2 DEF Window
<1>4. \A r, q : (Before(r, q))' = Before(r, q)
  BY DEF Before, SortKey
<1>5. \A rows : (InTheirOrder(rows))' = InTheirOrder(rows)
  BY <1>4 DEF InTheirOrder
<1>6. \A r : (Untied(r))' = Untied(r) /\ (StandsBefore(r))' = StandsBefore(r)
  BY <1>1, <1>4 DEF Untied, StandsBefore
<1> QED BY <1>1, <1>3, <1>5, <1>6

\* The statement answers with what it selects.
LEMMA FindKeeps == SearchIInv /\ Find => SearchIInv'
<1> SUFFICES ASSUME SearchIInv, Find PROVE SearchIInv'
  OBVIOUS
<1>1. UNCHANGED <<catalog, grants, asker, search, params, earlier>>
  BY DEF Find
<1>2. /\ Selected' = Selected
      /\ \A rows : (Window(rows))' = Window(rows) /\ (InTheirOrder(rows))' = InTheirOrder(rows)
  BY <1>1, SelectedKept
<1>3b. EarlierIsBefore'
  BY <1>1, SelectedKept DEF SearchIInv, EarlierIsBefore
<1>3. CASE found' = [status |-> 500, results |-> <<>>]
  <2>1. SearchTypeOK' /\ AnswerInOrder'
    BY <1>1, <1>3 DEF SearchIInv, SearchTypeOK, AnswerInOrder
  <2> QED BY <1>3b, <2>1 DEF SearchIInv
<1>4. CASE found' # [status |-> 500, results |-> <<>>]
  <2>1. PICK rows \in SetToSeqs(Selected) :
          InTheirOrder(rows) /\ found' = [status |-> 200, results |-> Window(rows)]
    BY <1>4 DEF Find, InTheirOrder
  <2>2. Window(rows) \in Seq(Repo)
    BY WindowOfRows DEF SearchIInv
  <2>3. found'.status = 200 /\ found'.results = Window(rows)
    BY <2>1
  <2>4. SearchTypeOK'
    BY <1>1, <2>2, <2>3 DEF SearchIInv, SearchTypeOK
  <2>5. AnswerInOrder'
    BY <1>2, <2>1, <2>3 DEF AnswerInOrder
  <2> QED BY <1>3b, <2>4, <2>5 DEF SearchIInv
<1> QED BY <1>3, <1>4

\* What a page shows is selected, and stands where the window puts it.
LEMMA ShownStands ==
    ASSUME SearchIInv, NEW r \in Shown
    PROVE  \E rows \in SetToSeqs(Selected), i \in 1..search.limit :
              /\ InTheirOrder(rows) /\ Offset + i \in DOMAIN rows /\ rows[Offset + i] = r
              /\ r \in Selected
<1>1. found.results # <<>>
  BY DEF Shown
<1>2. PICK rows \in SetToSeqs(Selected) : InTheirOrder(rows) /\ found.results = Window(rows)
  BY <1>1 DEF SearchIInv, AnswerInOrder
<1>3. PICK i \in DOMAIN Window(rows) : r = Window(rows)[i]
  BY <1>2 DEF Shown
<1>4. Offset + i \in DOMAIN rows /\ r = rows[Offset + i] /\ i \in 1..search.limit
  BY <1>3, WindowOfRows DEF SearchIInv
<1>5. r \in Selected
  BY <1>4 DEF SetToSeqs
<1> QED BY <1>2, <1>4, <1>5

\* As many come before a repository as the place in its order says, at most.
LEMMA FewStandBefore ==
    ASSUME SearchTypeOK, NEW rows \in SetToSeqs(Selected), InTheirOrder(rows),
           NEW n \in DOMAIN rows
    PROVE  IsFiniteSet(StandsBefore(rows[n])) /\ Cardinality(StandsBefore(rows[n])) < n
<1>1. /\ IsFiniteSet(Selected) /\ DOMAIN rows = 1..Len(rows) /\ Len(rows) \in Nat
      /\ \A q \in Selected : \E j \in DOMAIN rows : rows[j] = q
  BY WindowOfRows
<1> DEFINE before == StandsBefore(rows[n])
           place == [q \in before |-> CHOOSE j \in DOMAIN rows : rows[j] = q]
<1>2. ASSUME NEW q \in before
      PROVE  place[q] \in 1..(n - 1) /\ rows[place[q]] = q
  <2>1. q \in Selected /\ Before(q, rows[n])
    BY DEF StandsBefore
  <2>2. place[q] \in DOMAIN rows /\ rows[place[q]] = q
    BY <1>1, <2>1
  <2>3. place[q] < n
    BY <2>1, <2>2 DEF InTheirOrder
  <2> QED BY <1>1, <2>2, <2>3
<1>3. place \in Injection(before, 1..(n - 1))
  <2>1. place \in [before -> 1..(n - 1)]
    BY <1>2
  <2>2. \A q, p \in before : place[q] = place[p] => q = p
    BY <1>2
  <2> HIDE DEF place, before
  <2> QED BY <2>1, <2>2 DEF Injection, IsInjective
<1>4. IsFiniteSet(1..(n - 1)) /\ Cardinality(1..(n - 1)) = n - 1
  <2>1. n - 1 \in Int /\ 1 \in Int
    BY <1>1
  <2>2. /\ IsFiniteSet(1..(n - 1))
        /\ Cardinality(1..(n - 1)) = IF 1 > n - 1 THEN 0 ELSE (n - 1) - 1 + 1
    BY <2>1, FS_Interval
  <2> QED BY <1>1, <2>2
<1> HIDE DEF place, before
<1>5. IsFiniteSet(before) /\ Cardinality(before) <= n - 1
  BY <1>3, <1>4, FS_Injection
<1>6. Cardinality(before) \in Nat
  BY <1>5, FS_CardinalityType
<1> QED BY <1>1, <1>5, <1>6 DEF before

\* The next page begins behind what this one shows.
LEMMA NextPageKeeps == SearchIInv /\ NextPage => SearchIInv'
<1> SUFFICES ASSUME SearchIInv, NextPage PROVE SearchIInv'
  OBVIOUS
<1>1. /\ UNCHANGED <<catalog, grants, asker>> /\ found' = Asking /\ params' = MaxParams
      /\ search' = [search EXCEPT !.page = @ + 1] /\ earlier' = earlier \cup Shown
      /\ search.page < MaxShort
  BY DEF NextPage
<1>2. SearchTypeOK /\ search \in Search
  BY DEF SearchIInv, SearchTypeOK
<1>3. search.page \in Nat /\ search.limit \in Nat
  BY <1>2, SearchAssumption DEF Search, Unsigned
<1>4. /\ search'.page = search.page + 1 /\ search'.limit = search.limit
      /\ search'.filter = search.filter /\ search'.owner = search.owner
      /\ search'.min_likes = search.min_likes /\ search'.forks = search.forks
      /\ search'.text = search.text /\ search'.sort = search.sort /\ search'.desc = search.desc
  BY <1>1, <1>2 DEF Search
<1>5. Selected' = Selected /\ \A r, q : (Before(r, q))' = Before(r, q)
  <2>1. \A r : (SortKey(r))' = SortKey(r)
    BY <1>1, <1>4 DEF SortKey
  <2>2. \A r, q : (Before(r, q))' = Before(r, q)
    BY <1>4, <2>1 DEF Before
  <2>3. Selected' = Selected
    BY <1>1, <1>4 DEF Selected, Accessible, SharedWith
  <2> QED BY <2>2, <2>3
<1>6. \A r : (Untied(r))' = Untied(r) /\ (StandsBefore(r))' = StandsBefore(r)
  BY <1>5 DEF Untied, StandsBefore
<1>7. Shown \subseteq Selected /\ Selected \subseteq Repo
  BY ShownStands DEF Selected
<1>8. SearchTypeOK'
  <2>1. search'.page \in Unsigned
    BY <1>1, <1>3, <1>4, SearchAssumption DEF Unsigned
  <2>2. search' \in Search
    <3> HIDE DEF Unsigned
    <3> QED BY <1>1, <1>2, <1>4, <2>1 DEF Search
  <2>3. found'.status = 0 /\ found'.results = <<>>
    BY <1>1 DEF Asking
  <2> HIDE DEF Search
  <2> QED BY <1>1, <1>2, <1>7, <2>2, <2>3, SearchAssumption DEF SearchTypeOK
<1>9. AnswerInOrder'
  BY <1>1 DEF AnswerInOrder, Asking
<1>10. ASSUME search'.page * search'.limit <= MaxInt, NEW r \in earlier', Untied(r)
       PROVE  Cardinality(StandsBefore(r)) < search'.page * search'.limit
  <2>1. search'.page * search'.limit = search.page * search.limit + search.limit
    BY <1>3, <1>4
  <2>2. search.page * search.limit \in Nat /\ search.page * search.limit <= MaxInt
    BY <1>3, <1>10, <2>1, SearchAssumption
  <2>3. CASE r \in earlier
    <3>1. Cardinality(StandsBefore(r)) < search.page * search.limit
      BY <1>10, <2>2, <2>3 DEF SearchIInv, EarlierIsBefore
    <3>2. IsFiniteSet(StandsBefore(r))
      <4>1. IsFiniteSet(Selected)
        BY <1>7, SearchAssumption, FS_Subset
      <4>2. StandsBefore(r) \subseteq Selected
        BY DEF StandsBefore
      <4> QED BY <4>1, <4>2, FS_Subset
    <3>3. Cardinality(StandsBefore(r)) \in Nat
      BY <3>2, FS_CardinalityType
    <3> QED BY <1>3, <2>1, <2>2, <3>1, <3>3
  <2>4. CASE r \in Shown
    <3>1. PICK rows \in SetToSeqs(Selected), i \in 1..search.limit :
            InTheirOrder(rows) /\ Offset + i \in DOMAIN rows /\ rows[Offset + i] = r
      BY <2>4, ShownStands
    <3>2. Offset = search.page * search.limit
      BY <2>2 DEF Offset
    <3>3. /\ IsFiniteSet(StandsBefore(r))
          /\ Cardinality(StandsBefore(r)) < Offset + i
      BY <1>2, <3>1, FewStandBefore
    <3>4. Cardinality(StandsBefore(r)) \in Nat
      BY <3>3, FS_CardinalityType
    <3> QED BY <1>3, <2>1, <2>2, <3>1, <3>2, <3>3, <3>4
  <2> QED BY <1>1, <2>3, <2>4
<1>11. EarlierIsBefore'
  <2>1. earlier' \subseteq Selected
    BY <1>1, <1>7 DEF SearchIInv, EarlierIsBefore
  <2> QED BY <1>1, <1>5, <1>6, <1>10, <2>1 DEF EarlierIsBefore
<1> QED BY <1>8, <1>9, <1>11 DEF SearchIInv

\* Every step of a search keeps the invariant.
LEMMA SearchInvariant == SearchSpec => []SearchIInv
<1>1. SearchInit => SearchIInv
  <2> SUFFICES ASSUME SearchInit PROVE SearchIInv
    OBVIOUS
  <2>1. DefaultSearch \in Search
    <3>1. <<>> \in Seq(Part) /\ Nobody \in Requester /\ 0 \in Unsigned /\ MaxShort \in Unsigned
      BY SearchAssumption DEF Requester, Unsigned
    <3> HIDE DEF Unsigned, Part, Requester
    <3> QED BY <3>1 DEF DefaultSearch, Search
  <2> HIDE DEF DefaultSearch
  <2> QED BY <2>1, SearchAssumption DEF SearchInit, SearchIInv, SearchTypeOK,
             EarlierIsBefore, AnswerInOrder, Asking
<1>2. SearchIInv /\ UNCHANGED searchVars => SearchIInv'
  <2> SUFFICES ASSUME SearchIInv, UNCHANGED searchVars PROVE SearchIInv'
    OBVIOUS
  <2>1. UNCHANGED <<catalog, grants, asker, search, params, found, earlier>>
    BY DEF searchVars
  <2>2. SearchTypeOK' /\ EarlierIsBefore'
    BY <2>1, SelectedKept DEF SearchIInv, SearchTypeOK, EarlierIsBefore
  <2>3. AnswerInOrder'
    BY <2>1, SelectedKept DEF SearchIInv, AnswerInOrder
  <2> QED BY <2>2, <2>3 DEF SearchIInv
<1>3. SearchIInv /\ [SearchNext]_searchVars => SearchIInv'
  BY <1>2, ParameterKeeps, FindKeeps, NextPageKeeps DEF SearchNext
<1> QED BY <1>1, <1>3, PTL DEF SearchSpec

\* Over its locality a requester is shown what can_access lets him read; the other
\* repositories shown are called like his own.
LEMMA AccessibleIsRead ==
    ASSUME SearchIInv, NEW r \in Repo, Accessible(r, asker)
    PROVE  CanAccess(r, Read, asker) \/ LikeHisOwn(r)
<1>1. asker \in Requester /\ catalog[r].visibility \in 0..3
  BY DEF SearchIInv, SearchTypeOK
<1>2. CASE SharedWith(r, asker)
  BY <1>2 DEF SharedWith, LikeHisOwn
<1>3. CASE catalog[r].visibility > VisibleOver(asker)
  BY <1>1, <1>3, SearchAssumption DEF CanAccess, VisibleOver, Audience, Requester, Read,
           OnlyOwner, OnInstance, InFediverse, Public
<1> QED BY <1>2, <1>3 DEF Accessible

\* A search that names no visibility shows what the requester may read, or what is
\* called like his own, and leaves out no public repository it looks for when its
\* first page is not full: the statement says what can_access does.
THEOREM SearchesAgree == SearchSpec => []SearchAgreesWithAccess
<1>1. SearchIInv => SearchAgreesWithAccess
  <2> SUFFICES ASSUME SearchIInv, found.status = 200
               PROVE  /\ search.filter \in {-1, OnlyOwner} =>
                            \A r \in Shown : CanAccess(r, Read, asker) \/ LikeHisOwn(r)
                      /\ /\ search.filter \in {-1, Public} /\ search.forks # "yes"
                         /\ search.page = 0 /\ Len(found.results) < search.limit
                         => \A r \in search.text :
                              /\ catalog[r].visibility = Public
                              /\ search.owner \in {Nobody, r[1]}
                              /\ search.min_likes = 1 => catalog[r].likes > 1
                              => r \in Shown
    BY DEF SearchAgreesWithAccess, SearchIInv
  <2>1. PICK rows \in SetToSeqs(Selected) : found.results = Window(rows)
    BY DEF SearchIInv, AnswerInOrder
  <2>2. SearchTypeOK
    BY DEF SearchIInv
  <2>3. ASSUME NEW r \in Shown, search.filter \in {-1, OnlyOwner}
        PROVE  CanAccess(r, Read, asker) \/ LikeHisOwn(r)
    <3>1. r \in Selected
      BY ShownStands
    <3>2. r \in Repo /\ Accessible(r, asker)
      BY <2>3, <3>1 DEF Selected
    <3> QED BY <3>2, AccessibleIsRead
  <2>4. ASSUME search.filter \in {-1, Public}, search.forks # "yes", search.page = 0,
               Len(found.results) < search.limit, NEW r \in search.text,
               catalog[r].visibility = Public, search.owner \in {Nobody, r[1]},
               search.min_likes = 1 => catalog[r].likes > 1
        PROVE  r \in Shown
    <3>1. /\ search.text \subseteq Repo /\ search.limit \in Nat /\ r \in Repo
          /\ search.forks \in {"any", "yes", "no"} /\ search.min_likes \in -1..1
      BY <2>2, <2>4, SearchAssumption DEF SearchTypeOK, Search, Unsigned
    <3>2. r \in Selected
      <4>1. search.filter \in {-1, OnlyOwner} => Accessible(r, asker)
        BY <2>4 DEF Accessible, VisibleOver, Public, OnInstance, InFediverse
      <4>2. search.forks # "any" => (ListedAsFork(r) <=> search.forks = "yes")
        BY <2>4, <3>1 DEF ListedAsFork
      <4>3. search.min_likes > 0 => catalog[r].likes > search.min_likes
        BY <2>4, <3>1
      <4>4. search.filter \in {-1, catalog[r].visibility}
        BY <2>4, <3>1
      <4> QED BY <2>4, <3>1, <4>1, <4>2, <4>3, <4>4 DEF Selected
    <3>3. Offset = 0
      BY <2>4, <3>1 DEF Offset
    <3>4. PICK j \in DOMAIN rows : rows[j] = r
      BY <2>2, <3>2, WindowOfRows
    <3>5. j \in DOMAIN Window(rows)
      BY <2>1, <2>2, <2>4, <3>3, WindowOfRows
    <3>6. DOMAIN rows \subseteq Nat
      BY <2>2, WindowOfRows
    <3>7. Window(rows)[j] = r
      BY <2>2, <3>3, <3>4, <3>5, <3>6, WindowOfRows
    <3> QED BY <2>1, <3>5, <3>7 DEF Shown
  <2> QED BY <2>3, <2>4
<1> QED BY <1>1, SearchInvariant, PTL

\* Who turns the pages sees a repository again only for a tie or a product that is no
\* int: too many come before what a page shows.
THEOREM NothingComesTwice == SearchSpec => []PagesAreApart
<1>1. SearchIInv => PagesAreApart
  <2> SUFFICES ASSUME SearchIInv, NEW r \in Shown, r \in earlier, Untied(r)
               PROVE  search.page * search.limit > MaxInt
    BY DEF PagesAreApart
  <2>1. SearchTypeOK
    BY DEF SearchIInv
  <2> DEFINE product == search.page * search.limit
  <2>12. product \in Int
    BY <2>1, SearchAssumption DEF SearchTypeOK, Search, Unsigned
  <2> HIDE DEF product
  <2> SUFFICES ASSUME product <= MaxInt PROVE FALSE
    BY <2>12, SearchAssumption DEF product
  <2>2. PICK rows \in SetToSeqs(Selected), i \in 1..search.limit :
          /\ InTheirOrder(rows) /\ Offset + i \in DOMAIN rows /\ rows[Offset + i] = r
          /\ r \in Selected
    BY ShownStands
  <2> DEFINE before == StandsBefore(r)
  <2>3. /\ IsFiniteSet(Selected) /\ Offset \in Nat /\ i \in Nat \ {0}
        /\ Len(rows) = Cardinality(Selected) /\ Len(rows) \in Nat /\ DOMAIN rows = 1..Len(rows)
    BY <2>1, <2>2, WindowOfRows, SearchAssumption DEF SearchTypeOK, Search, Unsigned
  <2>4. Offset = search.page * search.limit
    BY DEF Offset, product
  <2>5. \A j \in 1..Offset : rows[j] \in before
    <3> TAKE j \in 1..Offset
    <3>1. j \in DOMAIN rows /\ j < Offset + i
      BY <2>2, <2>3
    <3>2. rows[j] \in Selected \ {r}
      BY <2>2, <2>3, <3>1 DEF SetToSeqs
    <3>3. ~Before(r, rows[j])
      BY <2>2, <2>3, <3>1 DEF InTheirOrder
    <3>4. Before(rows[j], r)
      BY <3>2, <3>3 DEF Untied
    <3> QED BY <3>2, <3>4 DEF StandsBefore
  <2>6. IsFiniteSet(before)
    <3>1. before \subseteq Selected
      BY DEF StandsBefore
    <3> QED BY <2>3, <3>1, FS_Subset
  <2> DEFINE first == [j \in 1..Offset |-> rows[j]]
  <2>7. first \in Injection(1..Offset, before)
    <3>1. first \in [1..Offset -> before]
      BY <2>5
    <3>2. \A j, k \in 1..Offset : j # k => first[j] # first[k]
      BY <2>2, <2>3 DEF SetToSeqs
    <3> QED BY <3>1, <3>2 DEF Injection, IsInjective
  <2>8. IsFiniteSet(1..Offset) /\ Cardinality(1..Offset) = Offset
    <3>1. Offset \in Int /\ 1 \in Int
      BY <2>3
    <3>2. /\ IsFiniteSet(1..Offset)
          /\ Cardinality(1..Offset) = IF 1 > Offset THEN 0 ELSE Offset - 1 + 1
      BY <3>1, FS_Interval
    <3> QED BY <2>3, <3>2
  <2> HIDE DEF first, before
  <2>9. Cardinality(1..Offset) <= Cardinality(before)
    BY <2>6, <2>7, <2>8, FS_Injection
  <2>10. Cardinality(before) \in Nat
    BY <2>6, FS_CardinalityType
  <2>11. Cardinality(before) < Offset
    BY <2>4 DEF before, product, SearchIInv, EarlierIsBefore
  <2> QED BY <2>3, <2>8, <2>9, <2>10, <2>11
<1> QED BY <1>1, SearchInvariant, PTL

(***************************************************************************)
(* The routers of the git mod (GitRoutes).                                 *)
(***************************************************************************)

Token ==
    Local \cup Words \cup Short \cup {Here, Away} \cup
    {"/", "?", "@", ".git", "tab", "main.css", "fonts", "woff", "other", "api", "v1", "ticket",
     "repo", "new", "user", "likes", "bad", "likes_count", "info", "tree", "commit", "c0ffee",
     "none", "tickets", "refs", "git-receive-pack"}

\* Sets of naturals have a least element.
LEMMA Least ==
  ASSUME NEW T, T \subseteq Nat, T # {}
  PROVE  \E x \in T : \A y \in T : x <= y
<1>1. PICK x \in T : \A y \in T : ~(<<y, x>> \in OpToRel(<, Nat))
  BY NatLessThanWellFounded, WFMin
<1>2. \A y \in T : ~(y < x)
  BY <1>1 DEF OpToRel
<1> QED BY <1>2

\* The first of the tokens looked for is where the tokens before it are none.
LEMMA FindIs ==
    ASSUME NEW url, Len(url) \in Nat, NEW Ts, NEW i \in Nat, NEW n \in i..Len(url),
           url[n] \in Ts, \A k \in i..(n - 1) : url[k] \notin Ts
    PROVE  Find1(url, Ts, i) = n
<1> DEFINE at == {j \in i..Len(url) : url[j] \in Ts}
<1>1. n \in at
  OBVIOUS
<1>2. \A j \in at : (\A k \in at : j <= k) <=> j = n
  <2> TAKE j \in at
  <2>1. ASSUME j # n PROVE ~(j <= n)
    BY <2>1
  <2>2. \A k \in at : n <= k
    OBVIOUS
  <2> QED BY <1>1, <2>1, <2>2
<1>3. (CHOOSE j \in at : \A k \in at : j <= k) = n
  BY <1>1, <1>2
<1> QED BY <1>1, <1>3 DEF Find1

\* Without any, it is past the end.
LEMMA FindNone ==
    ASSUME NEW url, NEW Ts, NEW i, \A k \in i..Len(url) : url[k] \notin Ts
    PROVE  Find1(url, Ts, i) = Len(url) + 1
  BY DEF Find1

\* Anyhow it is past the end, or the place of one.
LEMMA FindFinds ==
    ASSUME NEW url, Len(url) \in Nat, NEW Ts, NEW i \in Nat
    PROVE  LET n == Find1(url, Ts, i) IN
           n \in Nat /\ n <= Len(url) + 1 /\ (n <= Len(url) => n >= i /\ url[n] \in Ts)
<1> DEFINE at == {j \in i..Len(url) : url[j] \in Ts}
<1>1. CASE at = {}
  BY <1>1 DEF Find1
<1>2. CASE at # {}
  <2>1. at \subseteq Nat
    OBVIOUS
  <2>2. \E j \in at : \A k \in at : j <= k
    BY <1>2, <2>1, Least
  <2>3. Find1(url, Ts, i) \in at
    BY <1>2, <2>2 DEF Find1
  <2> QED BY <2>3
<1> QED BY <1>1, <1>2

\* What is left without the slashes before it.
LEMMA NoSlashesIs ==
    ASSUME NEW S, NEW url \in Seq(S), NEW n \in 1..Len(url), url[n] # "/",
           \A k \in 1..(n - 1) : url[k] = "/"
    PROVE  NoSlashes(url) = Drop1(url, n - 1)
<1> DEFINE words == {j \in DOMAIN url : url[j] # "/"}
<1>1. n \in words
  OBVIOUS
<1>2. \A j \in words : (\A k \in words : j <= k) <=> j = n
  <2> TAKE j \in words
  <2>1. ASSUME j # n PROVE ~(j <= n)
    BY <2>1
  <2>2. \A k \in words : n <= k
    OBVIOUS
  <2> QED BY <1>1, <2>1, <2>2
<1>3. (CHOOSE j \in words : \A k \in words : j <= k) = n
  BY <1>1, <1>2
<1> QED BY <1>1, <1>3 DEF NoSlashes

\* Without slashes before it a url is one that starts with none, or empty.
LEMMA NoSlashesStarts ==
    ASSUME NEW S, NEW url \in Seq(S)
    PROVE  NoSlashes(url) \in Seq(S)
<1> DEFINE words == {j \in DOMAIN url : url[j] # "/"}
<1>1. CASE words = {}
  BY <1>1 DEF NoSlashes
<1>2. CASE words # {}
  <2>1. words \subseteq Nat
    OBVIOUS
  <2>2. PICK n \in words : n = CHOOSE j \in words : \A k \in words : j <= k
    BY <1>2, <2>1, Least
  <2>3. NoSlashes(url) = SubSeq(url, n - 1 + 1, Len(url))
    BY <1>2, <2>2 DEF NoSlashes, Drop1
  <2>4. n \in 1..Len(url)
    OBVIOUS
  <2> HIDE DEF words
  <2> QED BY <2>3, <2>4
<1> QED BY <1>1, <1>2

\* A repository's owner and name are tokens but no separators.
LEMMA WordsOfRepo ==
    ASSUME NEW r \in Repo
    PROVE  /\ r[1] \in Local /\ r[2] \in Words
           /\ r[1] \notin {"/", "?", "@", ".git"} /\ r[2] \notin {"/", "?", "@", ".git"}
           /\ r = <<r[1], r[2]>>
<1>1. PICK u \in Local, i \in DOMAIN Names : r = <<u, Names[i]>>
  BY SearchAssumption
<1>2. r[1] = u /\ r[2] = Names[i] /\ Names[i] \in Words
  BY <1>1 DEF Words
<1> QED BY <1>1, <1>2, RoutesAssumption DEF Separator

\* The directory that git opens, if it is a repository's, is that of the repository
\* that from_path takes the url for.
LEMMA GitDirIsItsOwn ==
    ASSUME NEW url \in Seq(Token), NEW r \in Repo, NEW q \in Repo,
           GitDir(url) = <<q[1], "/", q[2]>>,
           FromPath(url).kind = "repo",
           FromPath(url).owner = <<r[1]>>, FromPath(url).name = <<r[2]>>
    PROVE  r = q
<1> DEFINE bare == NoSlashes(url)
<1>1. bare \in Seq(Token)
  BY NoSlashesStarts
<1> HIDE DEF bare
<1>2. Len(bare) \in Nat /\ bare = [i \in 1..Len(bare) |-> bare[i]]
  BY <1>1
<1>3. Len(bare) >= 3 /\ bare[1] = q[1] /\ bare[2] = "/" /\ bare[3] = q[2]
  <2> DEFINE query == Find1(bare, {"?"}, 1)
             path == SubSeq(bare, 1, query - 1)
             dirs == {dir \in {SubSeq(path, 1, n) : n \in 0..Len(path)} :
                         \E service \in Services : path = dir \o service}
  <2>1. GitDir(url) = IF dirs = {} THEN <<>> ELSE CHOOSE dir \in dirs : TRUE
    BY DEF GitDir, bare
  <2>2. Len(GitDir(url)) = 3 /\ GitDir(url)[1] = q[1] /\ GitDir(url)[2] = "/" /\ GitDir(url)[3] = q[2]
    OBVIOUS
  <2>3. GitDir(url) \in dirs
    <3> HIDE DEF dirs
    <3>1. dirs # {}
      BY <2>1, <2>2, EmptySeq
    <3>2. \E dir : dir \in dirs
      BY <3>1
    <3>3. GitDir(url) = CHOOSE dir : dir \in dirs
      BY <2>1, <3>1, Zenon
    <3> QED BY <3>2, <3>3, Zenon
  <2>4. PICK n \in 0..Len(path) : GitDir(url) = SubSeq(path, 1, n)
    BY <2>3
  <2>5. /\ path \in Seq(Token) /\ Len(path) \in Nat /\ Len(path) <= Len(bare)
        /\ \A k \in 1..Len(path) : path[k] = bare[k]
    <3>1. query \in Nat /\ query <= Len(bare) + 1
      <4>1. 1 \in Nat
        OBVIOUS
      <4> QED BY <1>2, <4>1, FindFinds
    <3> HIDE DEF query
    <3> QED BY <1>1, <1>2, <3>1
  <2> HIDE DEF path, dirs, query
  <2> DEFINE part == SubSeq(path, 1, n)
  <2>6. Len(part) = n /\ \A k \in 1..n : part[k] = path[k]
    BY <2>5
  <2>7. n = 3 /\ part[1] = q[1] /\ part[2] = "/" /\ part[3] = q[2]
    BY <2>2, <2>4, <2>6
  <2> HIDE DEF part
  <2>8. path[1] = q[1] /\ path[2] = "/" /\ path[3] = q[2]
    BY <2>6, <2>7
  <2>9. 1 \in 1..Len(path) /\ 2 \in 1..Len(path) /\ 3 \in 1..Len(path) /\ Len(bare) >= 3
    BY <1>2, <2>4, <2>5, <2>7
  <2>10. path[1] = bare[1] /\ path[2] = bare[2] /\ path[3] = bare[3]
    BY <2>5, <2>9
  <2> QED BY <2>8, <2>9, <2>10
<1>4. bare # <<>> /\ Head(bare) = bare[1] /\ Unescaped(bare) = bare
  BY <1>1, <1>3, WordsOfRepo DEF Unescaped
<1>5. Find1(bare, {"/"}, 1) = 2
  <2>1. bare[1] \notin {"/"} /\ bare[2] \in {"/"}
    BY <1>3, WordsOfRepo
  <2>2. Len(bare) \in Nat /\ 1 \in Nat /\ 2 \in 1..Len(bare) /\ \A k \in 1..(2 - 1) : k = 1
    BY <1>2, <1>3
  <2> QED BY <2>1, <2>2, FindIs
<1> DEFINE at == Find1(bare, {"@"}, 1)
           end == Find1(bare, {"/", "?"}, 3)
           owner == SubSeq(bare, 1, (IF at > Len(bare) THEN 2 ELSE at) - 1)
           instance == IF at > Len(bare) THEN <<>> ELSE Foreign(SubSeq(bare, at + 1, 1))
           name == SubSeq(bare, 3, EndOfName(bare, end) - 1)
<1>6. FromPath(url) =
        IF Width(url) < 3 THEN Invalid(<<>>)
        ELSE IF Width(bare) < 3 \/ 2 > Len(bare) \/ (at <= Len(bare) /\ at > 2) THEN Invalid(<<>>)
        ELSE IF 2 = Len(bare) THEN Invalid(instance)
        ELSE IF TooShort(bare, end) THEN Throws
        ELSE IF name = <<>> THEN Invalid(instance)
        ELSE Parsed(owner, instance, name)
  <2>1. 2 + 1 = 3 /\ 2 - 1 = 1
    OBVIOUS
  <2> QED BY <1>4, <1>5, <2>1, Zenon DEF FromPath, bare
<1> DEFINE F == FromPath(url)
<1>7. F.kind = "repo" /\ F.owner = <<r[1]>> /\ F.name = <<r[2]>>
  OBVIOUS
<1>8. (\A i : Invalid(i).kind # "repo") /\ Throws.kind # "repo"
  BY DEF Invalid, Throws
<1>9. at \in Nat /\ (at <= Len(bare) => at >= 1 /\ bare[at] = "@")
  <2>1. Len(bare) \in Nat /\ 1 \in Nat
    BY <1>2
  <2>2. at \in Nat /\ (at <= Len(bare) => at >= 1 /\ bare[at] \in {"@"})
    BY <2>1, FindFinds
  <2> HIDE DEF at
  <2> QED BY <2>2
<1>10. at > Len(bare)
  <2>1. at <= Len(bare) => at > 2
    BY <1>3, <1>9, WordsOfRepo
  <2> HIDE DEF at, end, name, owner, instance
  <2> QED BY <1>2, <1>6, <1>7, <1>8, <1>9, <2>1
<1>11. F = Parsed(SubSeq(bare, 1, 1), <<>>, name) /\ name # <<>>
  <2>1. owner = SubSeq(bare, 1, 1) /\ instance = <<>>
    <3> HIDE DEF at
    <3> QED BY <1>10
  <2> HIDE DEF at, end, name, owner, instance
  <2> QED BY <1>6, <1>7, <1>8, <2>1
<1>12. SubSeq(bare, 1, 1) = <<r[1]>> /\ name = <<r[2]>>
  <2>1. \A p, o, i, n : p = Parsed(o, i, n) => p.owner = o /\ p.name = n
    BY DEF Parsed
  <2>2. F.owner = SubSeq(bare, 1, 1) /\ F.name = name
    <3> DEFINE first == SubSeq(bare, 1, 1)
    <3>1. F = Parsed(first, <<>>, name)
      BY <1>11
    <3> HIDE DEF at, end, name, F, first, owner, instance
    <3>2. F.owner = first /\ F.name = name
      BY <3>1 DEF Parsed
    <3> QED BY <3>2 DEF first
  <2> HIDE DEF at, end, name, F
  <2> QED BY <1>7, <2>2
<1>13. bare[1] = r[1]
  <2> DEFINE first == SubSeq(bare, 1, 1)
  <2>1. first[1] = r[1]
    <3>1. first = <<r[1]>>
      BY <1>12
    <3> HIDE DEF first
    <3> QED BY <3>1
  <2> QED BY <1>1, <1>3, <2>1
<1>14. bare[3] = r[2]
  <2> DEFINE last == EndOfName(bare, end) - 1
  <2> HIDE DEF last
  <2>1. name = SubSeq(bare, 3, last)
    BY DEF last
  <2>2. last \in Int
    <3>1. end \in Nat
      BY <1>2, FindFinds
    <3> HIDE DEF end
    <3> QED BY <3>1 DEF EndOfName, last
  <2>3. Len(name) = 1 /\ name[1] = r[2]
    <3> HIDE DEF name
    <3> QED BY <1>12
  <2> HIDE DEF name
  <2>4. name[1] = bare[3]
    BY <1>1, <2>1, <2>2, <2>3
  <2> QED BY <2>3, <2>4
<1> QED BY <1>3, <1>13, <1>14, WordsOfRepo

PageUrl(r) == <<"/", "@", r[1], "/", r[2]>>

\* Slices of one token and of two.
LEMMA OneOf ==
    ASSUME NEW S, NEW url \in Seq(S), NEW i \in 1..Len(url)
    PROVE  SubSeq(url, i, i) = <<url[i]>>
<1>1. i \in Int /\ url[i] \in S /\ \A k \in i..i : url[k] \in S
  OBVIOUS
<1>2. /\ SubSeq(url, i, i) \in Seq(S) /\ Len(SubSeq(url, i, i)) = IF i <= i THEN i - i + 1 ELSE 0
      /\ \A k \in 1..(i - i + 1) : SubSeq(url, i, i)[k] = url[i + k - 1]
  BY <1>1, SubSeqProperties
<1> DEFINE t == SubSeq(url, i, i)
<1>3. t \in Seq(S) /\ Len(t) = 1 /\ t[1] = url[i]
  BY <1>1, <1>2
<1> HIDE DEF t
<1>4. t = <<url[i]>>
  BY <1>3
<1> QED BY <1>4 DEF t

LEMMA PairOf ==
    ASSUME NEW S, NEW url \in Seq(S), NEW i \in 1..Len(url), NEW j, j = i + 1, j <= Len(url)
    PROVE  SubSeq(url, i, j) = <<url[i], url[j]>>
<1>1. i \in Int /\ j \in Int /\ i <= j /\ j - i + 1 = 2 /\ \A k \in i..j : url[k] \in S
  OBVIOUS
<1>2. /\ SubSeq(url, i, j) \in Seq(S) /\ Len(SubSeq(url, i, j)) = IF i <= j THEN j - i + 1 ELSE 0
      /\ \A k \in 1..(j - i + 1) : SubSeq(url, i, j)[k] = url[i + k - 1]
  BY <1>1, SubSeqProperties
<1> DEFINE t == SubSeq(url, i, j)
<1>3. t \in Seq(S) /\ Len(t) = 2 /\ t[1] = url[i] /\ t[2] = url[j]
  <2>1. Len(t) = 2 /\ \A k \in 1..2 : t[k] = url[i + k - 1]
    BY <1>1, <1>2
  <2>2. 1 \in 1..2 /\ 2 \in 1..2 /\ i + 1 - 1 = i /\ i + 2 - 1 = j
    BY <1>1
  <2> HIDE DEF t
  <2>3. t[1] = url[i + 1 - 1] /\ t[2] = url[i + 2 - 1]
    BY <2>1, <2>2
  <2> QED BY <1>2, <2>1, <2>2, <2>3 DEF t
<1> HIDE DEF t
<1>4. t = <<url[i], url[j]>>
  BY <1>3
<1> QED BY <1>4 DEF t

\* What a url has behind the first n of its tokens.
LEMMA DropIs ==
    ASSUME NEW S, NEW url \in Seq(S), NEW n \in 0..Len(url)
    PROVE  /\ Drop1(url, n) \in Seq(S) /\ Len(Drop1(url, n)) = Len(url) - n
           /\ \A k \in 1..(Len(url) - n) : Drop1(url, n)[k] = url[n + k]
  BY DEF Drop1

\* A url is as wide as it has tokens, and more.
LEMMA AtLeastSoWide ==
    ASSUME NEW S, NEW url \in Seq(S)
    PROVE  Width(url) \in Nat /\ Width(url) >= Len(url)
<1> DEFINE two == {i \in DOMAIN url : url[i] \notin Separator \cup Terse}
           three == {i \in DOMAIN url : url[i] \notin Separator \cup Terse \cup Short}
<1>1. IsFiniteSet(1..Len(url)) /\ DOMAIN url = 1..Len(url) /\ Len(url) \in Nat
  BY FS_Interval, LenProperties
<1>2. IsFiniteSet(two) /\ IsFiniteSet(three)
  BY <1>1, FS_Subset
<1> HIDE DEF two, three
<1>3. Cardinality(two) \in Nat /\ Cardinality(three) \in Nat
  BY <1>2, FS_CardinalityType
<1>4. Width(url) = Len(url) + Cardinality(two) + Cardinality(three)
  BY DEF Width, two, three
<1> QED BY <1>1, <1>3, <1>4

\* The page of a repository with an '@' before its owner: no router of the instance's
\* own pages takes it, and from_path reads it, but when owner and name have one
\* character each, which is too short for it.
LEMMA PageUrlIsRepos ==
    ASSUME NEW r \in Repo, call.url = PageUrl(r)
    PROVE  /\ ~IsAsset /\ ~IsUser /\ ~Begins(ApiLike \cup RepoLike)
           /\ FromPath(call.url) \in {Throws, Parsed(<<r[1]>>, <<>>, <<r[2]>>)}
           /\ IsPage
<1> DEFINE url == call.url
<1>1. /\ url \in Seq(Token) /\ Len(url) = 5
      /\ url[1] = "/" /\ url[2] = "@" /\ url[3] = r[1] /\ url[4] = "/" /\ url[5] = r[2]
  <2>1. r[1] \in Token /\ r[2] \in Token /\ "/" \in Token /\ "@" \in Token
    BY WordsOfRepo DEF Token
  <2>2. <<"/", "@", r[1], "/", r[2]>> \in Seq(Token)
    BY <2>1
  <2> QED BY <2>2 DEF PageUrl
<1> HIDE DEF url
<1>2. /\ r[1] \notin {"/", "?", "@", ".git"} /\ r[2] \notin {"/", "?", "@", ".git"}
  BY WordsOfRepo
<1>3. ~IsAsset
  <2>1. Slice(url, 1, 2) = <<"/", "@">>
    <3>1. SubSeq(url, 1, 2) = <<url[1], url[2]>>
      BY <1>1, PairOf
    <3> QED BY <1>1, <3>1 DEF Slice
  <2>2. Slice(url, 1, 2) \notin {<<"/">>, <<"/", "?">>, <<"/", "main.css">>}
    BY <2>1
  <2>3. url # <<"/", "fonts", "/", "woff">>
    BY <1>1
  <2> QED BY <2>2, <2>3 DEF IsAsset, url
<1>4. ~IsUser
  <2>1. Find1(url, {"/", "?"}, 2) = 4
    <3>1. url[4] \in {"/", "?"} /\ \A k \in 2..(4 - 1) : url[k] \notin {"/", "?"}
      <4>1. \A k \in 2..(4 - 1) : k = 2 \/ k = 3
        OBVIOUS
      <4> QED BY <4>1, <1>1, <1>2
    <3>2. Len(url) \in Nat /\ 2 \in Nat /\ 4 \in 2..Len(url)
      BY <1>1
    <3> QED BY <3>1, <3>2, FindIs
  <2>2. Slice(url, 4, 5) = <<"/", r[2]>>
    <3>1. SubSeq(url, 4, 5) = <<url[4], url[5]>>
      <4>1. 4 \in 1..Len(url) /\ 5 = 4 + 1 /\ 5 <= Len(url)
        BY <1>1
      <4> QED BY <1>1, <4>1, PairOf
    <3> QED BY <1>1, <3>1 DEF Slice
  <2>3. "?" \notin Tokens(Slice(url, 4, 5))
    BY <2>2, <1>2 DEF Tokens
  <2> QED BY <1>1, <2>1, <2>3 DEF IsUser, url
<1>5. ~Begins(ApiLike \cup RepoLike)
  BY <1>1, RoutesAssumption DEF Begins, Separator, url
<1> DEFINE bare == NoSlashes(url)
<1>6. /\ bare \in Seq(Token) /\ Len(bare) = 4
      /\ bare[1] = "@" /\ bare[2] = r[1] /\ bare[3] = "/" /\ bare[4] = r[2]
  <2>1. bare = Drop1(url, 2 - 1)
    <3>1. 2 \in 1..Len(url) /\ url[2] # "/" /\ \A k \in 1..(2 - 1) : url[k] = "/"
      <4>1. \A k \in 1..(2 - 1) : k = 1
        OBVIOUS
      <4> QED BY <4>1, <1>1
    <3> QED BY <1>1, <3>1, NoSlashesIs
  <2> HIDE DEF bare
  <2>2. 1 \in 0..Len(url) /\ 2 - 1 = 1
    BY <1>1
  <2>3. /\ bare \in Seq(Token) /\ Len(bare) = Len(url) - 1
        /\ \A k \in 1..(Len(url) - 1) : bare[k] = url[1 + k]
    <3>1. bare = Drop1(url, 1)
      BY <2>1, <2>2
    <3>2. /\ Drop1(url, 1) \in Seq(Token) /\ Len(Drop1(url, 1)) = Len(url) - 1
          /\ \A k \in 1..(Len(url) - 1) : Drop1(url, 1)[k] = url[1 + k]
      <4>1. url \in Seq(Token) /\ 1 \in 0..Len(url)
        BY <1>1, <2>2
      <4> QED BY <4>1, DropIs
    <3> QED BY <3>1, <3>2
  <2>4. Len(bare) = 4 /\ \A k \in 1..4 : bare[k] = url[1 + k]
    BY <1>1, <2>3
  <2>5. bare[1] = url[1 + 1] /\ bare[2] = url[1 + 2] /\ bare[3] = url[1 + 3] /\ bare[4] = url[1 + 4]
    <3>1. 1 \in 1..4 /\ 2 \in 1..4 /\ 3 \in 1..4 /\ 4 \in 1..4
      OBVIOUS
    <3> QED BY <2>4, <3>1
  <2> QED BY <1>1, <2>3, <2>4, <2>5
<1> HIDE DEF bare
<1> DEFINE rest == Tail(bare)
<1>7. /\ rest \in Seq(Token) /\ Len(rest) = 3
      /\ rest[1] = r[1] /\ rest[2] = "/" /\ rest[3] = r[2]
  <2>1. bare # <<>>
    BY <1>6
  <2>2. /\ rest \in Seq(Token) /\ Len(rest) = Len(bare) - 1
        /\ \A i \in 1..Len(rest) : rest[i] = bare[i + 1]
    BY <1>6, <2>1, HeadTailProperties
  <2>3. Len(rest) = 3
    BY <1>6, <2>2
  <2> HIDE DEF rest
  <2>4. rest[1] = bare[1 + 1] /\ rest[2] = bare[2 + 1] /\ rest[3] = bare[3 + 1]
    <3>1. 1 \in 1..Len(rest) /\ 2 \in 1..Len(rest) /\ 3 \in 1..Len(rest)
      BY <2>3
    <3> QED BY <2>2, <3>1
  <2> QED BY <1>6, <2>2, <2>3, <2>4
<1>8. bare # <<>> /\ Head(bare) = "@" /\ Unescaped(bare) = rest
  <2>1. bare # <<>> /\ Head(bare) = "@"
    <3>1. bare # <<>>
      BY <1>6
    <3>2. Head(bare) = bare[1]
      BY <1>6, <3>1
    <3> QED BY <1>6, <3>1, <3>2
  <2> QED BY <2>1 DEF Unescaped
<1> HIDE DEF rest
<1>9. FromPath(url) \in {Throws, Parsed(<<r[1]>>, <<>>, <<r[2]>>)}
  <2>1. Find1(rest, {"/"}, 1) = 2
    <3>1. rest[2] \in {"/"} /\ \A k \in 1..(2 - 1) : rest[k] \notin {"/"}
      <4>1. \A k \in 1..(2 - 1) : k = 1
        OBVIOUS
      <4> QED BY <4>1, <1>2, <1>7
    <3>2. Len(rest) \in Nat /\ 1 \in Nat /\ 2 \in 1..Len(rest)
      BY <1>7
    <3> QED BY <3>1, <3>2, FindIs
  <2>2. Find1(rest, {"@"}, 1) = 4
    <3>1. \A k \in 1..Len(rest) : rest[k] \notin {"@"}
      BY <1>2, <1>7
    <3>2. Find1(rest, {"@"}, 1) = Len(rest) + 1
      BY <3>1, FindNone
    <3> QED BY <1>7, <3>2
  <2>3. Find1(rest, {"/", "?"}, 3) = 4
    <3>1. \A k \in 3..Len(rest) : rest[k] \notin {"/", "?"}
      BY <1>2, <1>7
    <3>2. Find1(rest, {"/", "?"}, 3) = Len(rest) + 1
      BY <3>1, FindNone
    <3> QED BY <1>7, <3>2
  <2>4. EndOfName(rest, 4) = 4
    BY <1>2, <1>7 DEF EndOfName
  <2>5. SubSeq(rest, 3, 3) = <<r[2]>> /\ SubSeq(rest, 1, 1) = <<r[1]>>
    <3>1. 3 \in 1..Len(rest) /\ 1 \in 1..Len(rest)
      BY <1>7
    <3> QED BY <1>7, <3>1, OneOf
  <2>6. Width(url) \in Nat /\ Width(url) >= 3 /\ Width(rest) \in Nat /\ Width(rest) >= 3
    <3>1. Width(url) \in Nat /\ Width(url) >= Len(url)
      BY <1>1, AtLeastSoWide
    <3>2. Width(rest) \in Nat /\ Width(rest) >= Len(rest)
      BY <1>7, AtLeastSoWide
    <3>3. Width(url) \in Nat /\ Width(rest) \in Nat
      BY <3>1, <3>2
    <3> QED BY <1>1, <1>7, <3>1, <3>2
  <2>7. 2 + 1 = 3 /\ 4 - 1 = 3 /\ 2 - 1 = 1
    OBVIOUS
  <2> DEFINE owner == SubSeq(rest, 1, (IF 4 > Len(rest) THEN 2 ELSE 4) - 1)
             instance == IF 4 > Len(rest) THEN <<>> ELSE Foreign(SubSeq(rest, 4 + 1, 2 - 1))
  <2>8. FromPath(url) =
          IF Width(url) < 3 THEN Invalid(<<>>)
          ELSE IF bare = <<>> THEN Throws
          ELSE IF Width(rest) < 3 \/ 2 > Len(rest) \/ (4 <= Len(rest) /\ 4 > 2) THEN Invalid(<<>>)
          ELSE IF 2 = Len(rest) THEN Invalid(instance)
          ELSE IF TooShort(rest, 4) THEN Throws
          ELSE IF SubSeq(rest, 3, 3) = <<>> THEN Invalid(instance)
          ELSE Parsed(owner, instance, SubSeq(rest, 3, 3))
    BY <1>8, <2>1, <2>2, <2>3, <2>4, <2>7, Zenon DEF FromPath, bare
  <2>9. /\ ~(Width(url) < 3) /\ bare # <<>> /\ 2 # Len(rest)
        /\ ~(Width(rest) < 3 \/ 2 > Len(rest) \/ (4 <= Len(rest) /\ 4 > 2)) /\ 4 > Len(rest)
        /\ <<r[2]>> # <<>>
    BY <1>7, <1>8, <2>6
  <2>10. owner = SubSeq(rest, 1, 1) /\ instance = <<>>
    BY <2>7, <2>9
  <2> HIDE DEF owner, instance
  <2> QED BY <2>5, <2>8, <2>9, <2>10
<1>10. IsPage
  <2>1. Find1(bare, {"/"}, 1) = 3
    <3>1. bare[3] \in {"/"} /\ \A k \in 1..(3 - 1) : bare[k] \notin {"/"}
      <4>1. \A k \in 1..(3 - 1) : k = 1 \/ k = 2
        OBVIOUS
      <4> QED BY <4>1, <1>2, <1>6
    <3>2. Len(bare) \in Nat /\ 1 \in Nat /\ 3 \in 1..Len(bare)
      BY <1>6
    <3> QED BY <3>1, <3>2, FindIs
  <2> DEFINE tail == Drop1(bare, 3 - 1)
  <2>2. /\ tail \in Seq(Token) /\ Len(tail) = 2
        /\ tail[1] = "/" /\ tail[2] = r[2]
    BY <1>6 DEF Drop1
  <2> HIDE DEF tail
  <2>3. Find1(tail, {"/"}, 2) = 3 /\ Find1(tail, {"?"}, 1) = 3
    <3>1. \A k \in 2..Len(tail) : tail[k] \notin {"/"}
      BY <1>2, <2>2
    <3>2. \A k \in 1..Len(tail) : tail[k] \notin {"?"}
      BY <1>2, <2>2
    <3>3. Find1(tail, {"/"}, 2) = Len(tail) + 1 /\ Find1(tail, {"?"}, 1) = Len(tail) + 1
      BY <3>1, <3>2, FindNone
    <3> QED BY <2>2, <3>3
  <2>4. Drop1(tail, 3 - 1) = <<>>
    BY <2>2 DEF Drop1
  <2>5. NoSlashes(<<>>) = <<>>
    BY DEF NoSlashes
  <2>6. SubPath(url) = <<>>
    BY <2>1, <2>2, <2>3, <2>4, <2>5 DEF SubPath, bare, tail
  <2>7. Slice(<<>>, 1, 1) = <<>>
    BY DEF Slice
  <2> QED BY <2>6, <2>7 DEF IsPage, url
<1> QED BY <1>3, <1>4, <1>5, <1>9, <1>10 DEF url

(***************************************************************************)
(* How a repository is spelled in a url, and what from_path reads there.   *)
(***************************************************************************)

\* A token that is no separator and of more than one character makes a url wider.
LEMMA WiderThanItsTokens ==
    ASSUME NEW S, NEW url \in Seq(S), NEW i \in 1..Len(url),
           url[i] \notin Separator, url[i] \notin Terse
    PROVE  Width(url) \in Nat /\ Width(url) >= Len(url) + 1
<1> DEFINE two == {j \in DOMAIN url : url[j] \notin Separator \cup Terse}
           three == {j \in DOMAIN url : url[j] \notin Separator \cup Terse \cup Short}
<1>1. IsFiniteSet(1..Len(url)) /\ DOMAIN url = 1..Len(url) /\ Len(url) \in Nat
  BY FS_Interval, LenProperties
<1>2. IsFiniteSet(two) /\ IsFiniteSet(three)
  BY <1>1, FS_Subset
<1>3. i \in two
  BY <1>1
<1> HIDE DEF two, three
<1>4. Cardinality(two) \in Nat /\ Cardinality(two) # 0 /\ Cardinality(three) \in Nat
  BY <1>2, <1>3, FS_CardinalityType, FS_EmptySet
<1>5. Width(url) = Len(url) + Cardinality(two) + Cardinality(three)
  BY DEF Width, two, three
<1> QED BY <1>1, <1>4, <1>5

\* The tokens of a url without slashes and '@' before it, of a repository n of an owner o:
\* the owner, the instance, a '/', the name, ".git", and then what is below it.
Reads(url, o, n, slash, end) ==
    /\ url \in Seq(Token) /\ url[1] = o
    /\ slash = 2 \/ (slash = 4 /\ url[2] = "@" /\ url[3] \in {Here, Away})
    /\ url[slash] = "/" /\ url[slash + 1] = n
    /\ end = slash + 2 \/ (end = slash + 3 /\ url[slash + 2] = ".git")
    /\ end <= Len(url) + 1
    /\ end <= Len(url) => url[end] \in {"/", "?"}
    /\ \A k \in (slash + 1)..Len(url) : url[k] = "@" => url[k - 1] = "?"

\* There is an '@' below it.
AtBehind(url, slash) == \E k \in (slash + 1)..Len(url) : url[k] = "@"

InstanceOf(url, slash) == IF slash = 2 THEN <<>> ELSE Foreign(<<url[3]>>)

\* from_path reads the repository, but when owner and name have one character each and
\* there is nothing else before the end of the name, or when there is an '@' below it and
\* none before it.
LEMMA ReadsRepo ==
    ASSUME NEW full \in Seq(Token), Len(full) >= 3, NoSlashes(full) # <<>>,
           NEW o, NEW n, NEW slash, NEW end,
           Reads(Unescaped(NoSlashes(full)), o, n, slash, end),
           o \notin {"/", "?", "@", ".git"}, n \notin {"/", "?", "@", ".git"}
    PROVE  \/ FromPath(full) = Throws /\ o \in Terse /\ n \in Terse /\ slash = 2
           \/ /\ FromPath(full) = Invalid(<<>>) /\ slash = 2
              /\ AtBehind(Unescaped(NoSlashes(full)), slash)
           \/ FromPath(full)
                 = Parsed(<<o>>, InstanceOf(Unescaped(NoSlashes(full)), slash), <<n>>)
<1> DEFINE url == Unescaped(NoSlashes(full))
<1>0. Reads(url, o, n, slash, end)
  OBVIOUS
<1> HIDE DEF url
<1>1. /\ url \in Seq(Token) /\ url[1] = o
      /\ slash = 2 \/ (slash = 4 /\ url[2] = "@" /\ url[3] \in {Here, Away})
      /\ url[slash] = "/" /\ url[slash + 1] = n
      /\ end = slash + 2 \/ (end = slash + 3 /\ url[slash + 2] = ".git")
      /\ end <= Len(url) + 1
      /\ end <= Len(url) => url[end] \in {"/", "?"}
  BY <1>0 DEF Reads
<1>2. Here \notin {"/", "?", "@"} /\ Away \notin {"/", "?", "@"}
  BY RoutesAssumption DEF Separator
<1>3. slash \in Nat /\ end \in Nat /\ Len(url) \in Nat /\ Len(url) >= slash + 1 /\ Len(url) >= 3
  BY <1>1
<1>4. Find1(url, {"/"}, 1) = slash
  <2>1. url[slash] \in {"/"} /\ \A k \in 1..(slash - 1) : url[k] \notin {"/"}
    <3>1. CASE slash = 2
      <4>1. \A k \in 1..(slash - 1) : k = 1
        BY <3>1
      <4> QED BY <4>1, <1>1
    <3>2. CASE slash = 4 /\ url[2] = "@" /\ url[3] \in {Here, Away}
      <4>1. \A k \in 1..(slash - 1) : k = 1 \/ k = 2 \/ k = 3
        BY <3>2
      <4> QED BY <4>1, <1>1, <1>2, <3>2
    <3> QED BY <1>1, <3>1, <3>2
  <2>2. 1 \in Nat /\ slash \in 1..Len(url)
    BY <1>1, <1>3
  <2> QED BY <1>3, <2>1, <2>2, FindIs
<1>5. Find1(url, {"/", "?"}, slash + 1) = end
  <2>1. \A k \in (slash + 1)..(end - 1) : url[k] \notin {"/", "?"}
    <3>1. ASSUME NEW k \in (slash + 1)..(end - 1)
          PROVE  k = slash + 1 \/ (k = slash + 2 /\ end = slash + 3)
      <4>1. end = slash + 2 \/ end = slash + 3
        BY <1>1
      <4>2. slash \in Int /\ end \in Int /\ k \in Int /\ slash + 1 <= k /\ k <= end - 1
        BY <1>3
      <4> QED BY <4>1, <4>2
    <3>2. end = slash + 3 => url[slash + 2] = ".git"
      BY <1>1, <1>3
    <3>3. n \notin {"/", "?"} /\ ".git" \notin {"/", "?"}
      OBVIOUS
    <3>4. ASSUME NEW k \in (slash + 1)..(end - 1) PROVE url[k] \notin {"/", "?"}
      <4>1. url[k] = n \/ url[k] = ".git"
        BY <1>1, <3>1, <3>2
      <4> QED BY <3>3, <4>1
    <3> QED BY <3>4
  <2>2. CASE end <= Len(url)
    <3>1. slash + 1 \in Nat /\ end \in (slash + 1)..Len(url) /\ url[end] \in {"/", "?"}
      BY <1>1, <1>3, <2>2
    <3> QED BY <1>3, <2>1, <3>1, FindIs
  <2>3. CASE end = Len(url) + 1
    <3>1. \A k \in (slash + 1)..Len(url) : url[k] \notin {"/", "?"}
      BY <1>3, <2>1, <2>3
    <3> QED BY <2>3, <3>1, FindNone
  <2> QED BY <1>1, <1>3, <2>2, <2>3
<1> DEFINE at == Find1(url, {"@"}, 1)
<1>6. IF slash = 2 THEN at > Len(url) \/ (at > slash /\ AtBehind(url, slash)) ELSE at = 2
  <2>1. CASE slash = 2
    <3>1. at \in Nat /\ (at <= Len(url) => at >= 1 /\ url[at] \in {"@"})
      <4>1. 1 \in Nat
        OBVIOUS
      <4> QED BY <1>3, <4>1, FindFinds
    <3> HIDE DEF at
    <3>2. (at # 1 /\ at # 2) \/ at > Len(url)
      BY <1>1, <1>3, <2>1, <3>1
    <3>3. at > Len(url) \/ (at \in (slash + 1)..Len(url) /\ url[at] = "@")
      BY <1>3, <2>1, <3>1, <3>2
    <3> QED BY <1>3, <2>1, <3>1, <3>3 DEF AtBehind
  <2>2. CASE slash # 2
    <3>1. url[2] \in {"@"} /\ \A k \in 1..(2 - 1) : url[k] \notin {"@"}
      <4>1. \A k \in 1..(2 - 1) : k = 1
        OBVIOUS
      <4> QED BY <1>1, <2>2, <4>1
    <3>2. 1 \in Nat /\ 2 \in 1..Len(url)
      BY <1>3
    <3>3. at = 2
      BY <1>3, <3>1, <3>2, FindIs
    <3> QED BY <2>2, <3>3
  <2> QED BY <2>1, <2>2
<1>7. EndOfName(url, end) = slash + 2
  <2>1. CASE end = slash + 2
    <3>1. end - 1 = slash + 1
      BY <1>3, <2>1
    <3>2. url[end - 1] # ".git"
      BY <1>1, <3>1
    <3> QED BY <2>1, <3>2 DEF EndOfName
  <2>2. CASE end = slash + 3
    <3>1. end - 1 = slash + 2
      BY <1>3, <2>2
    <3>2. url[end - 1] = ".git"
      BY <1>1, <1>3, <2>2, <3>1
    <3> QED BY <3>1, <3>2 DEF EndOfName
  <2> QED BY <1>1, <2>1, <2>2
<1>8. SubSeq(url, slash + 1, EndOfName(url, end) - 1) = <<n>>
  <2>1. EndOfName(url, end) - 1 = slash + 1 /\ slash + 1 \in 1..Len(url)
    BY <1>3, <1>7
  <2>2. SubSeq(url, slash + 1, slash + 1) = <<url[slash + 1]>>
    BY <1>1, <2>1, OneOf
  <2> QED BY <1>1, <2>1, <2>2
<1>9. SubSeq(url, 1, 1) = <<o>>
  <2>1. 1 \in 1..Len(url)
    BY <1>3
  <2> QED BY <1>1, <2>1, OneOf
<1>10. slash = 4 => SubSeq(url, 3, 3) = <<url[3]>>
  <2>1. 3 \in 1..Len(url)
    BY <1>3
  <2> QED BY <1>1, <2>1, OneOf
<1>11. Width(full) \in Nat /\ Width(full) >= 3 /\ Width(url) \in Nat /\ Width(url) >= 3
  <2>1. Width(full) \in Nat /\ Width(full) >= Len(full) /\ Len(full) \in Nat
    BY AtLeastSoWide, LenProperties
  <2>2. Width(url) \in Nat /\ Width(url) >= Len(url)
    BY <1>1, AtLeastSoWide
  <2> QED BY <1>3, <2>1, <2>2
<1> DEFINE F == FromPath(full)
<1>12. \/ F = IF TooShort(url, end) THEN Throws ELSE Parsed(<<o>>, InstanceOf(url, slash), <<n>>)
       \/ F = Invalid(<<>>) /\ slash = 2 /\ AtBehind(url, slash)
  <2> DEFINE owner == SubSeq(url, 1, (IF at > Len(url) THEN slash ELSE at) - 1)
             instance == IF at > Len(url) THEN <<>> ELSE Foreign(SubSeq(url, at + 1, slash - 1))
  <2>1. F =
          IF Width(full) < 3 THEN Invalid(<<>>)
          ELSE IF NoSlashes(full) = <<>> THEN Throws
          ELSE IF Width(url) < 3 \/ slash > Len(url) \/ (at <= Len(url) /\ at > slash)
               THEN Invalid(<<>>)
          ELSE IF slash = Len(url) THEN Invalid(instance)
          ELSE IF TooShort(url, end) THEN Throws
          ELSE IF <<n>> = <<>> THEN Invalid(instance)
          ELSE Parsed(owner, instance, <<n>>)
    BY <1>4, <1>5, <1>8, Zenon DEF FromPath, url
  <2>2. /\ ~(Width(full) < 3) /\ ~(Width(url) < 3) /\ ~(slash > Len(url)) /\ slash # Len(url)
        /\ <<n>> # <<>>
    BY <1>3, <1>11
  <2>3. CASE slash = 2 /\ at > Len(url)
    <3>1. owner = <<o>> /\ instance = <<>> /\ ~(at <= Len(url))
      <4>1. 2 - 1 = 1 /\ at \in Nat
        BY <1>3, FindFinds
      <4> HIDE DEF at
      <4> QED BY <1>3, <1>9, <2>3, <4>1
    <3>2. InstanceOf(url, slash) = <<>>
      BY <2>3 DEF InstanceOf
    <3> HIDE DEF owner, instance, F, at
    <3> QED BY <2>1, <2>2, <3>1, <3>2, Zenon
  <2>4. CASE slash = 4
    <3>1. slash - 1 = 3 /\ at - 1 = 1 /\ at + 1 = 3 /\ ~(at > slash) /\ ~(at > Len(url))
      <4> HIDE DEF at
      <4> QED BY <1>3, <1>6, <2>4
    <3>2. InstanceOf(url, slash) = Foreign(<<url[3]>>)
      BY <2>4 DEF InstanceOf
    <3>3. instance = Foreign(<<url[3]>>) /\ owner = <<o>>
      <4> HIDE DEF at
      <4> QED BY <1>9, <1>10, <2>4, <3>1
    <3> HIDE DEF owner, instance, F, at
    <3> QED BY <2>1, <2>2, <3>1, <3>2, <3>3, Zenon
  <2>5. CASE slash = 2 /\ ~(at > Len(url))
    <3>1. at <= Len(url) /\ at > slash /\ AtBehind(url, slash)
      <4>1. at \in Nat
        BY <1>3, FindFinds
      <4> HIDE DEF at
      <4> QED BY <1>3, <1>6, <2>5, <4>1
    <3> HIDE DEF owner, instance, F, at
    <3> QED BY <2>1, <2>2, <2>5, <3>1, Zenon
  <2> HIDE DEF F, at
  <2> QED BY <1>1, <2>3, <2>4, <2>5
<1>13. TooShort(url, end) => o \in Terse /\ n \in Terse /\ slash = 2
  <2> DEFINE named == SubSeq(url, 1, end - 1)
  <2>1. /\ named \in Seq(Token) /\ Len(named) = end - 1
        /\ \A i \in 1..(end - 1) : named[i] = url[i]
    <3>1. 1 \in Int /\ end - 1 \in Int /\ 1 <= end - 1 /\ end - 1 <= Len(url)
      BY <1>1, <1>3
    <3>2. \A k \in 1..(end - 1) : url[k] \in Token
      BY <1>1, <3>1
    <3>3. /\ named \in Seq(Token) /\ Len(named) = IF 1 <= end - 1 THEN end - 1 - 1 + 1 ELSE 0
          /\ \A i \in 1..(end - 1 - 1 + 1) : named[i] = url[1 + i - 1]
      BY <3>1, <3>2, SubSeqProperties
    <3>4. end - 1 - 1 + 1 = end - 1 /\ \A i \in 1..(end - 1) : 1 + i - 1 = i
      BY <1>3
    <3> HIDE DEF named
    <3> QED BY <3>1, <3>3, <3>4
  <2> HIDE DEF named
  <2>2. named[1] = o /\ named[slash + 1] = n /\ Len(named) >= slash + 1 /\ Len(named) \in Nat
    <3>1. 1 \in 1..(end - 1) /\ slash + 1 \in 1..(end - 1)
      BY <1>1, <1>3
    <3> QED BY <1>1, <1>3, <2>1, <3>1
  <2>3. Width(named) \in Nat /\ Width(named) >= Len(named)
    BY <2>1, AtLeastSoWide
  <2>4. o \notin Terse \/ n \notin Terse => Width(named) >= Len(named) + 1
    <3>1. o \notin Separator /\ n \notin Separator
      BY DEF Separator
    <3>2. 1 \in 1..Len(named) /\ slash + 1 \in 1..Len(named)
      BY <1>3, <2>2
    <3> QED BY <2>1, <2>2, <3>1, <3>2, WiderThanItsTokens
  <2>5. TooShort(url, end) <=> Width(named) < 4
    BY DEF TooShort, named
  <2> QED BY <1>1, <1>3, <2>2, <2>3, <2>4, <2>5
<1> QED BY <1>12, <1>13 DEF url

\* What is put behind a url is found there.
LEMMA BehindIs ==
    ASSUME NEW S, NEW s \in Seq(S), NEW t \in Seq(S), NEW i \in 1..Len(t)
    PROVE  (s \o t)[Len(s) + i] = t[i]
<1>1. Len(s) \in Nat /\ Len(t) \in Nat
  BY LenProperties
<1>2. PICK j : j = Len(s) + i
  OBVIOUS
<1>3. j \in 1..(Len(s) + Len(t)) /\ ~(j <= Len(s)) /\ j - Len(s) = i
  BY <1>1, <1>2
<1>4. (s \o t)[j] = IF j <= Len(s) THEN s[j] ELSE t[j - Len(s)]
  BY <1>3, ConcatProperties
<1> QED BY <1>2, <1>3, <1>4

\* Slashes before a url are no part of it.
LEMMA SlashesBefore ==
    ASSUME NEW url \in Seq(Token), url # <<>>, url[1] # "/"
    PROVE  /\ NoSlashes(url) = url
           /\ NoSlashes(<<"/">> \o url) = url
           /\ NoSlashes(<<"/", "/">> \o url) = url
<1>1. Len(url) \in Nat /\ Len(url) >= 1
  BY EmptySeq
<1>2. NoSlashes(url) = url
  <2>1. 1 \in 1..Len(url) /\ \A k \in 1..(1 - 1) : url[k] = "/"
    BY <1>1
  <2>2. NoSlashes(url) = Drop1(url, 1 - 1)
    BY <2>1, NoSlashesIs
  <2>3. 0 \in 0..Len(url) /\ 1 - 1 = 0
    BY <1>1
  <2>4. /\ Drop1(url, 0) \in Seq(Token) /\ Len(Drop1(url, 0)) = Len(url) - 0
        /\ \A k \in 1..(Len(url) - 0) : Drop1(url, 0)[k] = url[0 + k]
    BY <2>3, DropIs
  <2>5. Len(Drop1(url, 0)) = Len(url) /\ \A k \in 1..Len(Drop1(url, 0)) : Drop1(url, 0)[k] = url[k]
    BY <1>1, <2>4
  <2>6. Drop1(url, 0) = url
    BY <2>4, <2>5, SeqEqual
  <2> QED BY <2>2, <2>3, <2>6
<1>3. ASSUME NEW before \in {<<"/">>, <<"/", "/">>} PROVE NoSlashes(before \o url) = url
  <2>1. /\ before \in Seq(Token) /\ Len(before) \in {1, 2}
        /\ \A k \in 1..Len(before) : before[k] = "/"
    <3>1. "/" \in Token
      BY DEF Token
    <3>2. <<"/">> \in Seq(Token) /\ <<"/", "/">> \in Seq(Token)
      BY <3>1
    <3>3. CASE before = <<"/">>
      <4>1. Len(before) = 1 /\ before[1] = "/" /\ \A k \in 1..1 : k = 1
        BY <3>3
      <4> QED BY <3>2, <3>3, <4>1
    <3>4. CASE before = <<"/", "/">>
      <4>1. Len(before) = 2 /\ before[1] = "/" /\ before[2] = "/" /\ \A k \in 1..2 : k = 1 \/ k = 2
        BY <3>4
      <4> QED BY <3>2, <3>4, <4>1
    <3> QED BY <3>3, <3>4
  <2> DEFINE full == before \o url
             m == Len(before)
  <2>2. /\ full \in Seq(Token) /\ Len(full) = Len(before) + Len(url)
        /\ \A i \in 1..(Len(before) + Len(url)) :
              full[i] = IF i <= Len(before) THEN before[i] ELSE url[i - Len(before)]
    BY <2>1, ConcatProperties
  <2> HIDE DEF full, m
  <2>3. m \in Nat /\ Len(full) = m + Len(url) /\ m + 1 \in 1..Len(full) /\ m \in 0..Len(full)
    BY <1>1, <2>1, <2>2 DEF m
  <2>4. full[m + 1] = url[1]
    <3>1. m + 1 \in 1..(Len(before) + Len(url)) /\ ~(m + 1 <= m) /\ m + 1 - m = 1
      BY <2>2, <2>3
    <3> QED BY <2>2, <3>1 DEF m
  <2>5. \A k \in 1..(m + 1 - 1) : full[k] = "/"
    <3> TAKE k \in 1..(m + 1 - 1)
    <3>1. k \in 1..(Len(before) + Len(url)) /\ k <= Len(before) /\ k \in 1..Len(before)
      BY <1>1, <2>3 DEF m
    <3> QED BY <2>1, <2>2, <3>1
  <2>6. NoSlashes(full) = Drop1(full, m + 1 - 1)
    <3>1. PICK j : j = m + 1
      OBVIOUS
    <3>2. j \in 1..Len(full) /\ full[j] # "/" /\ \A k \in 1..(j - 1) : full[k] = "/"
      BY <2>3, <2>4, <2>5, <3>1
    <3>3. NoSlashes(full) = Drop1(full, j - 1)
      BY <2>2, <3>2, NoSlashesIs
    <3>4. j - 1 = m + 1 - 1
      BY <2>3, <3>1
    <3> QED BY <3>3, <3>4, Zenon
  <2>7. /\ Drop1(full, m) \in Seq(Token) /\ Len(Drop1(full, m)) = Len(full) - m
        /\ \A k \in 1..(Len(full) - m) : Drop1(full, m)[k] = full[m + k]
    <3>1. full \in Seq(Token) /\ m \in 0..Len(full)
      BY <2>2, <2>3
    <3> QED BY <3>1, DropIs
  <2>8. Len(Drop1(full, m)) = Len(url)
    BY <1>1, <2>3, <2>7
  <2>9. \A k \in 1..Len(url) : full[m + k] = url[k]
    <3> TAKE k \in 1..Len(url)
    <3>1. m + k \in 1..(Len(before) + Len(url)) /\ ~(m + k <= m) /\ m + k - m = k
      BY <1>1, <2>3 DEF m
    <3> QED BY <2>2, <3>1 DEF m
  <2>10. \A k \in 1..Len(Drop1(full, m)) : Drop1(full, m)[k] = url[k]
    BY <1>1, <2>3, <2>7, <2>8, <2>9
  <2>11. Drop1(full, m) = url
    BY <2>7, <2>8, <2>10, SeqEqual
  <2>12. m + 1 - 1 = m
    BY <2>3
  <2> QED BY <2>6, <2>11, <2>12 DEF full
<1> QED BY <1>2, <1>3

Instances == {<<>>, <<"@", Here>>, <<"@", Away>>}

\* A repository's url without an '@' before it.
Path(r, instance, git, below) == <<r[1]>> \o instance \o <<"/", r[2]>> \o git \o below

\* An owner and a name are tokens and no separators.
LEMMA WordsAreNone ==
    ASSUME NEW r \in Local \X Words
    PROVE  /\ r[1] \in Token /\ r[2] \in Token
           /\ r[1] \notin {"/", "?", "@", ".git"} /\ r[2] \notin {"/", "?", "@", ".git"}
<1>1. r[1] \in Local /\ r[2] \in Words
  OBVIOUS
<1> QED BY <1>1, RoutesAssumption DEF Token, Separator

\* What may follow a repository in a url is a '/' or a query, in which an '@' may stand.
LEMMA BelowIs ==
    ASSUME NEW below \in Below
    PROVE  /\ below \in Seq(Token) /\ Len(below) \in Nat
           /\ Len(below) >= 1 => below[1] \in {"/", "?"}
           /\ \A k \in 1..Len(below) : below[k] = "@" => k > 1 /\ below[k - 1] = "?" /\ below[2] = "@"
<1>1. below \in Seq(Token)
  <2>1. /\ "/" \in Token /\ "?" \in Token /\ "tab" \in Token /\ "commit" \in Token
        /\ "c0ffee" \in Token /\ "none" \in Token /\ "tickets" \in Token /\ "info" \in Token
        /\ "git-receive-pack" \in Token /\ "refs" \in Token /\ "@" \in Token
    BY DEF Token
  <2>2. Below \subseteq Seq(Token)
    BY <2>1 DEF Below
  <2> QED BY <2>2
<1>2. Len(below) \in Nat /\ (Len(below) >= 1 => below[1] \in {"/", "?"})
  BY DEF Below
<1>3. ASSUME NEW k \in 1..Len(below), below[k] = "@"
      PROVE  k > 1 /\ below[k - 1] = "?" /\ below[2] = "@"
  <2> DEFINE Two == {<<>>, <<"?", "tab">>, <<"?", "/">>, <<"/", "tickets">>,
                     <<"/", "git-receive-pack">>}
             Four == {<<"/", "commit", "/", "c0ffee">>, <<"/", "commit", "/", "none">>,
                      <<"/", "info", "/", "refs">>}
             Six == {<<"/", "info", "/", "refs", "?", "git-receive-pack">>}
  <2>1. Below = Two \cup Four \cup Six \cup {<<"?", "@">>}
    BY DEF Below
  <2>2. \A s \in Two : \A i \in 1..Len(s) : s[i] # "@"
    OBVIOUS
  <2>3. \A s \in Four : \A i \in 1..Len(s) : s[i] # "@"
    OBVIOUS
  <2>4. \A s \in Six : \A i \in 1..Len(s) : s[i] # "@"
    <3> DEFINE six == <<"/", "info", "/", "refs", "?", "git-receive-pack">>
    <3>1. /\ six[1] # "@" /\ six[2] # "@" /\ six[3] # "@" /\ six[4] # "@" /\ six[5] # "@"
          /\ six[6] # "@" /\ Len(six) = 6
      OBVIOUS
    <3>2. \A i \in 1..6 : i = 1 \/ i = 2 \/ i = 3 \/ i = 4 \/ i = 5 \/ i = 6
      OBVIOUS
    <3> HIDE DEF six
    <3>3. \A i \in 1..Len(six) : six[i] # "@"
      BY <3>1, <3>2
    <3> QED BY <3>3 DEF six
  <2>5. below = <<"?", "@">>
    <3> HIDE DEF Two, Four, Six
    <3> QED BY <1>3, <2>1, <2>2, <2>3, <2>4
  <2>6. k = 2
    BY <1>3, <2>5
  <2> QED BY <2>5, <2>6
<1> QED BY <1>1, <1>2, <1>3

\* Such a url reads as that of the repository.
LEMMA PathReads ==
    ASSUME NEW r \in Local \X Words, NEW instance \in Instances, NEW git \in {<<>>, <<".git">>},
           NEW below \in Below
    PROVE  LET url == Path(r, instance, git, below)
               slash == Len(instance) + 2 IN
           /\ Reads(url, r[1], r[2], slash, slash + 2 + Len(git))
           /\ url # <<>> /\ Len(url) >= 3
           /\ slash = 4 => url[3] = instance[2]
<1> DEFINE slash == Len(instance) + 2
           end == slash + 2 + Len(git)
           a == <<r[1]>> \o instance
           b == a \o <<"/", r[2]>>
           c == b \o git
           url == c \o below
<1>1. /\ r[1] \in Token /\ r[2] \in Token
      /\ r[1] \notin {"/", "?", "@", ".git"} /\ r[2] \notin {"/", "?", "@", ".git"}
  BY WordsAreNone
<1>2. /\ instance \in Seq(Token) /\ Len(instance) \in {0, 2}
      /\ Len(instance) = 2 => instance[1] = "@" /\ instance[2] \in {Here, Away}
  <2>1. Here \in Token /\ Away \in Token /\ "@" \in Token
    BY DEF Token
  <2>2. <<>> \in Seq(Token) /\ <<"@", Here>> \in Seq(Token) /\ <<"@", Away>> \in Seq(Token)
    BY <2>1
  <2>3. instance = <<>> \/ instance = <<"@", Here>> \/ instance = <<"@", Away>>
    BY DEF Instances
  <2>4. instance \in Seq(Token)
    BY <2>2, <2>3
  <2> QED BY <2>3, <2>4
<1>3. /\ git \in Seq(Token) /\ Len(git) \in {0, 1} /\ (Len(git) = 1 => git[1] = ".git")
  <2>1. ".git" \in Token
    BY DEF Token
  <2>2. <<>> \in Seq(Token) /\ <<".git">> \in Seq(Token)
    BY <2>1
  <2>3. CASE git = <<>>
    BY <2>2, <2>3
  <2>4. CASE git = <<".git">>
    BY <2>2, <2>4
  <2> QED BY <2>3, <2>4
<1>4. /\ below \in Seq(Token) /\ Len(below) \in Nat
      /\ Len(below) >= 1 => below[1] \in {"/", "?"}
      /\ \A k \in 1..Len(below) : below[k] = "@" => k > 1 /\ below[k - 1] = "?"
  BY BelowIs
<1>5. /\ a \in Seq(Token) /\ Len(a) = slash - 1 /\ a[1] = r[1]
      /\ slash = 4 => a[2] = "@" /\ a[3] = instance[2]
  <2> DEFINE owner == <<r[1]>>
  <2>1. owner \in Seq(Token) /\ Len(owner) = 1 /\ owner[1] = r[1]
    BY <1>1
  <2> HIDE DEF owner
  <2>2. /\ owner \o instance \in Seq(Token)
        /\ Len(owner \o instance) = Len(owner) + Len(instance)
        /\ \A i \in 1..(Len(owner) + Len(instance)) :
              (owner \o instance)[i] = IF i <= Len(owner) THEN owner[i] ELSE instance[i - Len(owner)]
    BY <1>2, <2>1, ConcatProperties
  <2>3. /\ Len(owner \o instance) = 1 + Len(instance)
        /\ (owner \o instance)[1] = r[1]
    BY <1>2, <2>1, <2>2
  <2>4. Len(instance) = 2 => (owner \o instance)[2] = instance[1] /\ (owner \o instance)[3] = instance[2]
    BY <1>2, <2>1, <2>2
  <2> QED BY <1>2, <2>2, <2>3, <2>4 DEF owner
<1> HIDE DEF a
<1>6. slash \in {2, 4}
  <2> DEFINE m == Len(instance)
  <2>1. m = 0 \/ m = 2
    BY <1>2
  <2>2. slash = m + 2
    OBVIOUS
  <2> HIDE DEF m, slash
  <2> QED BY <2>1, <2>2
<1> HIDE DEF slash
<1>7. /\ b \in Seq(Token) /\ Len(b) = slash + 1
      /\ \A i \in 1..(slash - 1) : b[i] = a[i]
      /\ b[slash] = "/" /\ b[slash + 1] = r[2]
  <2> DEFINE name == <<"/", r[2]>>
  <2>1. name \in Seq(Token) /\ Len(name) = 2 /\ name[1] = "/" /\ name[2] = r[2]
    <3>1. "/" \in Token
      BY DEF Token
    <3> QED BY <1>1, <3>1
  <2> HIDE DEF name
  <2>2. /\ a \o name \in Seq(Token)
        /\ Len(a \o name) = Len(a) + Len(name)
        /\ \A i \in 1..(Len(a) + Len(name)) :
              (a \o name)[i] = IF i <= Len(a) THEN a[i] ELSE name[i - Len(a)]
    BY <1>5, <2>1, ConcatProperties
  <2>3. /\ slash \in 1..(Len(a) + Len(name)) /\ slash + 1 \in 1..(Len(a) + Len(name))
        /\ slash - Len(a) = 1 /\ slash + 1 - Len(a) = 2
        /\ ~(slash <= Len(a)) /\ ~(slash + 1 <= Len(a))
        /\ Len(a) + Len(name) = slash + 1
        /\ \A i \in 1..(slash - 1) : i \in 1..(Len(a) + Len(name)) /\ i <= Len(a)
    BY <1>5, <1>6, <2>1
  <2> QED BY <2>1, <2>2, <2>3 DEF name
<1> HIDE DEF b
<1>8. end \in Nat /\ end = slash + 2 + Len(git) /\ end - 1 \in Nat /\ end >= 4
  BY <1>3, <1>6
<1>9. /\ c \in Seq(Token) /\ Len(c) = end - 1
      /\ \A i \in 1..(slash + 1) : c[i] = b[i]
      /\ end = slash + 3 => c[slash + 2] = ".git"
  <2>0. /\ b \o git \in Seq(Token) /\ Len(b \o git) = Len(b) + Len(git)
        /\ \A i \in 1..(Len(b) + Len(git)) :
              (b \o git)[i] = IF i <= Len(b) THEN b[i] ELSE git[i - Len(b)]
    <3>1. b \in Seq(Token) /\ git \in Seq(Token)
      BY <1>3, <1>7
    <3> QED BY <3>1, ConcatProperties
  <2>1. /\ c \in Seq(Token) /\ Len(c) = Len(b) + Len(git)
        /\ \A i \in 1..(Len(b) + Len(git)) : c[i] = IF i <= Len(b) THEN b[i] ELSE git[i - Len(b)]
    BY <2>0, Zenon
  <2> HIDE DEF c
  <2>2. Len(b) + Len(git) = end - 1
    BY <1>3, <1>6, <1>7
  <2>3. \A i \in 1..(slash + 1) : i \in 1..(Len(b) + Len(git)) /\ i <= Len(b)
    BY <1>3, <1>6, <1>7
  <2>4. ASSUME end = slash + 3 PROVE c[slash + 2] = ".git"
    <3>1. Len(git) = 1 /\ git[1] = ".git"
      BY <1>3, <1>6, <2>4
    <3>2. /\ slash + 2 \in 1..(Len(b) + Len(git)) /\ ~(slash + 2 <= Len(b))
          /\ slash + 2 - Len(b) = 1
      BY <1>6, <1>7, <3>1
    <3> QED BY <2>1, <3>1, <3>2
  <2> QED BY <2>1, <2>2, <2>3, <2>4
<1> HIDE DEF c, end
<1>10. /\ url \in Seq(Token) /\ Len(url) = end - 1 + Len(below)
       /\ \A i \in 1..(end - 1) : url[i] = c[i]
       /\ \A i \in 1..Len(below) : url[end - 1 + i] = below[i]
  <2>0. /\ c \o below \in Seq(Token) /\ Len(c \o below) = Len(c) + Len(below)
        /\ \A i \in 1..(Len(c) + Len(below)) :
              (c \o below)[i] = IF i <= Len(c) THEN c[i] ELSE below[i - Len(c)]
    <3>1. c \in Seq(Token) /\ below \in Seq(Token)
      BY <1>4, <1>9
    <3> QED BY <3>1, ConcatProperties
  <2>1. /\ url \in Seq(Token) /\ Len(url) = Len(c) + Len(below)
        /\ \A i \in 1..(Len(c) + Len(below)) :
              url[i] = IF i <= Len(c) THEN c[i] ELSE below[i - Len(c)]
    BY <2>0, Zenon
  <2> HIDE DEF url
  <2>2. \A i \in 1..(end - 1) : i \in 1..(Len(c) + Len(below)) /\ i <= Len(c)
    BY <1>4, <1>8, <1>9
  <2>3. ASSUME NEW i \in 1..Len(below) PROVE url[end - 1 + i] = below[i]
    <3>0. end - 1 \in Nat /\ Len(c) = end - 1 /\ Len(below) \in Nat
      BY <1>4, <1>8, <1>9
    <3>1. c \in Seq(Token) /\ below \in Seq(Token)
      BY <1>4, <1>9
    <3>2. (c \o below)[Len(c) + i] = below[i]
      BY <3>1, BehindIs
    <3>3. url[Len(c) + i] = below[i]
      BY <3>2 DEF url
    <3>4. Len(c) + i = end - 1 + i
      BY <3>0
    <3> QED BY <3>3, <3>4, Zenon
  <2> QED BY <1>9, <2>1, <2>2, <2>3
<1>11. url = Path(r, instance, git, below)
  BY DEF Path, a, b, c
<1> HIDE DEF url
<1>12. /\ \A i \in 1..(slash - 1) : url[i] = a[i]
       /\ url[slash] = "/" /\ url[slash + 1] = r[2]
       /\ end = slash + 3 => url[slash + 2] = ".git"
  <2>1. /\ \A i \in 1..(slash - 1) : i \in 1..(end - 1) /\ i \in 1..(slash + 1)
        /\ slash \in 1..(end - 1) /\ slash \in 1..(slash + 1)
        /\ slash + 1 \in 1..(end - 1) /\ slash + 1 \in 1..(slash + 1)
        /\ end = slash + 3 => slash + 2 \in 1..(end - 1)
    BY <1>3, <1>6, <1>8
  <2> QED BY <1>7, <1>9, <1>10, <2>1
<1>13. /\ url[1] = r[1] /\ (slash = 4 => url[2] = "@" /\ url[3] = instance[2])
  <2>1. 1 \in 1..(slash - 1) /\ (slash = 4 => 2 \in 1..(slash - 1) /\ 3 \in 1..(slash - 1))
    BY <1>6
  <2> QED BY <1>5, <1>12, <2>1
<1>14. slash = 2 \/ (slash = 4 /\ url[2] = "@" /\ url[3] \in {Here, Away})
  <2>1. slash = 4 => Len(instance) = 2
    BY <1>2 DEF slash
  <2> QED BY <1>2, <1>6, <1>13, <2>1
<1>15. (end = slash + 2 \/ (end = slash + 3 /\ url[slash + 2] = ".git")) /\ end <= Len(url) + 1
  <2>1. Len(git) = 0 \/ Len(git) = 1
    BY <1>3
  <2> DEFINE g == Len(git)
  <2>2. end = slash + 2 \/ end = slash + 3
    <3>1. (g = 0 \/ g = 1) /\ end = slash + 2 + g /\ (slash = 2 \/ slash = 4)
      BY <1>6, <1>8, <2>1
    <3> HIDE DEF g
    <3> QED BY <3>1
  <2>3. end <= Len(url) + 1
    BY <1>4, <1>8, <1>10
  <2> QED BY <1>12, <2>2, <2>3, Zenon
<1>16. end <= Len(url) => url[end] \in {"/", "?"}
  <2> SUFFICES ASSUME end <= Len(url) PROVE url[end] \in {"/", "?"}
    OBVIOUS
  <2>1. Len(below) >= 1 /\ 1 \in 1..Len(below) /\ end - 1 + 1 = end
    BY <1>4, <1>8, <1>10
  <2>2. url[end] = below[1]
    BY <1>10, <2>1
  <2> QED BY <1>4, <2>1, <2>2
<1>17. \A k \in (slash + 1)..Len(url) : url[k] = "@" => url[k - 1] = "?"
  <2> SUFFICES ASSUME NEW k \in (slash + 1)..Len(url), url[k] = "@" PROVE url[k - 1] = "?"
    OBVIOUS
  <2>1. CASE k >= end
    <3>0. PICK i : i = k - (end - 1)
      OBVIOUS
    <3>1. i \in 1..Len(below) /\ end - 1 + i = k
      BY <1>4, <1>6, <1>8, <1>10, <2>1, <3>0
    <3>2. url[k] = below[i]
      BY <1>10, <3>1
    <3>3. i > 1 /\ below[i - 1] = "?"
      BY <1>4, <3>1, <3>2
    <3>4. PICK j : j = i - 1
      OBVIOUS
    <3>5. j \in 1..Len(below) /\ end - 1 + j = k - 1 /\ below[j] = "?"
      <4>1. i \in Nat /\ i > 1 /\ i <= Len(below) /\ Len(below) \in Nat /\ end \in Nat
        BY <1>4, <1>8, <3>1, <3>3
      <4>2. j \in 1..Len(below) /\ end - 1 + j = k - 1
        BY <3>1, <3>4, <4>1
      <4> QED BY <3>3, <3>4, <4>2
    <3> QED BY <1>10, <3>5
  <2>2. CASE k < end
    <3>0. end = slash + 2 \/ end = slash + 3
      BY <1>15
    <3>1. k = slash + 1 \/ (k = slash + 2 /\ end = slash + 3)
      BY <1>6, <1>8, <2>2, <3>0
    <3> QED BY <1>1, <1>12, <3>1
  <2>3. k \in Int /\ end \in Int
    BY <1>6, <1>8
  <2> QED BY <2>1, <2>2, <2>3
<1>18. url # <<>> /\ Len(url) >= 3
  BY <1>4, <1>8, <1>10
<1>19. Reads(url, r[1], r[2], slash, end)
  BY <1>10, <1>12, <1>13, <1>14, <1>15, <1>16, <1>17 DEF Reads
<1> QED BY <1>11, <1>13, <1>18, <1>19 DEF slash, end


\* A slice of three tokens.
LEMMA ThreeOf ==
    ASSUME NEW S, NEW url \in Seq(S), NEW i \in 1..Len(url), i + 2 <= Len(url)
    PROVE  Slice(url, i, i + 2) = <<url[i], url[i + 1], url[i + 2]>>
<1>1. i \in Nat /\ Len(url) \in Nat
  BY LenProperties
<1> DEFINE t == SubSeq(url, i, i + 2)
<1>2. i \in Int /\ i + 2 \in Int /\ i <= i + 2 /\ i + 2 - i + 1 = 3 /\ \A k \in i..(i + 2) : url[k] \in S
  BY <1>1
<1>3. /\ t \in Seq(S) /\ Len(t) = IF i <= i + 2 THEN i + 2 - i + 1 ELSE 0
      /\ \A k \in 1..(i + 2 - i + 1) : t[k] = url[i + k - 1]
  BY <1>2, SubSeqProperties
<1>4. t \in Seq(S) /\ Len(t) = 3 /\ t[1] = url[i] /\ t[2] = url[i + 1] /\ t[3] = url[i + 2]
  <2> HIDE DEF t
  <2>1. Len(t) = 3 /\ \A k \in 1..3 : t[k] = url[i + k - 1]
    BY <1>2, <1>3
  <2>2. 1 \in 1..3 /\ 2 \in 1..3 /\ 3 \in 1..3
    OBVIOUS
  <2>3. t[1] = url[i + 1 - 1] /\ t[2] = url[i + 2 - 1] /\ t[3] = url[i + 3 - 1]
    BY <2>1, <2>2
  <2>4. i + 1 - 1 = i /\ i + 2 - 1 = i + 1 /\ i + 3 - 1 = i + 2
    BY <1>1
  <2> QED BY <1>3, <2>1, <2>3, <2>4
<1>5. Slice(url, i, i + 2) = t
  BY <1>1 DEF Slice
<1> HIDE DEF t
<1>6. t = <<url[i], url[i + 1], url[i + 2]>>
  BY <1>4
<1> QED BY <1>5, <1>6

Ats == {<<>>, <<"@">>}

\* What a repository's url is made of.
LEMMA SpelledIs ==
    ASSUME NEW r \in Local \X Words, NEW spelled \in Spelled(r), NEW below \in Below
    PROVE  \E ats \in Ats, instance \in Instances, git \in {<<>>, <<".git">>} :
              spelled \o below = ats \o Path(r, instance, git, below)
<1> DEFINE Url(ats, git, instance) == ats \o <<r[1]>> \o instance \o <<"/", r[2]>> \o git
           Gits == {<<>>, <<".git">>}
<1>1. Spelled(r) = {Url(ats, git, instance) : ats \in Ats, git \in Gits, instance \in Instances}
  BY DEF Spelled, Ats, Instances
<1> HIDE DEF Url, Gits
<1>2. PICK ats \in Ats, git \in Gits, instance \in Instances : spelled = Url(ats, git, instance)
  BY <1>1
<1> DEFINE owner == <<r[1]>>
           name == <<"/", r[2]>>
<1>3. ats \in Seq(Token) /\ owner \in Seq(Token) /\ name \in Seq(Token)
  <2>1. r[1] \in Token /\ r[2] \in Token /\ "/" \in Token /\ "@" \in Token
    BY WordsAreNone DEF Token
  <2>2. <<>> \in Seq(Token) /\ <<"@">> \in Seq(Token) /\ owner \in Seq(Token) /\ name \in Seq(Token)
    BY <2>1
  <2> HIDE DEF owner, name
  <2> QED BY <2>2 DEF Ats
<1>4. instance \in Seq(Token) /\ git \in Seq(Token) /\ below \in Seq(Token)
  <2>1. Here \in Token /\ Away \in Token /\ "@" \in Token /\ ".git" \in Token
    BY DEF Token
  <2>2. /\ <<>> \in Seq(Token) /\ <<".git">> \in Seq(Token)
        /\ <<"@", Here>> \in Seq(Token) /\ <<"@", Away>> \in Seq(Token)
    BY <2>1
  <2>3. git = <<>> \/ git = <<".git">>
    BY DEF Gits
  <2>4. instance = <<>> \/ instance = <<"@", Here>> \/ instance = <<"@", Away>>
    BY DEF Instances
  <2> QED BY <2>2, <2>3, <2>4, BelowIs, Zenon
<1>5. spelled = ats \o owner \o instance \o name \o git
  BY <1>2 DEF Url
<1>6. Path(r, instance, git, below) = owner \o instance \o name \o git \o below
  BY DEF Path
<1> HIDE DEF owner, name
<1>7. \A s, t, u \in Seq(Token) : (s \o t) \o u = s \o (t \o u) /\ s \o t \in Seq(Token)
  BY ConcatAssociative, ConcatProperties
<1> DEFINE a == owner \o instance
           b == a \o name
           c == b \o git
<1>8. a \in Seq(Token) /\ (ats \o owner) \o instance = ats \o a
  <2>1. ats \in Seq(Token) /\ owner \in Seq(Token) /\ instance \in Seq(Token)
    BY <1>3, <1>4
  <2> QED BY <2>1, ConcatAssociative, ConcatProperties
<1> HIDE DEF a
<1>9. b \in Seq(Token) /\ (ats \o a) \o name = ats \o b
  BY <1>3, <1>7, <1>8
<1> HIDE DEF b
<1>10. c \in Seq(Token) /\ (ats \o b) \o git = ats \o c
  <2>1. ats \in Seq(Token) /\ b \in Seq(Token) /\ git \in Seq(Token)
    BY <1>3, <1>4, <1>9
  <2> QED BY <2>1, ConcatAssociative, ConcatProperties
<1> HIDE DEF c
<1>11. (ats \o c) \o below = ats \o (c \o below)
  <2>1. ats \in Seq(Token) /\ c \in Seq(Token) /\ below \in Seq(Token)
    BY <1>3, <1>4, <1>10
  <2> QED BY <2>1, ConcatAssociative
<1>12. spelled = ats \o c
  BY <1>5, <1>8, <1>9, <1>10
<1>13. Path(r, instance, git, below) = c \o below
  BY <1>6 DEF a, b, c
<1>14. git \in {<<>>, <<".git">>}
  BY DEF Gits
<1> QED BY <1>11, <1>12, <1>13, <1>14

\* There is an '@' in the query of a url.
AtIn(url) == \E i, j \in DOMAIN url : i < j /\ url[i] = "?" /\ url[j] = "@"

\* from_path takes such a url for the repository, here or on the other instance if that
\* is in the url, unless it ends the server or has an '@' in its query.
LEMMA RepoIsRead ==
    ASSUME NEW r \in Local \X Words, NEW spelled \in Spelled(r), NEW below \in Below,
           NEW before \in {<<"/">>, <<"/", "/">>}
    PROVE  LET full == before \o (spelled \o below) IN
           /\ full \in Seq(Token)
           /\ \/ FromPath(full) = Parsed(<<r[1]>>, <<>>, <<r[2]>>)
              \/ FromPath(full) = Parsed(<<r[1]>>, <<Away>>, <<r[2]>>) /\ Away \in Tokens(full)
              \/ FromPath(full) = Invalid(<<>>) /\ AtIn(full)
              \/ /\ FromPath(full) = Throws /\ r[1] \in Terse /\ r[2] \in Terse
                 /\ \E i \in DOMAIN full : Slice(full, i, i + 2) = <<r[1], "/", r[2]>>
<1> DEFINE full == before \o (spelled \o below)
<1> SUFFICES /\ full \in Seq(Token)
             /\ \/ FromPath(full) = Parsed(<<r[1]>>, <<>>, <<r[2]>>)
                \/ FromPath(full) = Parsed(<<r[1]>>, <<Away>>, <<r[2]>>) /\ Away \in Tokens(full)
                \/ FromPath(full) = Invalid(<<>>) /\ AtIn(full)
                \/ /\ FromPath(full) = Throws /\ r[1] \in Terse /\ r[2] \in Terse
                   /\ \E i \in DOMAIN full : Slice(full, i, i + 2) = <<r[1], "/", r[2]>>
  OBVIOUS
<1>0. full = before \o (spelled \o below)
  OBVIOUS
<1> HIDE DEF full
<1>1. PICK ats \in Ats, instance \in Instances, git \in {<<>>, <<".git">>} :
         spelled \o below = ats \o Path(r, instance, git, below)
  BY SpelledIs
<1> DEFINE url == Path(r, instance, git, below)
           slash == Len(instance) + 2
           end == slash + 2 + Len(git)
           bare == ats \o url
<1>2. Reads(url, r[1], r[2], slash, end) /\ url # <<>> /\ Len(url) >= 3
      /\ (slash = 4 => url[3] = instance[2])
  BY PathReads
<1> HIDE DEF url, slash, end
<1>3. /\ url \in Seq(Token) /\ url[1] = r[1] /\ (slash = 2 \/ slash = 4)
      /\ slash = 4 => url[3] \in {Here, Away}
      /\ url[slash] = "/" /\ url[slash + 1] = r[2]
  BY <1>2 DEF Reads
<1>4. /\ r[1] \notin {"/", "?", "@", ".git"} /\ r[2] \notin {"/", "?", "@", ".git"}
  BY WordsAreNone
<1>5. "/" \in Token /\ "@" \in Token /\ <<"@">> \in Seq(Token)
      /\ <<"/">> \in Seq(Token) /\ <<"/", "/">> \in Seq(Token)
  <2>1. "/" \in Token /\ "@" \in Token
    BY DEF Token
  <2> QED BY <2>1
<1>6. ats \in Seq(Token) /\ before \in Seq(Token) /\ Len(ats) \in Nat /\ Len(before) \in Nat
  <2>1. ats = <<>> \/ ats = <<"@">>
    BY DEF Ats
  <2>2. before = <<"/">> \/ before = <<"/", "/">>
    OBVIOUS
  <2>3. ats \in Seq(Token) /\ before \in Seq(Token)
    BY <1>5, <2>1, <2>2, EmptySeq
  <2> QED BY <2>3, LenProperties
<1>7. bare \in Seq(Token) /\ bare # <<>> /\ bare[1] # "/" /\ Unescaped(bare) = url
  <2>1. CASE ats = <<>>
    <3>1. bare = url
      BY <1>3, <2>1, ConcatEmptySeq
    <3>2. Head(url) = url[1]
      BY <1>2, <1>3
    <3> QED BY <1>2, <1>3, <1>4, <3>1, <3>2 DEF Unescaped
  <2>2. CASE ats = <<"@">>
    <3>1. /\ bare \in Seq(Token) /\ Len(bare) = Len(ats) + Len(url)
          /\ \A i \in 1..(Len(ats) + Len(url)) :
                bare[i] = IF i <= Len(ats) THEN ats[i] ELSE url[i - Len(ats)]
      <4>1. /\ ats \o url \in Seq(Token) /\ Len(ats \o url) = Len(ats) + Len(url)
            /\ \A i \in 1..(Len(ats) + Len(url)) :
                  (ats \o url)[i] = IF i <= Len(ats) THEN ats[i] ELSE url[i - Len(ats)]
        BY <1>3, <1>6, ConcatProperties
      <4> QED BY <4>1, Zenon
    <3> HIDE DEF bare
    <3>2. Len(ats) = 1 /\ ats[1] = "@" /\ Len(url) \in Nat
      BY <1>3, <2>2
    <3>3. Len(bare) = Len(url) + 1 /\ bare[1] = "@"
      BY <3>1, <3>2
    <3>4. bare # <<>> /\ Head(bare) = "@"
      <4>1. bare # <<>>
        BY <3>2, <3>3
      <4> QED BY <3>1, <3>3, <4>1
    <3>5. Tail(bare) = url
      <4>1. /\ Tail(bare) \in Seq(Token) /\ Len(Tail(bare)) = Len(bare) - 1
            /\ \A i \in 1..Len(Tail(bare)) : Tail(bare)[i] = bare[i + 1]
        BY <3>1, <3>4, HeadTailProperties
      <4>2. Len(Tail(bare)) = Len(url)
        BY <3>2, <3>3, <4>1
      <4>3. ASSUME NEW i \in 1..Len(url) PROVE bare[i + 1] = url[i]
        <5>1. bare[Len(ats) + i] = url[i]
          BY <1>3, <1>6, BehindIs DEF bare
        <5>2. Len(ats) + i = i + 1
          BY <3>2
        <5> QED BY <5>1, <5>2, Zenon
      <4>4. \A i \in 1..Len(Tail(bare)) : Tail(bare)[i] = url[i]
        BY <4>1, <4>2, <4>3
      <4> QED BY <1>3, <4>1, <4>2, <4>4, SeqEqual
    <3> QED BY <3>1, <3>3, <3>4, <3>5 DEF Unescaped
  <2> QED BY <2>1, <2>2 DEF Ats
<1>8. full = before \o bare
  BY <1>0, <1>1 DEF url, bare
<1>9. /\ full \in Seq(Token) /\ Len(full) = Len(before) + Len(bare)
  BY <1>6, <1>7, <1>8, ConcatProperties
<1>10. NoSlashes(full) = bare
  <2>1. before = <<"/">> \/ before = <<"/", "/">>
    OBVIOUS
  <2> HIDE DEF bare
  <2> QED BY <1>7, <1>8, <2>1, SlashesBefore
<1> DEFINE m == Len(before) + Len(ats)
<1>11. m \in Nat /\ Len(full) = m + Len(url) /\ Len(url) \in Nat
  <2>1. Len(bare) = Len(ats) + Len(url)
    BY <1>3, <1>6, ConcatProperties
  <2>2. Len(url) \in Nat
    BY <1>3, LenProperties
  <2> HIDE DEF bare
  <2> QED BY <1>6, <1>9, <2>1, <2>2
<1>12. ASSUME NEW i \in 1..Len(url) PROVE full[m + i] = url[i]
  <2>1. bare[Len(ats) + i] = url[i]
    BY <1>3, <1>6, BehindIs
  <2>2. Len(bare) = Len(ats) + Len(url)
    BY <1>3, <1>6, ConcatProperties
  <2> HIDE DEF bare
  <2>3. Len(ats) + i \in 1..Len(bare)
    BY <1>6, <1>11, <2>2
  <2>4. full[Len(before) + (Len(ats) + i)] = bare[Len(ats) + i]
    BY <1>6, <1>7, <1>8, <2>3, BehindIs
  <2>5. Len(before) + (Len(ats) + i) = m + i
    BY <1>6
  <2> QED BY <2>1, <2>4, <2>5, Zenon
<1> HIDE DEF m, bare
<1>13. \/ FromPath(full) = Throws /\ r[1] \in Terse /\ r[2] \in Terse /\ slash = 2
       \/ FromPath(full) = Invalid(<<>>) /\ slash = 2 /\ AtBehind(url, slash)
       \/ FromPath(full) = Parsed(<<r[1]>>, InstanceOf(url, slash), <<r[2]>>)
  <2>1. Len(full) >= 3 /\ NoSlashes(full) # <<>> /\ Unescaped(NoSlashes(full)) = url
    BY <1>2, <1>7, <1>10, <1>11
  <2>2. full \in Seq(Token) /\ Reads(Unescaped(NoSlashes(full)), r[1], r[2], slash, end)
    BY <1>2, <1>9, <2>1
  <2>3. \/ FromPath(full) = Throws /\ r[1] \in Terse /\ r[2] \in Terse /\ slash = 2
        \/ /\ FromPath(full) = Invalid(<<>>) /\ slash = 2
           /\ AtBehind(Unescaped(NoSlashes(full)), slash)
        \/ FromPath(full) = Parsed(<<r[1]>>, InstanceOf(Unescaped(NoSlashes(full)), slash), <<r[2]>>)
    BY <1>4, <2>1, <2>2, ReadsRepo
  <2> QED BY <2>1, <2>3
<1>14. CASE FromPath(full) = Throws /\ r[1] \in Terse /\ r[2] \in Terse /\ slash = 2
  <2>1. m + 1 \in 1..Len(full) /\ m + 1 + 2 <= Len(full) /\ m + 1 + 1 = m + 2 /\ m + 1 + 2 = m + 3
    BY <1>2, <1>11
  <2>2. Slice(full, m + 1, m + 1 + 2) = <<full[m + 1], full[m + 1 + 1], full[m + 1 + 2]>>
    <3>1. PICK i : i = m + 1
      OBVIOUS
    <3>2. i \in 1..Len(full) /\ i + 2 <= Len(full)
      BY <2>1, <3>1
    <3>3. Slice(full, i, i + 2) = <<full[i], full[i + 1], full[i + 2]>>
      BY <1>9, <3>2, ThreeOf
    <3> QED BY <3>1, <3>3
  <2>3. 1 \in 1..Len(url) /\ 2 \in 1..Len(url) /\ 3 \in 1..Len(url)
    BY <1>2, <1>11
  <2>4. full[m + 1] = r[1] /\ full[m + 2] = "/" /\ full[m + 3] = r[2]
    <3>1. full[m + 1] = url[1] /\ full[m + 2] = url[2] /\ full[m + 3] = url[3]
      BY <1>12, <2>3
    <3>2. url[2] = "/" /\ url[3] = r[2]
      BY <1>3, <1>14
    <3> QED BY <1>3, <3>1, <3>2
  <2>5. Slice(full, m + 1, m + 1 + 2) = <<r[1], "/", r[2]>>
    BY <2>1, <2>2, <2>4
  <2>6. m + 1 \in DOMAIN full
    BY <1>9, <2>1
  <2> QED BY <1>9, <1>14, <2>5, <2>6
<1>15. CASE FromPath(full) = Parsed(<<r[1]>>, InstanceOf(url, slash), <<r[2]>>)
  <2>1. CASE slash = 2
    <3>1. InstanceOf(url, slash) = <<>>
      BY <2>1 DEF InstanceOf
    <3> QED BY <1>9, <1>15, <3>1
  <2>2. CASE slash = 4 /\ url[3] = Here
    <3>1. InstanceOf(url, slash) = <<>>
      BY <2>2 DEF InstanceOf, Foreign
    <3> QED BY <1>9, <1>15, <3>1
  <2>3. CASE slash = 4 /\ url[3] = Away
    <3>1. InstanceOf(url, slash) = <<Away>> \/ InstanceOf(url, slash) = <<>>
      BY <2>3 DEF InstanceOf, Foreign
    <3>2. Away \in Tokens(full)
      <4>1. 3 \in 1..Len(url)
        BY <1>2, <1>11
      <4>2. full[m + 3] = Away
        BY <1>12, <2>3, <4>1
      <4>3. m + 3 \in 1..Len(full)
        BY <1>2, <1>11
      <4>4. m + 3 \in DOMAIN full
        BY <1>9, <4>3
      <4> QED BY <4>2, <4>4 DEF Tokens
    <3> QED BY <1>9, <1>15, <3>1, <3>2
  <2> QED BY <1>3, <2>1, <2>2, <2>3
<1>16. CASE FromPath(full) = Invalid(<<>>) /\ slash = 2 /\ AtBehind(url, slash)
  <2>1. PICK k \in (slash + 1)..Len(url) : url[k] = "@"
    BY <1>16 DEF AtBehind
  <2>2. url[k - 1] = "?"
    BY <1>2, <2>1 DEF Reads
  <2>3. k \in 1..Len(url) /\ k - 1 \in 1..Len(url)
    BY <1>11, <1>16
  <2>4. full[m + k] = "@" /\ full[m + (k - 1)] = "?"
    BY <1>12, <2>1, <2>2, <2>3
  <2>5. m + k \in DOMAIN full /\ m + (k - 1) \in DOMAIN full /\ m + (k - 1) < m + k
    <3>1. m + k \in 1..Len(full) /\ m + (k - 1) \in 1..Len(full)
      BY <1>11, <2>3
    <3> QED BY <1>9, <1>11, <2>3, <3>1
  <2> QED BY <1>9, <1>16, <2>4, <2>5 DEF AtIn
<1> QED BY <1>13, <1>14, <1>15, <1>16


\* What a repository's url starts with.
LEMMA SpelledStarts ==
    ASSUME NEW r \in Local \X Words, NEW spelled \in Spelled(r), NEW below \in Below
    PROVE  LET path == spelled \o below IN
           path \in Seq(Token) /\ Len(path) >= 1 /\ path[1] \in {r[1], "@"}
<1>1. PICK ats \in Ats, instance \in Instances, git \in {<<>>, <<".git">>} :
         spelled \o below = ats \o Path(r, instance, git, below)
  BY SpelledIs
<1> DEFINE url == Path(r, instance, git, below)
           slash == Len(instance) + 2
           end == slash + 2 + Len(git)
<1>2. Reads(url, r[1], r[2], slash, end) /\ Len(url) >= 3
  BY PathReads
<1> HIDE DEF url, slash, end
<1>3. url \in Seq(Token) /\ url[1] = r[1] /\ Len(url) \in Nat
  BY <1>2, LenProperties DEF Reads
<1>4. CASE ats = <<>>
  <2>1. ats \o url = url
    BY <1>3, <1>4, ConcatEmptySeq
  <2> QED BY <1>1, <1>2, <1>3, <2>1 DEF url
<1>5. CASE ats = <<"@">>
  <2>1. ats \in Seq(Token) /\ Len(ats) = 1 /\ ats[1] = "@"
    <3>1. "@" \in Token
      BY DEF Token
    <3> QED BY <1>5, <3>1
  <2>2. /\ ats \o url \in Seq(Token) /\ Len(ats \o url) = Len(ats) + Len(url)
        /\ \A i \in 1..(Len(ats) + Len(url)) :
              (ats \o url)[i] = IF i <= Len(ats) THEN ats[i] ELSE url[i - Len(ats)]
    BY <1>3, <2>1, ConcatProperties
  <2>3. Len(ats \o url) >= 1 /\ (ats \o url)[1] = "@"
    BY <1>2, <1>3, <2>1, <2>2
  <2> QED BY <1>1, <2>2, <2>3 DEF url
<1> QED BY <1>4, <1>5 DEF Ats

\* A repository's url is a sequence of tokens.
LEMMA SpelledAreTokens ==
    ASSUME NEW r \in Local \X Words
    PROVE  Spelled(r) \subseteq Seq(Token)
<1> DEFINE owner == <<r[1]>>
           name == <<"/", r[2]>>
           Gits == {<<>>, <<".git">>}
           Url(ats, git, instance) == ats \o owner \o instance \o name \o git
<1>1. Here \in Token /\ Away \in Token /\ "/" \in Token /\ "@" \in Token /\ ".git" \in Token
  BY DEF Token
<1>2. owner \in Seq(Token) /\ name \in Seq(Token)
  BY <1>1, WordsAreNone
<1>3. Ats \subseteq Seq(Token) /\ Gits \subseteq Seq(Token) /\ Instances \subseteq Seq(Token)
  BY <1>1 DEF Ats, Instances
<1>4. Spelled(r) = {Url(ats, git, instance) : ats \in Ats, git \in Gits, instance \in Instances}
  BY DEF Spelled, Ats, Instances
<1>5. \A s, t \in Seq(Token) : s \o t \in Seq(Token)
  BY ConcatProperties
<1> HIDE DEF Gits, Url
<1>6. ASSUME NEW url \in Spelled(r) PROVE url \in Seq(Token)
  <2>1. PICK ats \in Ats, git \in Gits, instance \in Instances : url = Url(ats, git, instance)
    BY <1>4
  <2> HIDE DEF owner, name
  <2>2. ats \o owner \in Seq(Token)
    BY <1>2, <1>3, <1>5
  <2>3. ats \o owner \o instance \in Seq(Token)
    BY <1>3, <1>5, <2>2
  <2>4. ats \o owner \o instance \o name \in Seq(Token)
    BY <1>2, <1>5, <2>3
  <2> QED BY <1>3, <1>5, <2>1, <2>4 DEF Url
<1> QED BY <1>6

ApiPath(endpoint) == <<"/", "api", "/", "repo", "/", endpoint, "/">>

\* The url of a repository in the API: what follows the endpoint...
LEMMA ApiUrlIs ==
    ASSUME NEW r \in Local \X Words, NEW endpoint \in {"info", "tree"}, NEW spelled \in Spelled(r),
           NEW url, url = ApiPath(endpoint) \o spelled
    PROVE  /\ url \in Seq(Token) /\ Len(url) > 6 /\ url[2] = "api"
           /\ Drop1(url, 6) = <<"/">> \o (spelled \o <<>>)
<1> DEFINE api == ApiPath(endpoint)
           slash == <<"/">>
           rest == slash \o spelled
<1>1. spelled \in Seq(Token) /\ Len(spelled) \in Nat
  BY SpelledAreTokens, LenProperties
<1>2. spelled \o <<>> = spelled
  BY <1>1, ConcatEmptySeq
<1>3. /\ api \in Seq(Token) /\ Len(api) = 7 /\ api[2] = "api" /\ api[7] = "/"
      /\ slash \in Seq(Token) /\ Len(slash) = 1 /\ slash[1] = "/"
  <2>1. "/" \in Token /\ "api" \in Token /\ "repo" \in Token /\ endpoint \in Token
    BY DEF Token
  <2> QED BY <2>1 DEF ApiPath
<1> HIDE DEF api, slash
<1>4. /\ url \in Seq(Token) /\ Len(url) = 7 + Len(spelled)
      /\ \A i \in 1..(7 + Len(spelled)) : url[i] = IF i <= 7 THEN api[i] ELSE spelled[i - 7]
  <2>1. /\ api \o spelled \in Seq(Token) /\ Len(api \o spelled) = Len(api) + Len(spelled)
        /\ \A i \in 1..(Len(api) + Len(spelled)) :
              (api \o spelled)[i] = IF i <= Len(api) THEN api[i] ELSE spelled[i - Len(api)]
    BY <1>1, <1>3, ConcatProperties
  <2> QED BY <1>3, <2>1 DEF api
<1>5. /\ rest \in Seq(Token) /\ Len(rest) = 1 + Len(spelled)
      /\ \A i \in 1..(1 + Len(spelled)) : rest[i] = IF i <= 1 THEN slash[i] ELSE spelled[i - 1]
  <2>1. /\ slash \o spelled \in Seq(Token) /\ Len(slash \o spelled) = Len(slash) + Len(spelled)
        /\ \A i \in 1..(Len(slash) + Len(spelled)) :
              (slash \o spelled)[i] = IF i <= Len(slash) THEN slash[i] ELSE spelled[i - Len(slash)]
    BY <1>1, <1>3, ConcatProperties
  <2> QED BY <1>3, <2>1
<1> HIDE DEF rest
<1>6. /\ Drop1(url, 6) \in Seq(Token) /\ Len(Drop1(url, 6)) = 1 + Len(spelled)
      /\ \A k \in 1..(1 + Len(spelled)) : Drop1(url, 6)[k] = url[6 + k]
  <2>1. 6 \in 0..Len(url) /\ Len(url) - 6 = 1 + Len(spelled)
    BY <1>1, <1>4
  <2>2. /\ Drop1(url, 6) \in Seq(Token) /\ Len(Drop1(url, 6)) = Len(url) - 6
        /\ \A k \in 1..(Len(url) - 6) : Drop1(url, 6)[k] = url[6 + k]
    BY <1>4, <2>1, DropIs
  <2> QED BY <2>1, <2>2, Zenon
<1>7. ASSUME NEW k \in 1..(1 + Len(spelled)) PROVE url[6 + k] = rest[k]
  <2>1. CASE k = 1
    <3>1. 6 + k = 7 /\ 7 \in 1..(7 + Len(spelled)) /\ 7 <= 7
      BY <1>1, <2>1
    <3>2. url[7] = api[7]
      BY <1>4, <3>1
    <3>3. rest[1] = slash[1]
      BY <1>1, <1>5
    <3> QED BY <1>3, <2>1, <3>1, <3>2, <3>3
  <2>2. CASE k # 1
    <3>0. PICK i : i = k - 1
      OBVIOUS
    <3>1. i \in 1..Len(spelled) /\ Len(api) + i = 6 + k /\ Len(slash) + i = k
      BY <1>1, <1>3, <2>2, <3>0
    <3>2. (api \o spelled)[Len(api) + i] = spelled[i]
      <4>1. api \in Seq(Token) /\ spelled \in Seq(Token) /\ i \in 1..Len(spelled)
        BY <1>1, <1>3, <3>1
      <4> QED BY <4>1, BehindIs
    <3>3. (slash \o spelled)[Len(slash) + i] = spelled[i]
      <4>1. slash \in Seq(Token) /\ spelled \in Seq(Token) /\ i \in 1..Len(spelled)
        BY <1>1, <1>3, <3>1
      <4> QED BY <4>1, BehindIs
    <3>4. url = api \o spelled /\ rest = slash \o spelled
      BY DEF api, rest
    <3> QED BY <3>1, <3>2, <3>3, <3>4, Zenon
  <2> QED BY <2>1, <2>2
<1>8. Drop1(url, 6) = rest
  <2>1. \A k \in 1..Len(Drop1(url, 6)) : Drop1(url, 6)[k] = rest[k]
    BY <1>6, <1>7
  <2> QED BY <1>5, <1>6, <2>1, SeqEqual
<1>9. Len(url) > 6 /\ url[2] = "api"
  <2>1. 2 \in 1..(7 + Len(spelled)) /\ 2 <= 7 /\ Len(url) > 6
    BY <1>1, <1>4
  <2> QED BY <1>3, <1>4, <2>1
<1> QED BY <1>2, <1>4, <1>8, <1>9 DEF rest, slash

\* ...and the others, with "api" after the first '/' only if that is the owner.
LEMMA PathUrlIs ==
    ASSUME NEW r \in Local \X Words, NEW spelled \in Spelled(r), NEW below \in Below,
           NEW before \in {<<"/">>, <<"/", "/">>}
    PROVE  LET url == before \o (spelled \o below) IN
           url \in Seq(Token) /\ Len(url) > 1 /\ url[2] \in {"/", "@", r[1]}
<1> DEFINE path == spelled \o below
           url == before \o path
<1> SUFFICES url \in Seq(Token) /\ Len(url) > 1 /\ url[2] \in {"/", "@", r[1]}
  OBVIOUS
<1>1. path \in Seq(Token) /\ Len(path) >= 1 /\ path[1] \in {r[1], "@"} /\ Len(path) \in Nat
  BY SpelledStarts, LenProperties
<1> HIDE DEF path
<1>2. /\ before \in Seq(Token) /\ Len(before) \in {1, 2} /\ (Len(before) = 2 => before[2] = "/")
  <2>1. "/" \in Token
    BY DEF Token
  <2>2. <<"/">> \in Seq(Token) /\ <<"/", "/">> \in Seq(Token)
    BY <2>1
  <2>3. CASE before = <<"/">>
    BY <2>2, <2>3
  <2>4. CASE before = <<"/", "/">>
    BY <2>2, <2>4
  <2> QED BY <2>3, <2>4
<1>3. /\ url \in Seq(Token) /\ Len(url) = Len(before) + Len(path)
      /\ \A i \in 1..(Len(before) + Len(path)) :
            url[i] = IF i <= Len(before) THEN before[i] ELSE path[i - Len(before)]
  <2>1. /\ before \o path \in Seq(Token) /\ Len(before \o path) = Len(before) + Len(path)
        /\ \A i \in 1..(Len(before) + Len(path)) :
              (before \o path)[i] = IF i <= Len(before) THEN before[i] ELSE path[i - Len(before)]
    BY <1>1, <1>2, ConcatProperties
  <2> QED BY <2>1
<1> HIDE DEF url
<1>4. CASE Len(before) = 1
  <2>1. 2 \in 1..(Len(before) + Len(path)) /\ ~(2 <= Len(before)) /\ 2 - Len(before) = 1
    BY <1>1, <1>4
  <2>2. url[2] = path[1]
    BY <1>3, <2>1
  <2> QED BY <1>1, <1>3, <1>4, <2>2
<1>5. CASE Len(before) = 2
  <2>1. 2 \in 1..(Len(before) + Len(path)) /\ 2 <= Len(before)
    BY <1>1, <1>5
  <2>2. url[2] = "/"
    BY <1>2, <1>3, <1>5, <2>1
  <2> QED BY <1>1, <1>3, <1>5, <2>2
<1> QED BY <1>2, <1>4, <1>5

\* A repository's url is of one of these forms.
LEMMA RepoUrlIs ==
    ASSUME NEW r \in Local \X Words, NEW url \in RepoUrls(r)
    PROVE  \E spelled \in Spelled(r) :
              \/ \E endpoint \in {"info", "tree"} : url = ApiPath(endpoint) \o spelled
              \/ \E before \in {<<"/">>, <<"/", "/">>}, below \in Below :
                    url = before \o (spelled \o below)
<1> DEFINE Ours == Spelled(r)
           slash == <<"/">>
           slashes == <<"/", "/">>
           Endpoints == {"info", "tree"}
           Whole(spelled, below) == slash \o spelled \o below
           Apis == {ApiPath(endpoint) \o spelled : endpoint \in Endpoints, spelled \in Ours}
           Plain == {slashes \o spelled : spelled \in Ours}
           Paths == {Whole(spelled, below) : below \in Below, spelled \in Ours}
<1>1. RepoUrls(r) = Apis \cup Plain \cup Paths
  BY DEF RepoUrls, ApiPath
<1>2. slash \in Seq(Token) /\ slashes \in Seq(Token)
  <2>1. "/" \in Token
    BY DEF Token
  <2> QED BY <2>1
<1>3. <<>> \in Below
  BY DEF Below
<1>4. Ours \subseteq Seq(Token) /\ Below \subseteq Seq(Token)
  BY SpelledAreTokens, BelowIs
<1>5. slash \in {<<"/">>, <<"/", "/">>} /\ slashes \in {<<"/">>, <<"/", "/">>}
  OBVIOUS
<1> HIDE DEF Ours, Endpoints, Whole, slash, slashes
<1>6. CASE url \in Apis
  <2>1. PICK endpoint \in Endpoints, spelled \in Ours : url = ApiPath(endpoint) \o spelled
    BY <1>6
  <2> QED BY <2>1 DEF Endpoints, Ours
<1>7. CASE url \in Plain
  <2>1. PICK spelled \in Ours : url = slashes \o spelled
    BY <1>7
  <2>2. spelled \o <<>> = spelled
    BY <1>4, <2>1, ConcatEmptySeq
  <2>3. url = slashes \o (spelled \o <<>>)
    BY <2>1, <2>2
  <2> QED BY <1>3, <1>5, <2>1, <2>3 DEF Ours
<1>8. CASE url \in Paths
  <2>1. PICK below \in Below, spelled \in Ours : url = Whole(spelled, below)
    BY <1>8
  <2>2. below \in Seq(Token) /\ spelled \in Seq(Token)
    BY <1>4, <2>1
  <2>3. url = (slash \o spelled) \o below
    BY <2>1 DEF Whole
  <2>4. (slash \o spelled) \o below = slash \o (spelled \o below)
    BY <1>2, <2>2, ConcatAssociative
  <2>5. url = slash \o (spelled \o below)
    BY <2>3, <2>4
  <2> QED BY <1>5, <2>1, <2>5 DEF Ours
<1> HIDE DEF Apis, Plain, Paths
<1> QED BY <1>1, <1>6, <1>7, <1>8

FewUrls ==
    {<<"/">>, <<"/", "?", "tab">>, <<"/", "main.css">>, <<"/", "/", "/">>,
     <<"/", "fonts", "/", "woff">>, <<"/", "fonts", "/", "other">>,
     <<"/", "api", "/", "v1">>, <<"/", "api", "/", "ticket", "/">>,
     <<"/", "repo", "/", "new">>, <<"/", "repo", "/", "other">>}
UserTails == {<<>>, <<"/">>, <<"?", "tab">>, <<"/", "?", "tab">>}
UserApi(u) == <<"/", "api", "/", "user", "/", u>>
ApiTails == {<<>>, <<"/", "likes">>, <<"/", "likes", "?", "bad">>, <<"/", "likes_count">>,
             <<"/", "other">>}
Abroad == {<<>>, <<"@", Away>>}
Nameless(u, ats, instance) == <<"/">> \o ats \o <<u>> \o instance \o <<"/", "/", "tab">>
RepoTails == {<<"@", Here, "/">>, <<"@", Away, "/">>, <<"/", "?", "tab">>}
RepoApi(endpoint, u) == <<"/", "api", "/", "repo", "/", endpoint, "/", u>>

\* The urls that spell no repository.
LEMMA PlainUrlIs ==
    ASSUME NEW url \in PlainUrls
    PROVE  \/ url \in FewUrls
           \/ \E u \in Local \cup {"api", "repo"}, below \in UserTails : url = <<"/", u>> \o below
           \/ \E u \in Local \cup Short, ats \in Ats, instance \in Abroad :
                 url = Nameless(u, ats, instance)
           \/ \E endpoint \in {"info", "tree"}, u \in Local \cup Short, below \in RepoTails :
                 url = RepoApi(endpoint, u) \o below
           \/ \E u \in Local, instance \in Instances, below \in ApiTails :
                 url = UserApi(u) \o instance \o below
<1> DEFINE User(u) == <<"/", u>>
           Users == Local \cup {"api", "repo"}
           Others == Local \cup Short
           Endpoints == {"info", "tree"}
           OfUsers == {User(u) \o below : u \in Users, below \in UserTails}
           OfNone == {Nameless(u, ats, instance) :
                        u \in Others, ats \in Ats, instance \in Abroad}
           OfRepo(endpoint, u, below) == RepoApi(endpoint, u) \o below
           OfRepos == {OfRepo(endpoint, u, below) :
                         endpoint \in Endpoints, u \in Others, below \in RepoTails}
           OfApi == {UserApi(u) \o instance \o below :
                       u \in Local, instance \in Instances, below \in ApiTails}
<1>1. PlainUrls = FewUrls \cup OfUsers \cup OfNone \cup OfRepos \cup OfApi
  BY DEF PlainUrls, FewUrls, UserTails, UserApi, ApiTails, Instances, Abroad, Nameless, Ats,
         RepoTails, RepoApi
<1>2. CASE url \in OfUsers
  <2> HIDE DEF User
  <2>1. PICK u \in Users, below \in UserTails : url = User(u) \o below
    BY <1>2
  <2> QED BY <2>1 DEF User
<1>3. CASE url \in OfApi
  <2>1. PICK u \in Local, instance \in Instances, below \in ApiTails :
           url = UserApi(u) \o instance \o below
    BY <1>3
  <2> QED BY <2>1
<1>4. CASE url \in OfNone
  <2>1. PICK u \in Others, ats \in Ats, instance \in Abroad : url = Nameless(u, ats, instance)
    BY <1>4
  <2> QED BY <2>1
<1>5. CASE url \in OfRepos
  <2> HIDE DEF Endpoints, OfRepo
  <2>1. PICK endpoint \in Endpoints, u \in Others, below \in RepoTails :
           url = OfRepo(endpoint, u, below)
    BY <1>5
  <2> QED BY <2>1 DEF Endpoints, OfRepo
<1> HIDE DEF OfUsers, OfApi, OfNone, OfRepos
<1> QED BY <1>1, <1>2, <1>3, <1>4, <1>5

\* A url of an owner without a name.
LEMMA NamelessIs ==
    ASSUME NEW u \in Local \cup Short, NEW ats \in Ats, NEW instance \in Abroad
    PROVE  Nameless(u, ats, instance) \in Seq(Token)
<1> DEFINE slash == <<"/">>
           owner == <<u>>
           tail == <<"/", "/", "tab">>
<1>1. "/" \in Token /\ "@" \in Token /\ u \in Token /\ "tab" \in Token /\ Away \in Token
  BY DEF Token
<1>2. slash \in Seq(Token) /\ owner \in Seq(Token) /\ tail \in Seq(Token)
  BY <1>1
<1>3. Ats \subseteq Seq(Token) /\ Abroad \subseteq Seq(Token)
  BY <1>1 DEF Ats, Abroad
<1> HIDE DEF slash, owner, tail
<1>4. \A s, t \in Seq(Token) : s \o t \in Seq(Token)
  BY ConcatProperties
<1>5. slash \o ats \in Seq(Token)
  BY <1>2, <1>3, <1>4
<1>6. slash \o ats \o owner \in Seq(Token)
  BY <1>2, <1>4, <1>5
<1>7. slash \o ats \o owner \o instance \in Seq(Token)
  BY <1>3, <1>4, <1>6
<1>8. slash \o ats \o owner \o instance \o tail \in Seq(Token)
  BY <1>2, <1>4, <1>7
<1> QED BY <1>8 DEF Nameless, slash, owner, tail

\* It is none of the API of repositories.
LEMMA NamelessIsNoApi ==
    ASSUME NEW u \in Local \cup Short, NEW ats \in Ats, NEW instance \in Abroad,
           NEW url, url = Nameless(u, ats, instance), url[3] = "/"
    PROVE  url[4] # "repo"
<1> DEFINE slash == <<"/">>
           owner == <<u>>
           tail == <<"/", "/", "tab">>
<1>1. "/" \in Token /\ "@" \in Token /\ u \in Token /\ "tab" \in Token /\ Away \in Token
  BY DEF Token
<1>2. u # "/" /\ slash \in Seq(Token) /\ Len(slash) = 1 /\ slash[1] = "/"
      /\ owner \in Seq(Token) /\ Len(owner) = 1 /\ owner[1] = u
      /\ tail \in Seq(Token) /\ Len(tail) = 3 /\ tail[1] = "/" /\ tail[2] = "/"
  BY <1>1, RoutesAssumption DEF Separator
<1>3. ats \in Seq(Token) /\ (Len(ats) = 0 \/ Len(ats) = 1)
  <2>1. CASE ats = <<>>
    BY <2>1
  <2>2. CASE ats = <<"@">>
    BY <1>1, <2>2
  <2> QED BY <2>1, <2>2 DEF Ats
<1>4. instance \in Seq(Token) /\ (Len(instance) = 0 \/ (Len(instance) = 2 /\ instance[1] = "@"))
  <2>1. CASE instance = <<>>
    BY <2>1
  <2>2. CASE instance = <<"@", Away>>
    BY <1>1, <2>2
  <2> QED BY <2>1, <2>2 DEF Abroad
<1>5. url = slash \o ats \o owner \o instance \o tail
  BY DEF Nameless
<1> HIDE DEF slash, owner, tail
<1> DEFINE a == slash \o ats
           b == a \o owner
           c == b \o instance
<1>6. ASSUME NEW s \in Seq(Token), NEW t \in Seq(Token)
      PROVE  /\ s \o t \in Seq(Token) /\ Len(s \o t) = Len(s) + Len(t)
             /\ \A i \in 1..Len(s) : (s \o t)[i] = s[i]
             /\ \A i \in 1..Len(t) : (s \o t)[Len(s) + i] = t[i]
  <2>1. /\ s \o t \in Seq(Token) /\ Len(s \o t) = Len(s) + Len(t)
        /\ \A i \in 1..(Len(s) + Len(t)) : (s \o t)[i] = IF i <= Len(s) THEN s[i] ELSE t[i - Len(s)]
    BY ConcatProperties
  <2>2. Len(s) \in Nat /\ Len(t) \in Nat
    BY LenProperties
  <2>3. \A i \in 1..Len(s) : (s \o t)[i] = s[i]
    BY <2>1, <2>2
  <2>4. \A i \in 1..Len(t) : (s \o t)[Len(s) + i] = t[i]
    BY BehindIs
  <2> QED BY <2>1, <2>3, <2>4
<1>7. a \in Seq(Token) /\ Len(a) = 1 + Len(ats)
  BY <1>2, <1>3, <1>6
<1> HIDE DEF a
<1>8. b \in Seq(Token) /\ Len(b) = 2 + Len(ats) /\ (Len(ats) = 1 => b[3] = u)
  <2>1. b \in Seq(Token) /\ Len(b) = 2 + Len(ats)
    <3>1. b \in Seq(Token) /\ Len(b) = Len(a) + Len(owner)
      BY <1>2, <1>6, <1>7, Zenon
    <3> HIDE DEF b
    <3> QED BY <1>2, <1>3, <1>7, <3>1
  <2>2. \A i \in 1..Len(owner) : b[Len(a) + i] = owner[i]
    BY <1>2, <1>6, <1>7, Zenon
  <2>3. b[Len(a) + 1] = u
    <3>1. 1 \in 1..Len(owner)
      BY <1>2
    <3> QED BY <1>2, <2>2, <3>1
  <2> HIDE DEF b
  <2>4. Len(ats) = 1 => Len(a) + 1 = 3
    BY <1>3, <1>7
  <2> QED BY <2>1, <2>3, <2>4
<1> HIDE DEF b
<1>9. /\ c \in Seq(Token) /\ Len(c) = 2 + Len(ats) + Len(instance)
      /\ Len(ats) = 1 => c[3] = u
      /\ Len(ats) = 0 /\ Len(instance) = 2 => c[3] = "@"
  <2>1. c \in Seq(Token) /\ Len(c) = 2 + Len(ats) + Len(instance)
    BY <1>3, <1>4, <1>6, <1>8
  <2>2. /\ \A i \in 1..Len(b) : c[i] = b[i]
        /\ \A i \in 1..Len(instance) : c[Len(b) + i] = instance[i]
    BY <1>4, <1>6, <1>8
  <2> HIDE DEF c
  <2>3. ASSUME Len(ats) = 1 PROVE c[3] = u
    <3>1. 3 \in 1..Len(b)
      BY <1>8, <2>3
    <3> QED BY <1>8, <2>2, <2>3, <3>1
  <2>4. ASSUME Len(ats) = 0, Len(instance) = 2 PROVE c[3] = "@"
    <3>1. 1 \in 1..Len(instance) /\ Len(b) + 1 = 3
      BY <1>8, <2>4
    <3>2. c[Len(b) + 1] = instance[1]
      BY <2>2, <3>1
    <3> QED BY <1>4, <2>4, <3>1, <3>2
  <2> QED BY <2>1, <2>3, <2>4
<1> HIDE DEF c
<1>10. /\ \A i \in 1..Len(c) : url[i] = c[i]
       /\ \A i \in 1..Len(tail) : url[Len(c) + i] = tail[i]
  <2>1. url = c \o tail
    BY <1>5 DEF a, b, c
  <2>2. /\ \A i \in 1..Len(c) : (c \o tail)[i] = c[i]
        /\ \A i \in 1..Len(tail) : (c \o tail)[Len(c) + i] = tail[i]
    BY <1>2, <1>6, <1>9, Zenon
  <2> QED BY <2>1, <2>2, Zenon
<1>11. CASE Len(c) >= 3
  <2>1. 3 \in 1..Len(c)
    BY <1>3, <1>4, <1>9, <1>11
  <2>2. url[3] = c[3]
    BY <1>10, <2>1
  <2>3. c[3] = u \/ c[3] = "@"
    BY <1>3, <1>4, <1>9, <1>11
  <2> QED BY <1>2, <2>2, <2>3
<1>12. CASE ~(Len(c) >= 3)
  <2>1. Len(c) = 2
    BY <1>3, <1>4, <1>9, <1>12
  <2>2. 2 \in 1..Len(tail)
    BY <1>2
  <2>3. url[Len(c) + 2] = tail[2]
    BY <1>10, <2>2
  <2> QED BY <1>2, <2>1, <2>3
<1> QED BY <1>11, <1>12

\* A url of the API of repositories with an owner and no name.
IsRepoApi(url, u, below) ==
    /\ url \in Seq(Token) /\ Len(url) = 11
    /\ url[7] = "/" /\ url[8] = u
    /\ url[9] = below[1] /\ url[10] = below[2] /\ url[11] = below[3]

LEMMA RepoApiUrlIs ==
    ASSUME NEW endpoint \in {"info", "tree"}, NEW u \in Token, NEW below \in RepoTails, NEW url,
           url = RepoApi(endpoint, u) \o below
    PROVE  IsRepoApi(url, u, below)
<1> DEFINE head == RepoApi(endpoint, u)
<1>1. /\ "/" \in Token /\ "api" \in Token /\ "repo" \in Token /\ endpoint \in Token /\ u \in Token
      /\ "@" \in Token /\ Here \in Token /\ Away \in Token /\ "?" \in Token /\ "tab" \in Token
  BY DEF Token
<1>2. head \in Seq(Token) /\ Len(head) = 8 /\ head[7] = "/" /\ head[8] = u
  BY <1>1 DEF RepoApi
<1>3. below \in Seq(Token) /\ Len(below) = 3
  <2>1. RepoTails \subseteq Seq(Token)
    BY <1>1 DEF RepoTails
  <2>2. Len(below) = 3
    BY DEF RepoTails
  <2> QED BY <2>1, <2>2
<1> HIDE DEF head
<1>4. /\ head \o below \in Seq(Token) /\ Len(head \o below) = Len(head) + Len(below)
      /\ \A i \in 1..(Len(head) + Len(below)) :
            (head \o below)[i] = IF i <= Len(head) THEN head[i] ELSE below[i - Len(head)]
  BY <1>2, <1>3, ConcatProperties
<1>5. (head \o below)[7] = "/" /\ (head \o below)[8] = u /\ Len(head \o below) = 11
  BY <1>2, <1>3, <1>4
<1>6. (head \o below)[9] = below[1] /\ (head \o below)[10] = below[2]
      /\ (head \o below)[11] = below[3]
  <2>1. ASSUME NEW i \in 1..Len(below) PROVE (head \o below)[Len(head) + i] = below[i]
    <3>1. head \in Seq(Token) /\ below \in Seq(Token)
      BY <1>2, <1>3
    <3> QED BY <3>1, BehindIs
  <2>2. \A i \in 1..3 : (head \o below)[8 + i] = below[i]
    BY <1>2, <1>3, <2>1
  <2>3. 8 + 1 = 9 /\ 8 + 2 = 10 /\ 8 + 3 = 11 /\ 1 \in 1..3 /\ 2 \in 1..3 /\ 3 \in 1..3
    OBVIOUS
  <2> QED BY <2>2, <2>3
<1> QED BY <1>4, <1>5, <1>6 DEF head, IsRepoApi

\* A url of the API of users.
LEMMA UserApiIs ==
    ASSUME NEW u \in Local, NEW instance \in Instances, NEW below \in ApiTails
    PROVE  LET url == UserApi(u) \o instance \o below IN
           url \in Seq(Token) /\ Len(url) >= 6 /\ url[2] = "api" /\ url[4] = "user"
<1> DEFINE head == UserApi(u)
<1>1. /\ "/" \in Token /\ "api" \in Token /\ "user" \in Token /\ u \in Token /\ "@" \in Token
      /\ Here \in Token /\ Away \in Token /\ "likes" \in Token /\ "?" \in Token /\ "bad" \in Token
      /\ "likes_count" \in Token /\ "other" \in Token
  BY DEF Token
<1>2. head \in Seq(Token) /\ Len(head) = 6 /\ head[2] = "api" /\ head[4] = "user"
  BY <1>1 DEF UserApi
<1>3. Instances \subseteq Seq(Token) /\ ApiTails \subseteq Seq(Token)
  BY <1>1 DEF Instances, ApiTails
<1>4. instance \in Seq(Token) /\ below \in Seq(Token) /\ Len(instance) \in Nat /\ Len(below) \in Nat
  BY <1>3, LenProperties
<1> HIDE DEF head
<1> DEFINE front == head \o instance
<1>5. /\ front \in Seq(Token) /\ Len(front) = Len(head) + Len(instance)
      /\ \A i \in 1..(Len(head) + Len(instance)) :
            front[i] = IF i <= Len(head) THEN head[i] ELSE instance[i - Len(head)]
  BY <1>2, <1>4, ConcatProperties
<1>6. Len(front) \in Nat /\ Len(front) >= 6 /\ front[2] = "api" /\ front[4] = "user"
  BY <1>2, <1>4, <1>5
<1> HIDE DEF front
<1>7. /\ front \o below \in Seq(Token) /\ Len(front \o below) = Len(front) + Len(below)
      /\ \A i \in 1..(Len(front) + Len(below)) :
            (front \o below)[i] = IF i <= Len(front) THEN front[i] ELSE below[i - Len(front)]
  <2>1. front \in Seq(Token) /\ below \in Seq(Token)
    BY <1>4, <1>5
  <2> QED BY <2>1, ConcatProperties
<1>8. Len(front \o below) >= 6 /\ (front \o below)[2] = "api" /\ (front \o below)[4] = "user"
  BY <1>4, <1>6, <1>7
<1> QED BY <1>7, <1>8 DEF front, head

\* A url of a user.
LEMMA UserUrlIs ==
    ASSUME NEW u \in Local \cup {"api", "repo"}, NEW below \in UserTails
    PROVE  LET url == <<"/", u>> \o below IN
           /\ url \in Seq(Token) /\ Len(url) = 2 + Len(below) /\ Len(below) \in 0..3
           /\ url[1] = "/" /\ url[2] = u /\ u \notin {"/", "?"}
           /\ \A i \in 1..Len(below) : url[2 + i] = below[i]
<1> DEFINE head == <<"/", u>>
<1>1. "/" \in Token /\ u \in Token /\ "?" \in Token /\ "tab" \in Token
  BY DEF Token
<1>2. head \in Seq(Token) /\ Len(head) = 2 /\ head[1] = "/" /\ head[2] = u
  BY <1>1
<1>3. UserTails \subseteq Seq(Token)
  BY <1>1 DEF UserTails
<1>4. below \in Seq(Token) /\ Len(below) \in 0..3
  <2>1. Len(below) \in 0..3
    BY DEF UserTails
  <2> QED BY <1>3, <2>1
<1>5. u \notin {"/", "?"}
  BY RoutesAssumption DEF Separator
<1> HIDE DEF head
<1>6. /\ head \o below \in Seq(Token) /\ Len(head \o below) = Len(head) + Len(below)
      /\ \A i \in 1..(Len(head) + Len(below)) :
            (head \o below)[i] = IF i <= Len(head) THEN head[i] ELSE below[i - Len(head)]
  BY <1>2, <1>4, ConcatProperties
<1>7. (head \o below)[1] = "/" /\ (head \o below)[2] = u
  BY <1>2, <1>4, <1>6
<1>8. ASSUME NEW i \in 1..Len(below) PROVE (head \o below)[Len(head) + i] = below[i]
  <2>1. head \in Seq(Token) /\ below \in Seq(Token)
    BY <1>2, <1>4
  <2> QED BY <2>1, BehindIs
<1> QED BY <1>2, <1>4, <1>5, <1>6, <1>7, <1>8 DEF head

(***************************************************************************)
(* The requests, and who is served.                                        *)
(***************************************************************************)

\* The urls of the calls are sequences of tokens.
LEMMA UrlsAreTokens ==
    /\ \A c \in PlainCalls \cup FormCalls : c.url \in Seq(Token)
    /\ \A r \in Local \X Words : \A c \in RepoCalls(r) : c.url \in Seq(Token)
<1> DEFINE Literal ==
      {"/", "?", "@", ".git", "tab", "main.css", "fonts", "woff", "other", "api", "v1", "ticket",
       "repo", "new", "user", "likes", "bad", "likes_count", "info", "tree", "commit", "c0ffee",
       "none", "tickets", "refs", "git-receive-pack"}
<1>1. Literal \subseteq Token /\ Local \subseteq Token /\ Words \subseteq Token
      /\ Here \in Token /\ Away \in Token
  BY DEF Token
<1>2. /\ "/" \in Token /\ "?" \in Token /\ "@" \in Token /\ ".git" \in Token /\ "tab" \in Token
      /\ "main.css" \in Token /\ "fonts" \in Token /\ "woff" \in Token /\ "other" \in Token
      /\ "api" \in Token /\ "v1" \in Token /\ "ticket" \in Token /\ "repo" \in Token
      /\ "new" \in Token /\ "user" \in Token /\ "likes" \in Token /\ "bad" \in Token
      /\ "likes_count" \in Token /\ "info" \in Token /\ "tree" \in Token /\ "commit" \in Token
      /\ "c0ffee" \in Token /\ "none" \in Token /\ "tickets" \in Token
      /\ "git-receive-pack" \in Token /\ "refs" \in Token
  BY <1>1
<1> HIDE DEF Literal
<1>3. \A s, t \in Seq(Token) : s \o t \in Seq(Token)
  BY ConcatProperties
<1>4. Below \subseteq Seq(Token)
  BY <1>2 DEF Below
<1>5. ASSUME NEW url \in PlainUrls PROVE url \in Seq(Token)
  <2>1. FewUrls \subseteq Seq(Token)
    BY <1>2 DEF FewUrls
  <2>2. CASE \E u \in Local \cup {"api", "repo"}, below \in UserTails : url = <<"/", u>> \o below
    BY <2>2, UserUrlIs
  <2>3. CASE \E u \in Local, instance \in Instances, below \in ApiTails :
                url = UserApi(u) \o instance \o below
    BY <2>3, UserApiIs
  <2>4. CASE \E u \in Local \cup Short, ats \in Ats, instance \in Abroad :
                url = Nameless(u, ats, instance)
    BY <2>4, NamelessIs
  <2>5. CASE \E endpoint \in {"info", "tree"}, u \in Local \cup Short, below \in RepoTails :
                url = RepoApi(endpoint, u) \o below
    <3>1. PICK endpoint \in {"info", "tree"}, u \in Local \cup Short, below \in RepoTails :
             url = RepoApi(endpoint, u) \o below
      BY <2>5
    <3>2. u \in Token
      BY DEF Token
    <3> QED BY <3>1, <3>2, RepoApiUrlIs DEF IsRepoApi
  <2> QED BY <2>1, <2>2, <2>3, <2>4, <2>5, PlainUrlIs
<1>6. ASSUME NEW r \in Local \X Words, NEW url \in RepoUrls(r) PROVE url \in Seq(Token)
  <2>1. PICK spelled \in Spelled(r) :
           \/ \E endpoint \in {"info", "tree"} : url = ApiPath(endpoint) \o spelled
           \/ \E before \in {<<"/">>, <<"/", "/">>}, below \in Below :
                 url = before \o (spelled \o below)
    BY RepoUrlIs
  <2>2. spelled \in Seq(Token)
    BY SpelledAreTokens
  <2>3. ASSUME NEW endpoint \in {"info", "tree"} PROVE ApiPath(endpoint) \o spelled \in Seq(Token)
    <3>1. ApiPath(endpoint) \in Seq(Token)
      BY <1>2 DEF ApiPath
    <3> QED BY <1>3, <2>2, <3>1
  <2>4. ASSUME NEW before \in {<<"/">>, <<"/", "/">>}, NEW below \in Below
        PROVE  before \o (spelled \o below) \in Seq(Token)
    <3>1. before \in Seq(Token) /\ below \in Seq(Token)
      <4>1. CASE before = <<"/">>
        BY <1>2, <1>4, <4>1
      <4>2. CASE before = <<"/", "/">>
        BY <1>2, <1>4, <4>2
      <4> QED BY <4>1, <4>2
    <3>2. spelled \o below \in Seq(Token)
      BY <1>3, <2>2, <3>1
    <3> QED BY <1>3, <3>1, <3>2
  <2> QED BY <2>1, <2>3, <2>4
<1>7. <<"/", "repo", "/", "new">> \in Seq(Token) /\ <<>> \in Seq(Token)
  BY <1>2
<1>8. ASSUME NEW c \in PlainCalls \cup FormCalls PROVE c.url \in Seq(Token)
  <2>1. CASE c \in PlainCalls
    BY <1>5, <2>1 DEF PlainCalls
  <2>2. CASE c \in FormCalls
    <3> DEFINE NewUrl == {<<"/", "repo", "/", "new">>}
    <3>1. NewUrl \subseteq Seq(Token)
      BY <1>7
    <3>2. c.url \in NewUrl
      BY <2>2 DEF FormCalls
    <3> QED BY <3>1, <3>2
  <2> QED BY <2>1, <2>2
<1>9. ASSUME NEW r \in Local \X Words, NEW c \in RepoCalls(r) PROVE c.url \in Seq(Token)
  <2>1. c.url \in RepoUrls(r)
    BY DEF RepoCalls
  <2> QED BY <1>6, <2>1
<1> QED BY <1>8, <1>9

AsksForPage(r) == call.url = PageUrl(r)

\* How far a request is, and what may still answer it.
OnItsWay ==
    /\ call.url \in Seq(Token)
    /\ routePc # "done" => served = NotServed
    /\ routePc \in {"idle", "handling"} => answers = 0 /\ ~pending
    /\ routePc \in {"creating", "inserting"} => Begins(RepoLike) /\ (pending => answers = 0) /\ answers <= 1
    /\ pending => answers <= 1
    /\ pending => \A r \in Repo : ~AsksForPage(r)

RoutesIInv == ServedWithAccess /\ PageReachable /\ OnItsWay

\* Access is a matter of the rows and the requester.
LEMMA SameAccess ==
    ASSUME UNCHANGED searchVars
    PROVE  /\ Denial' = Denial /\ asker' = asker
           /\ \A r, level, who : CanAccess(r, level, who)' = CanAccess(r, level, who)
<1>1. UNCHANGED <<catalog, grants, asker>>
  BY DEF searchVars
<1>2. \A r, level, who : Granted(r, level, who)' = Granted(r, level, who)
  BY <1>1 DEF Granted
<1>3. \A v : Audience(v)' = Audience(v)
  BY DEF Audience
<1> QED BY <1>1, <1>2, <1>3 DEF Denial, CanAccess

\* A request that stays the same asks for the same page...
LEMMA SamePage ==
    ASSUME call' = call
    PROVE  \A r : AsksForPage(r)' = AsksForPage(r)
  BY DEF AsksForPage, PageUrl

\* ...and of what it was served the same is right.
LEMMA ServedStays ==
    ASSUME ServedWithAccess, UNCHANGED searchVars, UNCHANGED <<call, served>>, RoutesTypeOK'
    PROVE  ServedWithAccess'
<1>1. \A r, level, who : CanAccess(r, level, who)' = CanAccess(r, level, who)
  BY SameAccess
<1>2. asker' = asker
  BY SameAccess
<1>3. Tokens(call.url)' = Tokens(call.url) /\ GitDir(call.url)' = GitDir(call.url)
  BY DEF Tokens, GitDir, Services, Find1, NoSlashes, Drop1
<1> DEFINE push == served.what = "git" /\ "git-receive-pack" \in Tokens(call.url)
<1>4. CanAccess(served.repo, IF push THEN Write ELSE Read, asker)'
        = CanAccess(served.repo, IF push THEN Write ELSE Read, asker)
  BY <1>1, <1>2, <1>3
<1> QED BY <1>3, <1>4 DEF ServedWithAccess

Codes == {200, 303, 400, 401, 404, 500}
Busy == {"handling", "creating", "inserting"}

\* An answer of the handler, if it is the right one for a page.
LEMMA SaysKeeps ==
    ASSUME RoutesIInv, UNCHANGED searchVars, gitUp, routePc \in Busy,
           NEW code \in Codes, Says(code),
           \A r \in Repo : AsksForPage(r) => code = IF CanAccess(r, Read, asker) THEN 200 ELSE Denial
    PROVE  RoutesIInv'
<1>1. /\ answers' = answers + 1 /\ status' = code /\ routePc' = "done"
      /\ UNCHANGED <<call, gitUp, pending, served, onDisk>>
  BY DEF Says, Answers, Responds, Stays
<1>2. RoutesTypeOK
  BY DEF RoutesIInv, ServedWithAccess
<1>3. answers <= 1 /\ (pending => answers = 0) /\ answers \in 0..2
  BY <1>2 DEF RoutesIInv, OnItsWay, Busy, RoutesTypeOK
<1>4. RoutesTypeOK'
  BY <1>1, <1>2, <1>3 DEF RoutesTypeOK, Codes
<1>5. ServedWithAccess'
  BY <1>1, <1>4, ServedStays DEF RoutesIInv
<1>6. PageReachable'
  <2>1. \A r \in Repo : AsksForPage(r) => status' = IF CanAccess(r, Read, asker)' THEN 200 ELSE Denial'
    BY <1>1, SameAccess
  <2> QED BY <1>1, <2>1 DEF PageReachable, AsksForPage, PageUrl
<1>7. OnItsWay'
  BY <1>1, <1>3, SamePage DEF RoutesIInv, OnItsWay
<1> QED BY <1>5, <1>6, <1>7 DEF RoutesIInv

\* An exception ends the server.
LEMMA EndsKeeps ==
    ASSUME RoutesIInv, UNCHANGED searchVars, Ends, routePc \in Busy
    PROVE  RoutesIInv'
<1>1. gitUp' = FALSE /\ routePc' = "done" /\ UNCHANGED <<call, answers, status, pending, served, onDisk>>
  BY DEF Ends
<1>2. RoutesTypeOK'
  <2>1. RoutesTypeOK
    BY DEF RoutesIInv, ServedWithAccess
  <2>2. routePc' \in {"idle", "handling", "creating", "inserting", "done"} /\ gitUp' \in BOOLEAN
    BY <1>1
  <2> QED BY <1>1, <2>1, <2>2 DEF RoutesTypeOK
<1>3. ServedWithAccess'
  BY <1>1, <1>2, ServedStays DEF RoutesIInv
<1>4. PageReachable'
  BY <1>1 DEF PageReachable
<1>5. OnItsWay'
  BY <1>1, SamePage DEF RoutesIInv, OnItsWay
<1> QED BY <1>3, <1>4, <1>5 DEF RoutesIInv

\* What a step of the handler leaves to another leaves it so, unless it is for a page.
LEMMA GoesOnKeeps ==
    ASSUME RoutesIInv, UNCHANGED searchVars, gitUp, routePc \in Busy,
           UNCHANGED <<call, gitUp, answers, status, served>>,
           routePc' \in {"creating", "inserting", "done"},
           Repo \subseteq onDisk', pending' \in BOOLEAN,
           pending' # pending => routePc = "handling",
           routePc' # "done" => Begins(RepoLike),
           \A r \in Repo : ~AsksForPage(r)
    PROVE  RoutesIInv'
<1>1. RoutesTypeOK
  BY DEF RoutesIInv, ServedWithAccess
<1>2. RoutesTypeOK'
  BY <1>1 DEF RoutesTypeOK
<1>3. ServedWithAccess'
  BY <1>2, ServedStays DEF RoutesIInv
<1>4. PageReachable'
  BY DEF PageReachable, AsksForPage, PageUrl
<1>5. OnItsWay'
  <2>1. served = NotServed /\ answers \in Nat
    BY <1>1 DEF RoutesIInv, OnItsWay, Busy, RoutesTypeOK
  <2>2. answers <= 1 /\ (pending' => answers = 0)
    BY <1>1 DEF RoutesIInv, OnItsWay, Busy, RoutesTypeOK
  <2>3. routePc' # "done" => Begins(RepoLike)'
    BY DEF Begins
  <2> QED BY <2>1, <2>2, <2>3, SamePage DEF RoutesIInv, OnItsWay
<1> QED BY <1>3, <1>4, <1>5 DEF RoutesIInv

\* What the handler serves it serves to one who has the access.
LEMMA ServesKeeps ==
    ASSUME RoutesIInv, UNCHANGED searchVars, NEW repo \in Repo, Found(repo),
           NEW what \in {"page", "git"}, Serves(repo, what),
           CanAccess(repo, IF what = "git" /\ IsPush THEN Write ELSE Read, asker),
           what = "git" => \A r \in Repo : ~AsksForPage(r)
    PROVE  RoutesIInv'
<1>1. /\ served' = [what |-> what, repo |-> repo] /\ answers' = answers + 1 /\ status' = 200
      /\ routePc' = "done" /\ UNCHANGED <<call, gitUp, pending, onDisk>>
  BY DEF Serves, Answers, Responds, Stays
<1>2. RoutesTypeOK /\ routePc = "handling" /\ gitUp
  BY DEF RoutesIInv, ServedWithAccess, Found, ToRepo, At
<1>3. answers = 0 /\ ~pending
  BY <1>2 DEF RoutesIInv, OnItsWay
<1>4. RoutesTypeOK'
  BY <1>1, <1>2, <1>3 DEF RoutesTypeOK
<1>5. ServedWithAccess'
  <2>1. IsPush <=> "git-receive-pack" \in Tokens(call.url)
    BY DEF IsPush, Tokens
  <2>2. Tokens(call.url)' = Tokens(call.url) /\ GitDir(call.url)' = GitDir(call.url)
    BY <1>1 DEF Tokens, GitDir, Services, Find1, NoSlashes, Drop1
  <2>3. served'.what = what /\ served'.repo = repo
    BY <1>1
  <2>4. CanAccess(repo, IF what = "git" /\ IsPush THEN Write ELSE Read, asker)'
    <3>1. IsPush' = IsPush
      BY <1>1 DEF IsPush
    <3> QED BY <3>1, SameAccess
  <2>5. ASSUME NEW q \in Repo, GitDir(call.url) = <<q[1], "/", q[2]>> PROVE q = repo
    <3>1. call.url \in Seq(Token)
      BY DEF RoutesIInv, OnItsWay
    <3>2. /\ TheRepo.kind = "repo" /\ TheRepo.instance = <<>>
          /\ TheRepo.owner = <<repo[1]>> /\ TheRepo.name = <<repo[2]>>
      BY DEF Found, IsOf
    <3> QED BY <2>5, <3>1, <3>2, GitDirIsItsOwn DEF TheRepo
  <2>6. \/ GitDir(call.url) = <<repo[1], "/", repo[2]>>
        \/ GitDir(call.url) \notin {<<r[1], "/", r[2]>> : r \in Repo}
    BY <2>5
  <2> DEFINE push == served.what = "git" /\ "git-receive-pack" \in Tokens(call.url)
  <2>7. CanAccess(served.repo, IF push THEN Write ELSE Read, asker)'
    <3> DEFINE level == IF what = "git" /\ IsPush THEN Write ELSE Read
    <3>1. (IF push THEN Write ELSE Read)' = level
      BY <2>1, <2>2, <2>3
    <3>2. asker' = asker
      BY SameAccess
    <3>3. CanAccess(repo, level, asker)
      OBVIOUS
    <3> HIDE DEF level, push
    <3>4. \A l, a : l = level /\ a = asker => CanAccess(repo, l, a)'
      BY <3>3, SameAccess
    <3> QED BY <2>3, <3>1, <3>2, <3>4
  <2>8. RoutesTypeOK' /\ GitDir(call.url)' = GitDir(call.url)
    BY <1>4, <2>2
  <2> QED BY <2>3, <2>6, <2>7, <2>8 DEF ServedWithAccess
<1>6. PageReachable'
  <2>1. ASSUME NEW r \in Repo, AsksForPage(r) PROVE CanAccess(r, Read, asker)'
    <3>1. what = "page" /\ CanAccess(repo, Read, asker)
      BY <2>1
    <3>2. TheRepo \in {Throws, Parsed(<<r[1]>>, <<>>, <<r[2]>>)}
      BY <2>1, PageUrlIsRepos DEF TheRepo, AsksForPage
    <3>3. TheRepo.kind = "repo" /\ TheRepo.owner = <<repo[1]>> /\ TheRepo.name = <<repo[2]>>
      BY DEF Found, IsOf
    <3>4. <<r[1]>> = <<repo[1]>> /\ <<r[2]>> = <<repo[2]>>
      BY <3>2, <3>3 DEF Throws, Parsed
    <3>5. r[1] = repo[1] /\ r[2] = repo[2]
      BY <3>4
    <3>6. r = repo
      BY <3>5, WordsOfRepo
    <3> QED BY <3>1, <3>6, SameAccess
  <2> QED BY <1>1, <2>1 DEF PageReachable, AsksForPage, PageUrl
<1>7. OnItsWay'
  BY <1>1, <1>3 DEF RoutesIInv, OnItsWay
<1> QED BY <1>5, <1>6, <1>7 DEF RoutesIInv

\* What the API tells is no matter of access.
LEMMA InfoKeeps ==
    ASSUME RoutesIInv, UNCHANGED searchVars, gitUp, routePc = "handling",
           NEW repo, Serves(repo, "info"), \A r \in Repo : ~AsksForPage(r)
    PROVE  RoutesIInv'
<1>1. /\ served' = [what |-> "info", repo |-> repo] /\ answers' = answers + 1 /\ status' = 200
      /\ routePc' = "done" /\ UNCHANGED <<call, gitUp, pending, onDisk>>
  BY DEF Serves, Answers, Responds, Stays
<1>2. RoutesTypeOK /\ answers = 0 /\ ~pending
  BY DEF RoutesIInv, ServedWithAccess, OnItsWay
<1>3. RoutesTypeOK'
  BY <1>1, <1>2 DEF RoutesTypeOK
<1>4. ServedWithAccess'
  <2>1. served'.what = "info"
    BY <1>1
  <2> QED BY <1>3, <2>1 DEF ServedWithAccess
<1>5. PageReachable'
  BY <1>1 DEF PageReachable, AsksForPage, PageUrl
<1>6. OnItsWay'
  BY <1>1, <1>2 DEF RoutesIInv, OnItsWay
<1> QED BY <1>4, <1>5, <1>6 DEF RoutesIInv

\* What is asked for with an '@' before the owner is for repo_router alone.
LEMMA PageIsRepos ==
    ASSUME NEW r \in Repo, AsksForPage(r)
    PROVE  /\ ~IsAsset /\ ~IsUser /\ IsPage
           /\ ~Begins({"api"}) /\ ~Begins(ApiLike) /\ ~Begins(RepoLike)
           /\ TheRepo.kind # "invalid"
           /\ TheRepo.kind = "repo" =>
                 TheRepo.instance = <<>> /\ TheRepo.owner = <<r[1]>> /\ TheRepo.name = <<r[2]>>
<1>1. call.url = PageUrl(r)
  BY DEF AsksForPage
<1>2. ~IsAsset /\ ~IsUser /\ IsPage /\ ~Begins(ApiLike \cup RepoLike)
  BY <1>1, PageUrlIsRepos
<1>3. ~Begins(ApiLike) /\ ~Begins(RepoLike)
  BY <1>2 DEF Begins
<1>4. ~Begins({"api"})
  BY <1>1 DEF Begins, PageUrl
<1>5. TheRepo \in {Throws, Parsed(<<r[1]>>, <<>>, <<r[2]>>)}
  BY <1>1, PageUrlIsRepos DEF TheRepo
<1>6. Throws.kind = "throws"
  BY DEF Throws
<1> DEFINE p == Parsed(<<r[1]>>, <<>>, <<r[2]>>)
<1>7. p.kind = "repo" /\ p.instance = <<>> /\ p.owner = <<r[1]>> /\ p.name = <<r[2]>>
  BY DEF Parsed
<1> HIDE DEF p
<1>8. TheRepo = Throws \/ TheRepo = p
  BY <1>5 DEF p
<1> QED BY <1>2, <1>3, <1>4, <1>6, <1>7, <1>8

\* The routers of static assets, users, the API and new repositories.
LEMMA OtherRoutersKeep ==
    ASSUME RoutesIInv, UNCHANGED searchVars,
           \/ StaticOrUser \/ ApiUser \/ ApiRepo \/ ApiOther \/ RepoPage
           \/ CreateAway \/ CreateHere
    PROVE  RoutesIInv'
<1>1. /\ routePc = "handling" /\ gitUp /\ routePc \in Busy
      /\ IsAsset \/ IsUser \/ Begins({"api"}) \/ Begins(ApiLike) \/ Begins(RepoLike)
  BY DEF StaticOrUser, ApiUser, ApiRepo, ApiOther, RepoPage, CreateAway, CreateHere, Posted, Routed,
         At, Busy
<1>2. \A r \in Repo : ~AsksForPage(r)
  BY <1>1, PageIsRepos
<1>3. ASSUME NEW code \in Codes, Says(code) PROVE RoutesIInv'
  BY <1>1, <1>2, <1>3, SaysKeeps
<1>4. Repo \subseteq onDisk /\ pending \in BOOLEAN /\ RoutesTypeOK
  BY DEF RoutesIInv, ServedWithAccess, RoutesTypeOK
<1>5. ASSUME SendToPeer PROVE RoutesIInv'
  <2>1. routePc' = "done" /\ UNCHANGED <<call, gitUp, answers, status, pending, served, onDisk>>
    BY <1>5 DEF SendToPeer, Stays
  <2> QED BY <1>1, <1>2, <1>4, <2>1, GoesOnKeeps
<1>6. {200, 303, 400, 401, 404, 500} \subseteq Codes /\ Denial \in Codes
  BY DEF Codes, Denial
<1>7. CASE StaticOrUser
  BY <1>3, <1>6, <1>7 DEF StaticOrUser
<1>8. CASE ApiUser
  <2> DEFINE rest == Drop1(call.url, 6)
             end == Find1(rest, {"/"}, 1)
             code == IF Drop1(rest, end) = <<"likes", "?", "bad">> THEN 400
                     ELSE IF rest[end + 1] \in {"likes", "likes_count"} THEN 200 ELSE 404
  <2>1. Says(404) \/ SendToPeer \/ Says(code)
    BY <1>8 DEF ApiUser
  <2>2. code \in Codes
    BY <1>6
  <2> HIDE DEF code
  <2> QED BY <1>3, <1>5, <1>6, <2>1, <2>2
<1>9. CASE ApiRepo
  <2>1. Ends \/ SendToPeer \/ Says(404) \/ Says(500) \/ \E r \in Repo : Serves(r, "info")
    BY <1>9 DEF ApiRepo
  <2> QED BY <1>1, <1>2, <1>3, <1>5, <1>6, <2>1, EndsKeeps, InfoKeeps
<1>10. CASE ApiOther
  <2> DEFINE code == IF call.url = <<"/", "api", "/", "v1">> THEN 400 ELSE 404
  <2>1. Says(code)
    BY <1>10 DEF ApiOther
  <2>2. code \in Codes
    BY <1>6
  <2> HIDE DEF code
  <2> QED BY <1>3, <2>1, <2>2
<1>11. CASE RepoPage
  <2> DEFINE code == IF asker \notin Local THEN Denial
                     ELSE IF ~IsNew THEN 404 ELSE IF call.post THEN 400 ELSE 200
  <2>1. Says(code)
    BY <1>11 DEF RepoPage
  <2>2. code \in Codes
    BY <1>6
  <2> HIDE DEF code
  <2> QED BY <1>3, <2>1, <2>2
<1>12. CASE CreateAway \/ CreateHere
  <2>1. Begins(RepoLike) /\ routePc' = "creating" /\ pending' \in BOOLEAN
        /\ UNCHANGED <<call, gitUp, answers, status, served, onDisk>>
    BY <1>4, <1>12 DEF CreateAway, CreateHere, Posted, Routed, Stays
  <2> QED BY <1>1, <1>2, <1>4, <2>1, GoesOnKeeps
<1> QED BY <1>7, <1>8, <1>9, <1>10, <1>11, <1>12

\* LocalRepo::create.
LEMMA CreationKeeps ==
    ASSUME RoutesIInv, UNCHANGED searchVars,
           CreateRefused \/ CreateDirectory \/ InitFails \/ Insert
    PROVE  RoutesIInv'
<1>1. gitUp /\ routePc \in {"creating", "inserting"} /\ routePc \in Busy
  BY DEF CreateRefused, CreateDirectory, InitFails, Insert, At, Busy
<1>2. Begins(RepoLike)
  BY <1>1 DEF RoutesIInv, OnItsWay
<1>3. \A r \in Repo : ~AsksForPage(r)
  BY <1>2, PageIsRepos
<1>4. ASSUME NEW code \in Codes, Says(code) PROVE RoutesIInv'
  BY <1>1, <1>3, <1>4, SaysKeeps
<1>5. {400, 401, 500} \subseteq Codes
  BY DEF Codes
<1>6. CASE CreateRefused
  <2> DEFINE code == IF call.form.owner # asker THEN 401 ELSE 400
  <2>1. Says(code)
    BY <1>6 DEF CreateRefused
  <2>2. code \in Codes
    BY <1>5
  <2> HIDE DEF code
  <2> QED BY <1>4, <2>1, <2>2
<1>7. CASE CreateDirectory
  <2>1. CASE Says(500)
    BY <1>4, <1>5, <2>1
  <2>2. CASE ~Says(500)
    <3>1. /\ onDisk' = onDisk \cup {New} /\ routePc' = "inserting"
          /\ UNCHANGED <<call, gitUp, answers, status, pending, served>>
      BY <1>7, <2>2 DEF CreateDirectory, Stays
    <3>2. Repo \subseteq onDisk /\ pending \in BOOLEAN
      BY DEF RoutesIInv, ServedWithAccess, RoutesTypeOK
    <3> QED BY <1>1, <1>2, <1>3, <3>1, <3>2, GoesOnKeeps
  <2> QED BY <2>1, <2>2
<1>8. CASE InitFails
  BY <1>4, <1>5, <1>8 DEF InitFails
<1>9. CASE Insert
  BY <1>1, <1>9, EndsKeeps DEF Insert
<1> QED BY <1>6, <1>7, <1>8, <1>9

\* repo_router.
LEMMA RepoRouterKeeps ==
    ASSUME RoutesIInv, UNCHANGED searchVars,
           NoRepo \/ RemoteRepo \/ \E r \in Repo : ShowPage(r) \/ NotServedYet(r) \/ ToGit(r)
    PROVE  RoutesIInv'
<1>1. gitUp /\ routePc = "handling" /\ routePc \in Busy /\ ToRepo
  BY DEF NoRepo, RemoteRepo, ShowPage, NotServedYet, ToGit, Found, ToRepo, At, Busy
<1>2. {200, 400, 401, 404} \subseteq Codes /\ Denial \in Codes
  BY DEF Codes, Denial
<1>3. ASSUME NEW code \in Codes, Says(code), \A r \in Repo : ~AsksForPage(r) PROVE RoutesIInv'
  BY <1>1, <1>3, SaysKeeps
<1>4. CASE NoRepo
  <2>1. CASE Ends
    BY <1>1, <2>1, EndsKeeps
  <2>2. CASE TheRepo.kind = "invalid" /\ Says(404)
    <3>1. \A r \in Repo : ~AsksForPage(r)
      BY <2>2, PageIsRepos
    <3> QED BY <1>2, <1>3, <2>2, <3>1
  <2>3. CASE TheRepo.kind = "repo" /\ ~InRepos(TheRepo) /\ Says(404)
    <3>1. \A r \in Repo : ~AsksForPage(r)
      BY <2>3, PageIsRepos DEF InRepos, IsOf
    <3> QED BY <1>2, <1>3, <2>3, <3>1
  <2> QED BY <1>4, <2>1, <2>2, <2>3 DEF NoRepo
<1>5. CASE RemoteRepo
  <2>1. /\ TheRepo.kind = "repo" /\ TheRepo.instance # <<>>
        /\ pending' = TRUE /\ routePc' = "done"
        /\ UNCHANGED <<call, gitUp, answers, status, served, onDisk>>
    BY <1>5 DEF RemoteRepo, Stays
  <2>2. \A r \in Repo : ~AsksForPage(r)
    BY <2>1, PageIsRepos
  <2>3. Repo \subseteq onDisk
    BY DEF RoutesIInv, ServedWithAccess, RoutesTypeOK
  <2> QED BY <1>1, <2>1, <2>2, <2>3, GoesOnKeeps
<1>6. ASSUME NEW repo \in Repo, ShowPage(repo) PROVE RoutesIInv'
  <2>1. Found(repo)
    BY <1>6 DEF ShowPage
  <2>2. CASE CanAccess(repo, Read, asker)
    <3>1. Serves(repo, "page")
      BY <1>6, <2>2 DEF ShowPage
    <3> DEFINE what == "page"
    <3>2. /\ what \in {"page", "git"} /\ Serves(repo, what)
          /\ CanAccess(repo, IF what = "git" /\ IsPush THEN Write ELSE Read, asker)
          /\ (what = "git" => \A r \in Repo : ~AsksForPage(r))
      BY <2>2, <3>1
    <3> HIDE DEF what
    <3> QED BY <2>1, <3>2, ServesKeeps
  <2>3. CASE ~CanAccess(repo, Read, asker)
    <3>1. Says(Denial)
      BY <1>6, <2>3 DEF ShowPage
    <3>2. ASSUME NEW r \in Repo, AsksForPage(r) PROVE ~CanAccess(r, Read, asker)
      <4>1. TheRepo.owner = <<r[1]>> /\ TheRepo.name = <<r[2]>>
        BY <2>1, <3>2, PageIsRepos DEF Found
      <4>2. <<r[1]>> = <<repo[1]>> /\ <<r[2]>> = <<repo[2]>>
        BY <2>1, <4>1 DEF Found, IsOf
      <4>3. r[1] = repo[1] /\ r[2] = repo[2]
        BY <4>2
      <4>4. r = repo
        BY <4>3, WordsOfRepo
      <4> QED BY <2>3, <4>4
    <3> QED BY <1>1, <1>2, <3>1, <3>2, SaysKeeps
  <2> QED BY <2>2, <2>3
<1>7. ASSUME NEW repo \in Repo, NotServedYet(repo) PROVE RoutesIInv'
  <2>1. \A r \in Repo : ~AsksForPage(r)
    BY <1>7, PageIsRepos DEF NotServedYet
  <2>2. Says(400) \/ Says(404)
    BY <1>7 DEF NotServedYet
  <2> QED BY <1>2, <1>3, <2>1, <2>2
<1>8. ASSUME NEW repo \in Repo, ToGit(repo) PROVE RoutesIInv'
  <2>1. \A r \in Repo : ~AsksForPage(r)
    BY <1>8, PageIsRepos DEF ToGit
  <2>2. CASE CanAccess(repo, IF IsPush THEN Write ELSE Read, asker)
    <3>1. Serves(repo, "git") /\ Found(repo)
      BY <1>8, <2>2 DEF ToGit
    <3> DEFINE what == "git"
    <3>2. /\ what \in {"page", "git"} /\ Serves(repo, what)
          /\ CanAccess(repo, IF what = "git" /\ IsPush THEN Write ELSE Read, asker)
      BY <2>2, <3>1
    <3> HIDE DEF what
    <3> QED BY <2>1, <3>1, <3>2, ServesKeeps
  <2>3. CASE ~CanAccess(repo, IF IsPush THEN Write ELSE Read, asker)
    <3>1. PICK code \in {401, Denial} : Says(code)
      BY <1>8, <2>3 DEF ToGit
    <3> QED BY <1>2, <1>3, <2>1, <3>1
  <2> QED BY <2>2, <2>3
<1> QED BY <1>4, <1>5, <1>6, <1>7, <1>8

\* Between two requests.
LEMMA IdleKeeps ==
    ASSUME RoutesTypeOK, UNCHANGED searchVars, NoRequest, gitUp' \in BOOLEAN
    PROVE  RoutesIInv'
<1>1. /\ routePc' = "idle" /\ call' = NoCall /\ answers' = 0 /\ status' = 0 /\ pending' = FALSE
      /\ served' = NotServed /\ UNCHANGED onDisk
  BY DEF NoRequest
<1>2. RoutesTypeOK'
  <2>1. pending' \in BOOLEAN
    BY <1>1, Zenon
  <2>2. /\ answers' \in 0..2 /\ status' \in {0, 200, 303, 400, 401, 404, 500}
        /\ routePc' \in {"idle", "handling", "creating", "inserting", "done"}
    BY <1>1
  <2> QED BY <1>1, <2>1, <2>2 DEF RoutesTypeOK
<1>3. ServedWithAccess'
  BY <1>1, <1>2 DEF ServedWithAccess, NotServed
<1>4. PageReachable'
  BY <1>1 DEF PageReachable
<1>5. call'.url \in Seq(Token)
  <2>1. <<>> \in Seq(Token)
    OBVIOUS
  <2> QED BY <1>1, <2>1 DEF NoCall
<1>6. OnItsWay'
  BY <1>1, <1>5 DEF OnItsWay
<1> QED BY <1>3, <1>4, <1>6 DEF RoutesIInv

LEMMA RoutesStep ==
    ASSUME RoutesIInv, [RoutesNext /\ UNCHANGED searchVars]_<<searchVars, routeVars>>
    PROVE  RoutesIInv'
<1>1. UNCHANGED searchVars
  OBVIOUS
<1>2. RoutesTypeOK
  BY DEF RoutesIInv, ServedWithAccess
<1>3. CASE UNCHANGED routeVars
  <2>1. UNCHANGED <<call, routePc, answers, status, pending, served, onDisk, gitUp>>
    BY <1>3 DEF routeVars
  <2>2. RoutesTypeOK'
    BY <1>2, <2>1 DEF RoutesTypeOK
  <2>3. ServedWithAccess'
    BY <1>1, <2>1, <2>2, ServedStays DEF RoutesIInv
  <2>4. PageReachable'
    BY <1>1, <2>1, SameAccess DEF RoutesIInv, PageReachable
  <2>5. OnItsWay'
    <3>1. Begins(RepoLike)' = Begins(RepoLike)
      BY <2>1 DEF Begins
    <3> QED BY <2>1, <3>1, SamePage DEF RoutesIInv, OnItsWay
  <2> QED BY <2>3, <2>4, <2>5 DEF RoutesIInv
<1>4. ASSUME NEW c, NextCall(c), c.url \in Seq(Token), c.form \in {<<>>} \cup Forms PROVE RoutesIInv'
  <2>1. /\ routePc = "idle" /\ call' = c /\ routePc' = "handling"
        /\ UNCHANGED <<answers, status, pending, served, onDisk, gitUp>>
    BY <1>4 DEF NextCall
  <2>2. answers = 0 /\ ~pending /\ served = NotServed
    BY <2>1 DEF RoutesIInv, OnItsWay
  <2>3. RoutesTypeOK'
    BY <1>2, <1>4, <2>1 DEF RoutesTypeOK
  <2>4. ServedWithAccess' /\ PageReachable'
    BY <2>1, <2>2, <2>3 DEF ServedWithAccess, PageReachable, NotServed
  <2>5. OnItsWay'
    BY <1>4, <2>1, <2>2 DEF OnItsWay
  <2> QED BY <2>4, <2>5 DEF RoutesIInv
<1>5. ASSUME NEW c \in PlainCalls \cup FormCalls, NextCall(c) PROVE RoutesIInv'
  <2>1. c.form \in {<<>>} \cup Forms
    BY DEF PlainCalls, FormCalls
  <2>2. c.url \in Seq(Token)
    BY UrlsAreTokens
  <2> QED BY <1>4, <1>5, <2>1, <2>2
<1>6. ASSUME NEW r \in Local \X Words, NEW c \in RepoCalls(r), NextCall(c) PROVE RoutesIInv'
  <2>1. c.form \in {<<>>} \cup Forms
    BY DEF RepoCalls
  <2>2. c.url \in Seq(Token)
    BY UrlsAreTokens
  <2> QED BY <1>4, <1>6, <2>1, <2>2
<1>7. CASE Handler
  BY <1>1, <1>7, OtherRoutersKeep, CreationKeeps, RepoRouterKeeps DEF Handler
<1>8. CASE PeerAnswers
  <2>1. PICK code \in {200, 404, 500} : answers' = answers + 1 /\ status' = code
    BY <1>8 DEF PeerAnswers, Responds
  <2>2. pending /\ pending' = FALSE /\ UNCHANGED <<call, routePc, served, onDisk, gitUp>>
    BY <1>8 DEF PeerAnswers
  <2>3. /\ answers \in 0..2 /\ answers <= 1 /\ routePc \notin {"idle", "handling"}
        /\ (routePc \in {"creating", "inserting"} => answers = 0)
        /\ \A r \in Repo : ~AsksForPage(r)
    BY <1>2, <2>2 DEF RoutesIInv, OnItsWay, RoutesTypeOK
  <2>4. RoutesTypeOK'
    <3>1. pending' \in BOOLEAN
      BY <2>2, Zenon
    <3>2. answers' \in 0..2 /\ status' \in {0, 200, 303, 400, 401, 404, 500}
      BY <2>1, <2>3
    <3> QED BY <1>2, <2>2, <3>1, <3>2 DEF RoutesTypeOK
  <2>5. ServedWithAccess'
    BY <1>1, <2>2, <2>4, ServedStays DEF RoutesIInv
  <2>6. PageReachable'
    BY <2>2, <2>3 DEF PageReachable, AsksForPage, PageUrl
  <2>7. Begins(RepoLike)' = Begins(RepoLike)
    BY <2>2 DEF Begins
  <2>8. OnItsWay'
    BY <2>1, <2>2, <2>3, <2>7 DEF RoutesIInv, OnItsWay
  <2> QED BY <2>5, <2>6, <2>8 DEF RoutesIInv
<1>9. CASE ThreadIsFree \/ GitRestarts
  <2>1. NoRequest /\ gitUp' \in BOOLEAN
    BY <1>2, <1>9 DEF ThreadIsFree, GitRestarts, RoutesTypeOK
  <2> QED BY <1>1, <1>2, <2>1, IdleKeeps
<1>10. RoutesNext \/ UNCHANGED routeVars
  OBVIOUS
<1> QED BY <1>3, <1>5, <1>6, <1>7, <1>8, <1>9, <1>10 DEF RoutesNext

LEMMA RoutesInvariant == RoutesSpec => []RoutesIInv
<1>1. ASSUME RoutesInit PROVE RoutesIInv
  <2>1. /\ call = NoCall /\ routePc = "idle" /\ answers = 0 /\ status = 0 /\ pending = FALSE
        /\ served = NotServed /\ onDisk = Repo /\ gitUp = TRUE
    BY <1>1 DEF RoutesInit
  <2>2. RoutesTypeOK
    <3>1. pending \in BOOLEAN /\ gitUp \in BOOLEAN
      BY <2>1, Zenon
    <3>2. /\ answers \in 0..2 /\ status \in {0, 200, 303, 400, 401, 404, 500}
          /\ routePc \in {"idle", "handling", "creating", "inserting", "done"}
      BY <2>1
    <3> QED BY <2>1, <3>1, <3>2 DEF RoutesTypeOK
  <2>3. <<>> \in Seq(Token)
    OBVIOUS
  <2>4. OnItsWay
    BY <2>1, <2>3 DEF OnItsWay, NoCall
  <2> QED BY <2>1, <2>2, <2>4 DEF RoutesIInv, ServedWithAccess, PageReachable, NotServed
<1> QED BY <1>1, RoutesStep, PTL DEF RoutesSpec

\* Whatever a request is taken for, what it is served its requester may read, and
\* push to when it pushes (repo_router, git_http_backend).
THEOREM ServedToReaders == RoutesSpec => []ServedWithAccess
<1>1. RoutesIInv => ServedWithAccess
  BY DEF RoutesIInv
<1> QED BY <1>1, RoutesInvariant, PTL

\* An '@' before the owner reaches the page of a repository, whatever it is called
\* (user_router, api_router, repo_router).
THEOREM PagesAreReached == RoutesSpec => []PageReachable
<1>1. RoutesIInv => PageReachable
  BY DEF RoutesIInv
<1> QED BY <1>1, RoutesInvariant, PTL

\* A request is one of those modelled, or none.
CallMade ==
    \/ call = NoCall
    \/ call \in PlainCalls \cup FormCalls
    \/ \E r \in Local \X Words : call \in RepoCalls(r)

\* A request stays as it is until the next.
LEMMA CallStays ==
    ASSUME [RoutesNext /\ UNCHANGED searchVars]_<<searchVars, routeVars>>
    PROVE  \/ call' = call \/ call' = NoCall
           \/ call' \in PlainCalls \cup FormCalls
           \/ \E r \in Local \X Words : call' \in RepoCalls(r)
<1>1. CASE UNCHANGED routeVars
  BY <1>1 DEF routeVars
<1>2. CASE Handler
  <2>1. ASSUME NEW code, Says(code) PROVE call' = call
    BY <2>1 DEF Says, Stays
  <2>2. ASSUME NEW repo, NEW what, Serves(repo, what) PROVE call' = call
    BY <2>2 DEF Serves, Stays
  <2>3. Ends \/ SendToPeer => call' = call
    BY DEF Ends, SendToPeer, Stays
  <2>4. StaticOrUser \/ ApiUser \/ ApiOther \/ RepoPage => call' = call
    BY <2>1, <2>3 DEF StaticOrUser, ApiUser, ApiOther, RepoPage
  <2>8. ApiRepo => call' = call
    BY <2>1, <2>2, <2>3 DEF ApiRepo
  <2>5. CreateAway \/ CreateHere \/ CreateRefused \/ CreateDirectory \/ InitFails \/ Insert => call' = call
    BY <2>1, <2>3 DEF CreateAway, CreateHere, CreateRefused, CreateDirectory, InitFails, Insert, Stays
  <2>6. NoRepo \/ RemoteRepo => call' = call
    BY <2>1, <2>3 DEF NoRepo, RemoteRepo, Stays
  <2>7. ASSUME NEW r \in Repo, ShowPage(r) \/ NotServedYet(r) \/ ToGit(r) PROVE call' = call
    BY <2>1, <2>2, <2>7 DEF ShowPage, NotServedYet, ToGit
  <2> QED BY <1>2, <2>4, <2>5, <2>6, <2>7, <2>8 DEF Handler
<1>3. CASE PeerAnswers \/ ThreadIsFree \/ GitRestarts
  BY <1>3 DEF PeerAnswers, ThreadIsFree, GitRestarts, NoRequest
<1>4. ASSUME NEW c, NextCall(c) PROVE call' = c
  BY <1>4 DEF NextCall
<1>5. RoutesNext \/ UNCHANGED routeVars
  OBVIOUS
<1> QED BY <1>1, <1>2, <1>3, <1>4, <1>5 DEF RoutesNext

\* Only the requests modelled are made.
LEMMA CallsAreMade == RoutesSpec => []CallMade
<1>1. RoutesInit => CallMade
  BY DEF RoutesInit, CallMade
<1>2. CallMade /\ [RoutesNext /\ UNCHANGED searchVars]_<<searchVars, routeVars>> => CallMade'
  BY CallStays DEF CallMade
<1> QED BY <1>1, <1>2, PTL DEF RoutesSpec

\* However a repository of this instance is spelled, its url names that repository, or
\* none if there is an '@' in its query (BasicRepo::from_path).
THEOREM SpellingsAreOne == RoutesSpec => []SpellingsAgree
<1>1. CallMade => SpellingsAgree
  <2> SUFFICES ASSUME CallMade, SpellsOne
               PROVE  WhatIsRead = Meant \/ (AtInQuery /\ WhatIsRead.kind = "invalid")
    BY DEF SpellingsAgree
  <2>0. /\ call.means # <<>> /\ ~({call.means[1], call.means[2]} \subseteq Terse)
        /\ call.means[1] = "api" => ~Begins({"api"})
        /\ Away \notin Tokens(call.url)
    BY DEF SpellsOne
  <2>1. PICK r \in Local \X Words : call.means = r /\ call.url \in RepoUrls(r)
    <3>1. NoCall.means = <<>>
      BY DEF NoCall
    <3>2. \A c \in PlainCalls : c.means = <<>>
      BY DEF PlainCalls
    <3>3. \A c \in FormCalls : c.means = <<>>
      BY DEF FormCalls
    <3>4. PICK r \in Local \X Words : call \in RepoCalls(r)
      BY <2>0, <3>1, <3>2, <3>3 DEF CallMade
    <3>5. call.means = r /\ call.url \in RepoUrls(r)
      BY <3>4 DEF RepoCalls
    <3> QED BY <3>5
  <2>2. PICK spelled \in Spelled(r) :
              \/ \E endpoint \in {"info", "tree"} : call.url = ApiPath(endpoint) \o spelled
              \/ \E before \in {<<"/">>, <<"/", "/">>}, below \in Below :
                    call.url = before \o (spelled \o below)
    BY <2>1, RepoUrlIs
  <2>3. ~(r[1] \in Terse /\ r[2] \in Terse)
    BY <2>0, <2>1
  <2>4. Meant = Parsed(<<r[1]>>, <<>>, <<r[2]>>) /\ Invalid(<<>>).kind = "invalid"
    BY <2>1 DEF Meant, Invalid
  <2>5. CASE \E endpoint \in {"info", "tree"} : call.url = ApiPath(endpoint) \o spelled
    <3>1. PICK endpoint \in {"info", "tree"} : call.url = ApiPath(endpoint) \o spelled
      BY <2>5
    <3> DEFINE url == call.url
               rest == Drop1(url, 6)
    <3>2. /\ url \in Seq(Token) /\ Len(url) > 6 /\ url[2] = "api"
          /\ rest = <<"/">> \o (spelled \o <<>>)
      BY <3>1, ApiUrlIs
    <3>3. Begins({"api"})
      BY <3>2 DEF Begins
    <3>4. /\ rest \in Seq(Token) /\ Len(rest) = Len(url) - 6 /\ Len(url) \in Nat
          /\ \A k \in 1..(Len(url) - 6) : rest[k] = url[6 + k]
      <4>1. 6 \in 0..Len(url) /\ Len(url) \in Nat
        BY <3>2, LenProperties
      <4> QED BY <3>2, <4>1, DropIs
    <3>5. <<>> \in Below /\ <<"/">> \in {<<"/">>, <<"/", "/">>}
      BY DEF Below
    <3>6. \/ FromPath(rest) = Parsed(<<r[1]>>, <<>>, <<r[2]>>)
          \/ Away \in Tokens(rest)
          \/ FromPath(rest) = Invalid(<<>>) /\ AtIn(rest)
      <4> HIDE DEF rest
      <4> QED BY <2>3, <3>2, <3>5, RepoIsRead, Zenon
    <3> HIDE DEF rest
    <3>7. \A k \in DOMAIN rest : 6 + k \in DOMAIN url /\ url[6 + k] = rest[k]
      <4> TAKE k \in DOMAIN rest
      <4>1. k \in 1..(Len(url) - 6) /\ 6 + k \in 1..Len(url)
        BY <3>4
      <4> QED BY <3>2, <3>4, <4>1
    <3>8. Away \notin Tokens(rest)
      BY <2>0, <3>7 DEF Tokens
    <3>9. AtIn(rest) => AtInQuery
      <4> SUFFICES ASSUME AtIn(rest) PROVE AtInQuery
        OBVIOUS
      <4>1. PICK i, j \in DOMAIN rest : i < j /\ rest[i] = "?" /\ rest[j] = "@"
        BY DEF AtIn
      <4>2. 6 + i < 6 + j
        <5>1. i \in Nat /\ j \in Nat
          BY <3>4, <4>1
        <5> QED BY <4>1, <5>1
      <4> QED BY <3>7, <4>1, <4>2 DEF AtInQuery
    <3> QED BY <2>4, <3>3, <3>6, <3>8, <3>9 DEF WhatIsRead, rest
  <2>6. CASE \E before \in {<<"/">>, <<"/", "/">>}, below \in Below :
                call.url = before \o (spelled \o below)
    <3>1. PICK before \in {<<"/">>, <<"/", "/">>}, below \in Below :
             call.url = before \o (spelled \o below)
      BY <2>6
    <3>2. call.url[2] \in {"/", "@", r[1]}
      BY <3>1, PathUrlIs, Zenon
    <3>3. ~Begins({"api"})
      BY <2>0, <2>1, <3>2 DEF Begins
    <3> DEFINE url == before \o (spelled \o below)
    <3>4. \/ FromPath(url) = Parsed(<<r[1]>>, <<>>, <<r[2]>>)
          \/ Away \in Tokens(url)
          \/ FromPath(url) = Invalid(<<>>) /\ AtIn(url)
          \/ (r[1] \in Terse /\ r[2] \in Terse)
      <4>1. \/ FromPath(url) = Parsed(<<r[1]>>, <<>>, <<r[2]>>)
            \/ FromPath(url) = Parsed(<<r[1]>>, <<Away>>, <<r[2]>>) /\ Away \in Tokens(url)
            \/ FromPath(url) = Invalid(<<>>) /\ AtIn(url)
            \/ /\ FromPath(url) = Throws /\ r[1] \in Terse /\ r[2] \in Terse
               /\ \E i \in DOMAIN url : Slice(url, i, i + 2) = <<r[1], "/", r[2]>>
        BY RepoIsRead
      <4> HIDE DEF url
      <4> QED BY <4>1
    <3>5. call.url = url
      BY <3>1
    <3> HIDE DEF url
    <3> QED BY <2>0, <2>3, <2>4, <3>3, <3>4, <3>5 DEF WhatIsRead, AtIn, AtInQuery
  <2> QED BY <2>2, <2>5, <2>6
<1> QED BY <1>1, CallsAreMade, PTL

(***************************************************************************)
(* Which requests are answered, and how often.                             *)
(***************************************************************************)

\* The endpoints of repo_api have a "repo" in their place.
LEMMA RepoApiIs ==
    ASSUME call.url \in Seq(Token), ForRepoApi
    PROVE  /\ Len(call.url) >= 6 /\ call.url[3] = "/" /\ call.url[4] = "repo"
           /\ call.url[5] = "/" /\ call.url[6] \in {"info", "tree"}
<1> DEFINE url == call.url
           slice == Slice(url, 3, 6)
<1>1. Len(slice) = 4 /\ slice[1] = "/" /\ slice[2] = "repo" /\ slice[3] = "/"
      /\ slice[4] \in {"info", "tree"}
  BY DEF ForRepoApi, ApiEndpoint
<1>2. url \in Seq(Token) /\ Len(url) \in Nat
  BY LenProperties
<1> HIDE DEF url
<1>3. CASE Len(url) >= 6
  <2>1. slice = SubSeq(url, 3, 6)
    BY <1>2, <1>3 DEF Slice
  <2>2. \A k \in 1..4 : slice[k] = url[2 + k]
    BY <1>2, <1>3, <2>1
  <2>3. slice[1] = url[3] /\ slice[2] = url[4] /\ slice[3] = url[5] /\ slice[4] = url[6]
    BY <2>2
  <2> QED BY <1>1, <1>3, <2>3 DEF url
<1>4. CASE ~(Len(url) >= 6)
  <2>1. slice = SubSeq(url, 3, Len(url))
    BY <1>2, <1>4 DEF Slice
  <2>2. Len(slice) < 4
    BY <1>2, <1>4, <2>1
  <2> QED BY <1>1, <2>2
<1> QED BY <1>3, <1>4

\* The instance from_path reads stands behind the first '@'.
InstanceIn(full) ==
    LET url == Unescaped(NoSlashes(full))
        slash == Find1(url, {"/"}, 1)
        at == Find1(url, {"@"}, 1) IN
    IF at > Len(url) THEN <<>> ELSE Foreign(SubSeq(url, at + 1, slash - 1))

LEMMA InstanceIsRead ==
    ASSUME NEW full, FromPath(full).kind # "throws"
    PROVE  FromPath(full).instance \in {<<>>, InstanceIn(full)}
<1>1. \A i : Invalid(i).instance = i
  BY DEF Invalid
<1>2. \A o, i, n : Parsed(o, i, n).instance = i
  BY DEF Parsed
<1>3. Throws.kind = "throws"
  BY DEF Throws
<1>4. FromPath(full) = Throws
      \/ (\E i \in {<<>>, InstanceIn(full)} : FromPath(full) = Invalid(i))
      \/ (\E o, n : FromPath(full) = Parsed(o, InstanceIn(full), n))
  BY DEF FromPath, InstanceIn
<1> QED BY <1>1, <1>2, <1>3, <1>4

\* Without an '@' there is none.
LEMMA NoAtNoInstance ==
    ASSUME NEW full \in Seq(Token), \A k \in 1..Len(full) : full[k] # "@"
    PROVE  InstanceIn(full) = <<>>
<1> DEFINE bare == NoSlashes(full)
           url == Unescaped(bare)
           words == {j \in DOMAIN full : full[j] # "/"}
<1>1. bare \in Seq(Token) /\ Len(bare) \in Nat /\ \A k \in 1..Len(bare) : bare[k] # "@"
  <2>1. CASE words = {}
    <3>1. bare = <<>>
      BY <2>1 DEF NoSlashes
    <3> HIDE DEF bare
    <3> QED BY <3>1
  <2>2. CASE words # {}
    <3>1. PICK n \in words : \A k \in words : n <= k
      <4>1. words \subseteq Nat
        OBVIOUS
      <4> QED BY <2>2, <4>1, Least
    <3>2. n \in 1..Len(full) /\ full[n] # "/" /\ \A k \in 1..(n - 1) : full[k] = "/"
      BY <3>1
    <3>3. bare = Drop1(full, n - 1)
      BY <3>2, NoSlashesIs
    <3>4. n - 1 \in 0..Len(full)
      BY <3>2
    <3> DEFINE m == n - 1
    <3>5. /\ Drop1(full, m) \in Seq(Token) /\ Len(Drop1(full, m)) = Len(full) - m
          /\ \A k \in 1..(Len(full) - m) : Drop1(full, m)[k] = full[m + k]
      <4> HIDE DEF m
      <4> QED BY <3>4, DropIs DEF m
    <3>6. m \in 0..Len(full) /\ Len(full) \in Nat
      BY <3>4, LenProperties
    <3>7. bare = Drop1(full, m)
      BY <3>3
    <3> HIDE DEF m, bare
    <3> DEFINE drop == Drop1(full, m)
    <3>8. drop \in Seq(Token) /\ Len(drop) = Len(full) - m
          /\ \A k \in 1..(Len(full) - m) : drop[k] = full[m + k]
      BY <3>5
    <3> HIDE DEF drop
    <3>9. \A k \in 1..(Len(full) - m) : m + k \in 1..Len(full)
      BY <3>6
    <3>10. bare = drop
      BY <3>7 DEF drop
    <3>11. \A k \in 1..Len(bare) : bare[k] = full[m + k] /\ m + k \in 1..Len(full)
      BY <3>8, <3>9, <3>10
    <3>12. Len(bare) \in Nat
      BY <3>8, <3>10, LenProperties
    <3> QED BY <3>8, <3>10, <3>11, <3>12
  <2> QED BY <2>1, <2>2
<1>2. url = bare
  <2> HIDE DEF bare
  <2>1. bare # <<>> => Head(bare) # "@"
    BY <1>1
  <2> QED BY <2>1 DEF Unescaped
<1>3. \A k \in 1..Len(url) : url[k] \notin {"@"}
  BY <1>1, <1>2
<1> HIDE DEF url
<1>4. Find1(url, {"@"}, 1) = Len(url) + 1 /\ Len(url) \in Nat
  BY <1>1, <1>2, <1>3, FindNone
<1> QED BY <1>4 DEF InstanceIn, url

\* The domain of this instance behind it is none.
LEMMA HereIsNone ==
    ASSUME NEW full \in Seq(Token), Len(full) = 5, full[1] = "/", full[2] \notin {"/", "@"},
           full[3] = "@", full[4] = Here, full[5] = "/"
    PROVE  InstanceIn(full) = <<>>
<1> DEFINE bare == NoSlashes(full)
<1>1. bare = Drop1(full, 1)
  <2>1. 2 \in 1..Len(full) /\ full[2] # "/" /\ \A k \in 1..(2 - 1) : full[k] = "/"
    OBVIOUS
  <2> QED BY <2>1, NoSlashesIs
<1>2. /\ bare \in Seq(Token) /\ Len(bare) = 4 /\ bare[1] = full[2] /\ bare[2] = "@"
      /\ bare[3] = Here /\ bare[4] = "/"
  <2>1. 1 \in 0..Len(full)
    OBVIOUS
  <2>2. /\ Drop1(full, 1) \in Seq(Token) /\ Len(Drop1(full, 1)) = Len(full) - 1
        /\ \A k \in 1..(Len(full) - 1) : Drop1(full, 1)[k] = full[1 + k]
    BY <2>1, DropIs
  <2> HIDE DEF bare
  <2> QED BY <1>1, <2>2
<1>3. Unescaped(bare) = bare
  <2> HIDE DEF bare
  <2>1. Head(bare) # "@"
    BY <1>2
  <2> QED BY <2>1 DEF Unescaped
<1> HIDE DEF bare
<1>4. Find1(bare, {"@"}, 1) = 2
  <2>1. 2 \in 1..Len(bare) /\ bare[2] \in {"@"} /\ \A k \in 1..(2 - 1) : bare[k] \notin {"@"}
    BY <1>2
  <2> QED BY <1>2, <2>1, FindIs
<1>5. Find1(bare, {"/"}, 1) = 4
  <2>1. Here # "/"
    BY RoutesAssumption DEF Separator
  <2>2. 4 \in 1..Len(bare) /\ bare[4] \in {"/"} /\ \A k \in 1..(4 - 1) : bare[k] \notin {"/"}
    BY <1>2, <2>1
  <2> QED BY <1>2, <2>2, FindIs
<1>6. SubSeq(bare, 2 + 1, 4 - 1) = <<Here>>
  <2>1. 3 \in 1..Len(bare)
    BY <1>2
  <2>2. SubSeq(bare, 3, 3) = <<bare[3]>>
    BY <1>2, <2>1, OneOf
  <2> QED BY <1>2, <2>2
<1> QED BY <1>2, <1>3, <1>4, <1>5, <1>6 DEF InstanceIn, Foreign, bare

\* A url that begins as one of repo_api does, though it is that of a repository of a user
\* called "api" with the name "repo": there is no instance behind it.
LEMMA OwnerCalledApi ==
    ASSUME NEW r \in Local \X Words, NEW spelled \in Spelled(r), NEW below \in Below,
           NEW before \in {<<"/">>, <<"/", "/">>},
           call.url = before \o (spelled \o below),
           call.url[2] = "api", ForRepoApi
    PROVE  InstanceIn(Drop1(call.url, 6)) = <<>>
<1> DEFINE path == spelled \o below
           url == call.url
           slash == <<"/">>
<1>1. url \in Seq(Token) /\ Len(url) \in Nat
  BY PathUrlIs, LenProperties
<1>2. /\ Len(url) >= 6 /\ url[2] = "api" /\ url[3] = "/" /\ url[4] = "repo" /\ url[5] = "/"
      /\ url[6] \in {"info", "tree"}
  BY <1>1, RepoApiIs
<1>3. path \in Seq(Token) /\ Len(path) >= 1 /\ Len(path) \in Nat
  BY SpelledStarts, LenProperties
<1>4. "/" \in Token /\ slash \in Seq(Token) /\ Len(slash) = 1
  BY DEF Token
<1> HIDE DEF path, slash
<1>5. url = slash \o path
  <2>1. CASE before = slash
    BY <2>1 DEF path
  <2>2. CASE before = <<"/", "/">>
    <3> DEFINE slashes == <<"/", "/">>
    <3>1. slashes \in Seq(Token) /\ Len(slashes) = 2 /\ slashes[2] = "/"
      BY <1>4
    <3> HIDE DEF slashes
    <3>2. \A i \in 1..(Len(slashes) + Len(path)) :
             (slashes \o path)[i] = IF i <= Len(slashes) THEN slashes[i] ELSE path[i - Len(slashes)]
      BY <1>3, <3>1, ConcatProperties
    <3>3. (slashes \o path)[2] = "/"
      <4>1. 2 \in 1..(Len(slashes) + Len(path)) /\ 2 <= Len(slashes)
        BY <1>3, <3>1
      <4> QED BY <3>1, <3>2, <4>1
    <3> QED BY <1>2, <2>2, <3>3 DEF slashes, path
  <2> QED BY <2>1, <2>2 DEF slash
<1> HIDE DEF url
<1>6. Len(url) = 1 + Len(path) /\ \A k \in 1..Len(path) : url[1 + k] = path[k]
  <2>1. Len(slash \o path) = Len(slash) + Len(path)
    BY <1>3, <1>4, ConcatProperties
  <2>2. ASSUME NEW k \in 1..Len(path) PROVE (slash \o path)[Len(slash) + k] = path[k]
    <3>1. slash \in Seq(Token) /\ path \in Seq(Token)
      BY <1>3, <1>4
    <3> QED BY <3>1, BehindIs
  <2> QED BY <1>4, <1>5, <2>1, <2>2
<1>7. /\ Len(path) >= 5 /\ path[1] = "api" /\ path[2] = "/" /\ path[3] = "repo" /\ path[4] = "/"
      /\ path[5] \in {"info", "tree"}
  <2>1. Len(path) >= 5
    BY <1>2, <1>3, <1>6
  <2>2. 1 \in 1..Len(path) /\ 2 \in 1..Len(path) /\ 3 \in 1..Len(path) /\ 4 \in 1..Len(path)
        /\ 5 \in 1..Len(path)
    BY <1>3, <2>1
  <2> QED BY <1>2, <1>6, <2>1, <2>2
<1>8. PICK ats \in Ats, instance \in Instances, git \in {<<>>, <<".git">>} :
         path = ats \o Path(r, instance, git, below)
  BY SpelledIs DEF path
<1> DEFINE bare == Path(r, instance, git, below)
           sl == Len(instance) + 2
<1>9. Reads(bare, r[1], r[2], sl, sl + 2 + Len(git)) /\ bare # <<>> /\ Len(bare) >= 3
  BY PathReads
<1>10. path = bare
  <2> HIDE DEF bare, sl
  <2>1. bare \in Seq(Token)
    BY <1>9 DEF Reads
  <2>2. CASE ats = <<>>
    BY <1>8, <2>1, <2>2, ConcatEmptySeq DEF bare
  <2>3. CASE ats = <<"@">>
    <3> DEFINE at == <<"@">>
    <3>1. "@" \in Token
      BY DEF Token
    <3>2. at \in Seq(Token) /\ Len(at) = 1 /\ at[1] = "@" /\ Len(bare) \in Nat
      BY <2>1, <3>1, LenProperties
    <3> HIDE DEF at
    <3>3. \A i \in 1..(Len(at) + Len(bare)) :
             (at \o bare)[i] = IF i <= Len(at) THEN at[i] ELSE bare[i - Len(at)]
      BY <2>1, <3>2, ConcatProperties
    <3>4. (at \o bare)[1] = "@"
      BY <3>2, <3>3
    <3>5. path[1] = "@"
      BY <1>8, <2>3, <3>4 DEF at, bare
    <3> QED BY <1>7, <3>5
  <2> QED BY <2>2, <2>3 DEF Ats
<1>11. instance = <<>> /\ git = <<>>
  <2>1. Len(instance) = 0
    <3>1. sl # 4
      <4> HIDE DEF bare, sl
      <4> QED BY <1>7, <1>9, <1>10 DEF Reads
    <3>2. Len(instance) = 0 \/ Len(instance) = 2
      BY DEF Instances
    <3> DEFINE m == Len(instance)
    <3>3. (m = 0 \/ m = 2) /\ m + 2 # 4
      BY <3>1, <3>2
    <3> HIDE DEF m
    <3>4. m = 0
      BY <3>3
    <3> QED BY <3>4 DEF m
  <2>2. instance = <<>>
    <3>1. Len(<<"@", Here>>) = 2 /\ Len(<<"@", Away>>) = 2
      OBVIOUS
    <3> QED BY <2>1, <3>1 DEF Instances
  <2>3. git # <<".git">>
    <3> SUFFICES ASSUME git = <<".git">> PROVE FALSE
      OBVIOUS
    <3>1. Len(git) = 1
      OBVIOUS
    <3>2. Reads(bare, r[1], r[2], 2, 5)
      BY <1>9, <2>1, <3>1
    <3> HIDE DEF bare
    <3> QED BY <1>7, <1>10, <3>2 DEF Reads
  <2> QED BY <2>2, <2>3
<1>12. path = <<r[1], "/", r[2]>> \o below
  <2> DEFINE owner == <<r[1]>>
             name == <<"/", r[2]>>
             both == <<r[1], "/", r[2]>>
  <2>1. owner \in Seq(Token) /\ name \in Seq(Token) /\ both \in Seq(Token) /\ owner \o name = both
    <3>1. r[1] \in Token /\ r[2] \in Token
      BY WordsAreNone
    <3>2. owner \in Seq(Token) /\ name \in Seq(Token) /\ both \in Seq(Token)
      BY <1>4, <3>1
    <3>3. owner \o name = both
      <4>1. /\ Len(owner) = 1 /\ Len(name) = 2 /\ Len(both) = 3 /\ owner[1] = both[1]
            /\ name[1] = both[2] /\ name[2] = both[3]
        OBVIOUS
      <4> HIDE DEF owner, name, both
      <4>2. /\ owner \o name \in Seq(Token) /\ Len(owner \o name) = Len(owner) + Len(name)
            /\ \A i \in 1..(Len(owner) + Len(name)) :
                  (owner \o name)[i] = IF i <= Len(owner) THEN owner[i] ELSE name[i - Len(owner)]
        BY <3>2, ConcatProperties
      <4>3. \A i \in 1..Len(owner \o name) : (owner \o name)[i] = both[i]
        BY <4>1, <4>2
      <4> QED BY <3>2, <4>1, <4>2, <4>3, SeqEqual
    <3> QED BY <3>2, <3>3
  <2>2. bare = owner \o <<>> \o name \o <<>> \o below
    BY <1>11 DEF Path
  <2> HIDE DEF owner, name, both, bare
  <2>3. owner \o <<>> = owner /\ both \o <<>> = both
    BY <2>1, ConcatEmptySeq
  <2>4. bare = both \o below
    BY <2>1, <2>2, <2>3
  <2> QED BY <1>10, <2>4 DEF both
<1>13. Len(path) = 3 + Len(below) /\ \A k \in 1..Len(below) : path[3 + k] = below[k]
  <2> DEFINE both == <<r[1], "/", r[2]>>
  <2>1. both \in Seq(Token) /\ Len(both) = 3 /\ below \in Seq(Token)
    BY <1>4, WordsAreNone, BelowIs
  <2>2. path = both \o below
    BY <1>12
  <2> HIDE DEF both
  <2>3. Len(both \o below) = Len(both) + Len(below)
    BY <2>1, ConcatProperties
  <2>4. ASSUME NEW k \in 1..Len(below) PROVE (both \o below)[Len(both) + k] = below[k]
    <3>1. both \in Seq(Token) /\ below \in Seq(Token)
      BY <2>1
    <3> QED BY <3>1, BehindIs
  <2> QED BY <2>1, <2>2, <2>3, <2>4
<1>14. Len(below) >= 2 /\ Len(below) \in Nat /\ below[2] \in {"info", "tree"}
  <2>1. Len(below) >= 2 /\ Len(below) \in Nat
    BY <1>7, <1>13, BelowIs
  <2>2. 2 \in 1..Len(below) /\ 3 + 2 = 5
    BY <2>1
  <2> QED BY <1>7, <1>13, <2>1, <2>2
<1>15. \A k \in 1..Len(below) : below[k] # "@"
  BY <1>14, BelowIs
<1> DEFINE rest == Drop1(url, 6)
<1>16. /\ rest \in Seq(Token) /\ Len(rest) = Len(url) - 6
       /\ \A k \in 1..(Len(url) - 6) : rest[k] = url[6 + k]
  <2>1. 6 \in 0..Len(url)
    BY <1>1, <1>2
  <2> QED BY <1>1, <2>1, DropIs
<1> HIDE DEF rest
<1>17. ASSUME NEW k \in 1..Len(rest) PROVE rest[k] # "@"
  <2>1. Len(rest) = Len(below) - 2 /\ Len(path) = 3 + Len(below)
    BY <1>3, <1>6, <1>13, <1>14, <1>16
  <2>2. PICK i, j : i = k + 2 /\ j = k + 5
    OBVIOUS
  <2>3. i \in 1..Len(below) /\ j \in 1..Len(path) /\ 6 + k = 1 + j /\ j = 3 + i
    BY <1>14, <2>1, <2>2
  <2>4. rest[k] = url[6 + k]
    BY <1>16
  <2>5. url[1 + j] = path[j] /\ path[3 + i] = below[i]
    BY <1>6, <1>13, <2>3
  <2> QED BY <1>15, <2>3, <2>4, <2>5
<1> QED BY <1>16, <1>17, NoAtNoInstance DEF rest, url

\* What repo_api takes for another instance's has that in it: of the urls that spell no
\* repository...
LEMMA PlainUrlsAsk ==
    ASSUME call.url \in PlainUrls, ForRepoApi, InstanceIn(Drop1(call.url, 6)) # <<>>
    PROVE  Away \in Tokens(call.url)
<1> DEFINE url == call.url
<1>1. url \in Seq(Token)
  <2> DEFINE c == [url |-> call.url, means |-> <<>>, post |-> FALSE, form |-> <<>>]
  <2>1. c \in PlainCalls /\ c.url = call.url
    BY DEF PlainCalls
  <2> HIDE DEF c
  <2> QED BY <2>1, UrlsAreTokens
<1>2. Len(url) >= 6 /\ url[3] = "/" /\ url[4] = "repo"
  BY <1>1, RepoApiIs
<1>3. url \notin FewUrls
  <2>1. \A few \in FewUrls : Len(few) \in 1..5
    <3>1. \A few \in {<<"/">>, <<"/", "?", "tab">>, <<"/", "main.css">>, <<"/", "/", "/">>,
                      <<"/", "fonts", "/", "woff">>} : Len(few) \in 1..5
      OBVIOUS
    <3>2. \A few \in {<<"/", "fonts", "/", "other">>, <<"/", "api", "/", "v1">>,
                      <<"/", "api", "/", "ticket", "/">>, <<"/", "repo", "/", "new">>,
                      <<"/", "repo", "/", "other">>} : Len(few) \in 1..5
      OBVIOUS
    <3>3. FewUrls = {<<"/">>, <<"/", "?", "tab">>, <<"/", "main.css">>, <<"/", "/", "/">>,
                     <<"/", "fonts", "/", "woff">>} \cup
                    {<<"/", "fonts", "/", "other">>, <<"/", "api", "/", "v1">>,
                     <<"/", "api", "/", "ticket", "/">>, <<"/", "repo", "/", "new">>,
                     <<"/", "repo", "/", "other">>}
      BY DEF FewUrls
    <3> QED BY <3>1, <3>2, <3>3, Zenon
  <2>2. \A n \in 1..5 : ~(n >= 6)
    OBVIOUS
  <2> HIDE DEF url
  <2> QED BY <1>2, <2>1, <2>2, Zenon
<1>4. ~\E u \in Local \cup {"api", "repo"}, below \in UserTails : url = <<"/", u>> \o below
  <2> SUFFICES ASSUME NEW u \in Local \cup {"api", "repo"}, NEW below \in UserTails,
                      url = <<"/", u>> \o below
               PROVE  FALSE
    OBVIOUS
  <2>1. Len(url) = 2 + Len(below) /\ Len(below) \in 0..3
    BY UserUrlIs
  <2> DEFINE n == Len(url)
             m == Len(below)
  <2>2. n = 2 + m /\ m \in 0..3 /\ n >= 6
    BY <1>2, <2>1
  <2> HIDE DEF n, m
  <2> QED BY <2>2
<1>5. ~\E u \in Local, instance \in Instances, below \in ApiTails :
          url = UserApi(u) \o instance \o below
  BY <1>2, UserApiIs
<1>6. ~\E u \in Local \cup Short, ats \in Ats, instance \in Abroad :
          url = Nameless(u, ats, instance)
  BY <1>2, NamelessIsNoApi
<1>7. CASE \E endpoint \in {"info", "tree"}, u \in Local \cup Short, below \in RepoTails :
              url = RepoApi(endpoint, u) \o below
  <2>1. PICK endpoint \in {"info", "tree"}, u \in Local \cup Short, below \in RepoTails :
           url = RepoApi(endpoint, u) \o below
    BY <1>7
  <2>2. /\ Len(url) = 11 /\ url[7] = "/" /\ url[8] = u
        /\ url[9] = below[1] /\ url[10] = below[2] /\ url[11] = below[3]
    <3>1. u \in Token
      BY DEF Token
    <3>2. IsRepoApi(url, u, below)
      <4> HIDE DEF url
      <4> QED BY <2>1, <3>1, RepoApiUrlIs DEF url
    <3> HIDE DEF url
    <3> QED BY <3>2 DEF IsRepoApi
  <2> DEFINE rest == Drop1(url, 6)
  <2> HIDE DEF url
  <2>3. /\ rest \in Seq(Token) /\ Len(rest) = 5 /\ rest[1] = "/" /\ rest[2] = u
        /\ rest[3] = below[1] /\ rest[4] = below[2] /\ rest[5] = below[3]
    <3>1. 6 \in 0..Len(url) /\ Len(url) - 6 = 5
      BY <2>2
    <3>2. /\ rest \in Seq(Token) /\ Len(rest) = Len(url) - 6
          /\ \A k \in 1..(Len(url) - 6) : rest[k] = url[6 + k]
      BY <1>1, <3>1, DropIs
    <3> HIDE DEF rest
    <3> QED BY <2>2, <3>1, <3>2
  <2>4. u \notin {"/", "@", "?"}
    BY RoutesAssumption DEF Separator
  <2> HIDE DEF rest
  <2>5. CASE below = <<"@", Here, "/">>
    <3>1. below[1] = "@" /\ below[2] = Here /\ below[3] = "/"
      BY <2>5
    <3>2. InstanceIn(rest) = <<>>
      BY <2>3, <2>4, <3>1, HereIsNone
    <3> QED BY <3>2 DEF url, rest
  <2>6. CASE below = <<"@", Away, "/">>
    <3>1. url[10] = Away /\ 10 \in 1..Len(url)
      BY <2>2, <2>6
    <3> QED BY <1>1, <3>1 DEF Tokens, url
  <2>7. CASE below = <<"/", "?", "tab">>
    <3>1. below[1] = "/" /\ below[2] = "?" /\ below[3] = "tab"
      BY <2>7
    <3>2. \A k \in 1..Len(rest) : rest[k] # "@"
      BY <2>3, <2>4, <3>1
    <3>3. InstanceIn(rest) = <<>>
      BY <2>3, <3>2, NoAtNoInstance
    <3> QED BY <3>3 DEF url, rest
  <2> QED BY <2>5, <2>6, <2>7 DEF RepoTails
<1> QED BY <1>3, <1>4, <1>5, <1>6, <1>7, PlainUrlIs

\* ...and of those of a repository.
LEMMA RepoUrlsAsk ==
    ASSUME NEW r \in Local \X Words, call.url \in RepoUrls(r), Begins({"api"}), ForRepoApi,
           FromPath(Drop1(call.url, 6)).kind # "throws",
           FromPath(Drop1(call.url, 6)).instance # <<>>
    PROVE  Away \in Tokens(call.url)
<1>1. PICK spelled \in Spelled(r) :
         \/ \E endpoint \in {"info", "tree"} : call.url = ApiPath(endpoint) \o spelled
         \/ \E before \in {<<"/">>, <<"/", "/">>}, below \in Below :
               call.url = before \o (spelled \o below)
  BY RepoUrlIs
<1>2. CASE \E endpoint \in {"info", "tree"} : call.url = ApiPath(endpoint) \o spelled
  <2>1. PICK endpoint \in {"info", "tree"} : call.url = ApiPath(endpoint) \o spelled
    BY <1>2
  <2> DEFINE url == call.url
             rest == Drop1(url, 6)
             full == <<"/">> \o (spelled \o <<>>)
  <2>2. url \in Seq(Token) /\ Len(url) > 6 /\ rest = full
    BY <2>1, ApiUrlIs
  <2>3. \/ FromPath(full) = Parsed(<<r[1]>>, <<>>, <<r[2]>>)
        \/ Away \in Tokens(full)
        \/ FromPath(full) = Invalid(<<>>)
        \/ FromPath(full) = Throws
    <3>1. <<"/">> \in {<<"/">>, <<"/", "/">>} /\ <<>> \in Below
      BY DEF Below
    <3> QED BY <3>1, RepoIsRead, Zenon
  <2>4. /\ Parsed(<<r[1]>>, <<>>, <<r[2]>>).instance = <<>> /\ Invalid(<<>>).instance = <<>>
        /\ Throws.kind = "throws"
    BY DEF Parsed, Invalid, Throws
  <2>5. 6 \in 0..Len(url) /\ Len(url) \in Nat
    BY <2>2, LenProperties
  <2> HIDE DEF full
  <2>6. Away \in Tokens(rest)
    BY <2>2, <2>3, <2>4
  <2>7. /\ rest \in Seq(Token) /\ Len(rest) = Len(url) - 6
        /\ \A k \in 1..(Len(url) - 6) : rest[k] = url[6 + k]
    BY <2>2, <2>5, DropIs
  <2>8. PICK k \in DOMAIN rest : rest[k] = Away
    BY <2>6 DEF Tokens
  <2> HIDE DEF url, rest
  <2>9. k \in 1..(Len(url) - 6) /\ 6 + k \in 1..Len(url)
    BY <2>5, <2>7, <2>8
  <2>10. 6 + k \in DOMAIN url /\ url[6 + k] = Away
    BY <2>2, <2>7, <2>8, <2>9
  <2> QED BY <2>10 DEF Tokens, url
<1>3. CASE \E before \in {<<"/">>, <<"/", "/">>}, below \in Below :
              call.url = before \o (spelled \o below)
  <2>1. PICK before \in {<<"/">>, <<"/", "/">>}, below \in Below :
           call.url = before \o (spelled \o below)
    BY <1>3
  <2>2. call.url[2] = "api"
    BY DEF Begins
  <2>3. InstanceIn(Drop1(call.url, 6)) = <<>>
    BY <2>1, <2>2, OwnerCalledApi
  <2> QED BY <2>3, InstanceIsRead
<1> QED BY <1>1, <1>2, <1>3

\* repo_api asks another instance for no other urls.
LEMMA ApiRepoAsks ==
    ASSUME CallMade, Begins({"api"}), ForRepoApi,
           FromPath(Drop1(call.url, 6)).kind # "throws",
           FromPath(Drop1(call.url, 6)).instance # <<>>
    PROVE  Away \in Tokens(call.url)
<1>1. CASE call = NoCall
  BY <1>1 DEF NoCall, Begins
<1>2. CASE call \in PlainCalls
  <2>1. call.url \in PlainUrls
    BY <1>2 DEF PlainCalls
  <2>2. InstanceIn(Drop1(call.url, 6)) # <<>>
    BY InstanceIsRead
  <2> QED BY <2>1, <2>2, PlainUrlsAsk
<1>3. CASE call \in FormCalls
  <2>1. call.url = <<"/", "repo", "/", "new">>
    BY <1>3 DEF FormCalls
  <2> QED BY <2>1 DEF Begins
<1>4. ASSUME NEW r \in Local \X Words, call \in RepoCalls(r) PROVE call.url \in RepoUrls(r)
  BY <1>4 DEF RepoCalls
<1> QED BY <1>1, <1>2, <1>3, <1>4, RepoUrlsAsk DEF CallMade

\* user_api asks another instance only if that is in the url.
LEMMA ApiUserAsks ==
    ASSUME NEW url \in Seq(Token),
           LET rest == Drop1(url, 6)
               end == Find1(rest, {"/"}, 1) IN
           end <= Len(rest) /\ SubSeq(rest, 1, end - 1) = <<"@", Away>>
    PROVE  Away \in Tokens(url)
<1> DEFINE rest == Drop1(url, 6)
           end == Find1(rest, {"/"}, 1)
           front == SubSeq(rest, 1, end - 1)
<1>1. Len(url) \in Nat /\ rest = SubSeq(url, 7, Len(url))
  BY LenProperties DEF Drop1
<1>2. rest \in Seq(Token) /\ Len(rest) \in Nat
  <2>1. \A i \in 7..Len(url) : url[i] \in Token
    BY <1>1
  <2>2. SubSeq(url, 7, Len(url)) \in Seq(Token)
    BY <1>1, <2>1, SubSeqProperties
  <2> QED BY <1>1, <2>2, LenProperties
<1>3. end \in Nat /\ (end <= Len(rest) => end >= 1)
  BY <1>2, FindFinds
<1>4. end <= Len(rest) /\ front = <<"@", Away>>
  OBVIOUS
<1>5. Len(front) = 2 /\ front[2] = Away
  <2> HIDE DEF front
  <2> QED BY <1>4
<1> HIDE DEF end
<1>6. Len(front) = end - 1 /\ \A k \in 1..(end - 1) : front[k] = rest[k]
  <2> HIDE DEF rest
  <2> QED BY <1>2, <1>3, <1>4
<1>7. end = 3 /\ rest[2] = Away /\ Len(rest) >= 2
  <2> HIDE DEF rest, front
  <2>1. end = 3
    BY <1>3, <1>5, <1>6
  <2>2. 2 \in 1..(end - 1)
    BY <2>1
  <2> QED BY <1>2, <1>4, <1>5, <1>6, <2>1, <2>2
<1>8. 8 \in 1..Len(url) /\ url[8] = rest[2]
  BY <1>1, <1>2, <1>7
<1> QED BY <1>7, <1>8 DEF Tokens

\* A form for a repository of another instance, which the handler answers too.
ToAway == call.form # <<>> /\ call.form.instance = <<Away>>

\* How often a request has been answered on its way.
OnceOnItsWay ==
    gitUp => /\ routePc \in {"idle", "handling"} => answers = 0 /\ ~pending
             /\ routePc = "creating" =>
                   IF pending THEN ToAway /\ answers = 0 ELSE answers = IF ToAway THEN 1 ELSE 0
             /\ routePc = "inserting" => ~ToAway /\ ~pending /\ answers = 0
             /\ routePc = "done" /\ pending => answers = 0 \/ (ToAway /\ answers = 1)
             /\ AnsweredOnce

\* The inductive invariant.
OnceIInv == CallMade /\ OnceOnItsWay

\* A form on its way stays the same form, and a url the same url.
LEMMA SameWay ==
    ASSUME call' = call
    PROVE  /\ ToAway' = ToAway
           /\ Begins({"api"})' = Begins({"api"})
           /\ (Away \in Tokens(call.url))' = (Away \in Tokens(call.url))
<1>1. ToAway' = ToAway
  BY DEF ToAway
<1>2. Begins({"api"})' = Begins({"api"})
  BY DEF Begins
<1> QED BY <1>1, <1>2

\* The handler answers what has not been answered.
LEMMA SaysOnce ==
    ASSUME OnceIInv, gitUp, routePc \in Busy, call' = call, gitUp' = gitUp, pending' = pending,
           answers' = answers + 1, routePc' = "done"
    PROVE  OnceOnItsWay'
<1>1. \/ answers = 0 /\ ~pending
      \/ answers = 0 /\ pending /\ ToAway
      \/ answers = 1 /\ ~pending /\ ToAway
  BY DEF OnceIInv, OnceOnItsWay, Busy
<1>2. ToAway' = ToAway
  BY SameWay
<1>3. answers' = 1 \/ (answers' = 2 /\ ToAway' /\ ~pending')
  BY <1>1, <1>2
<1>4. pending' => answers' = 1 /\ ToAway'
  BY <1>1, <1>2
<1>5. AnsweredOnce'
  BY <1>3 DEF AnsweredOnce, ToAway
<1> QED BY <1>4, <1>5 DEF OnceOnItsWay

\* The end of the server.
LEMMA EndsOnce == Ends => OnceOnItsWay'
  BY DEF Ends, OnceOnItsWay

\* A request for another instance is not sent.
LEMMA SendsOnce ==
    ASSUME OnceIInv, At("handling"), SendToPeer, Begins({"api"}), Away \in Tokens(call.url)
    PROVE  OnceOnItsWay'
<1>1. answers = 0 /\ ~pending /\ gitUp
  BY DEF OnceIInv, OnceOnItsWay, At
<1>2. call' = call /\ gitUp' = gitUp /\ answers' = answers /\ pending' = pending /\ routePc' = "done"
  BY DEF SendToPeer, Stays
<1>3. Begins({"api"})' /\ (Away \in Tokens(call.url))'
  BY <1>2, SameWay
<1>4. answers' = 0 /\ ~pending'
  BY <1>1, <1>2
<1>5. AnsweredOnce'
  <2>1. answers' = 0 /\ Begins({"api"})' /\ (Away \in Tokens(call.url))'
    BY <1>3, <1>4
  <2>2. gitUp'
    BY <1>1, <1>2, Zenon
  <2> QED BY <2>1, <2>2, Zenon DEF AnsweredOnce
<1> QED BY <1>1, <1>2, <1>4, <1>5 DEF OnceOnItsWay

\* A step of the handler.
LEMMA HandlerOnce ==
    ASSUME OnceIInv, call.url \in Seq(Token), Handler
    PROVE  OnceOnItsWay'
<1>1. ASSUME NEW code, Says(code), gitUp, routePc \in Busy PROVE OnceOnItsWay'
  <2>1. call' = call /\ gitUp' = gitUp /\ pending' = pending /\ answers' = answers + 1 /\ routePc' = "done"
    BY <1>1 DEF Says, Answers, Responds, Stays
  <2> QED BY <1>1, <2>1, SaysOnce
<1>2. ASSUME NEW repo, NEW what, Serves(repo, what), gitUp, routePc \in Busy PROVE OnceOnItsWay'
  <2>1. call' = call /\ gitUp' = gitUp /\ pending' = pending /\ answers' = answers + 1 /\ routePc' = "done"
    BY <1>2 DEF Serves, Answers, Responds, Stays
  <2> QED BY <1>2, <2>1, SaysOnce
<1>3. {"handling", "creating", "inserting"} = Busy
  BY DEF Busy
<1>4. CASE StaticOrUser
  BY <1>1, <1>3, <1>4 DEF StaticOrUser, At
<1>5. CASE ApiUser
  <2> DEFINE rest == Drop1(call.url, 6)
             end == Find1(rest, {"/"}, 1)
  <2>1. At("handling") /\ Begins({"api"}) /\ gitUp /\ routePc \in Busy
    BY <1>3, <1>5 DEF ApiUser, Routed, At
  <2>2. \/ \E code : Says(code)
        \/ end <= Len(rest) /\ SubSeq(rest, 1, end - 1) = <<"@", Away>> /\ SendToPeer
    <3>1. Len(rest) \in Int /\ end \in Int
      <4>1. Len(call.url) \in Nat
        BY LenProperties
      <4>2. \A i \in 7..Len(call.url) : call.url[i] \in Token
        BY <4>1
      <4>3. rest \in Seq(Token)
        BY <4>1, <4>2, SubSeqProperties DEF Drop1
      <4>4. Len(rest) \in Nat
        BY <4>3, LenProperties
      <4> QED BY <4>4, FindFinds
    <3> HIDE DEF rest, end
    <3>2. ~(end > Len(rest)) => end <= Len(rest)
      BY <3>1
    <3> QED BY <1>5, <3>2 DEF ApiUser, rest, end
  <2>3. CASE \E code : Says(code)
    BY <1>1, <2>1, <2>3
  <2>4. CASE end <= Len(rest) /\ SubSeq(rest, 1, end - 1) = <<"@", Away>> /\ SendToPeer
    <3>1. Away \in Tokens(call.url)
      BY <2>4, ApiUserAsks
    <3> QED BY <2>1, <2>4, <3>1, SendsOnce
  <2> QED BY <2>2, <2>3, <2>4
<1>6. CASE ApiRepo
  <2> DEFINE repo == FromPath(Drop1(call.url, 6))
  <2>1. At("handling") /\ Begins({"api"}) /\ ForRepoApi /\ gitUp /\ routePc \in Busy
    BY <1>3, <1>6 DEF ApiRepo, Routed, At
  <2>2. repo.kind # "throws" /\ repo.instance # <<>> => Away \in Tokens(call.url)
    BY <2>1, ApiRepoAsks DEF OnceIInv
  <2>3. \/ Ends
        \/ repo.kind # "throws" /\ repo.instance # <<>> /\ SendToPeer
        \/ \E code : Says(code)
        \/ \E r : Serves(r, "info")
    <3> HIDE DEF repo
    <3> QED BY <1>6 DEF ApiRepo, repo
  <2> HIDE DEF repo
  <2> QED BY <1>1, <1>2, <2>1, <2>2, <2>3, EndsOnce, SendsOnce
<1>7. CASE ApiOther
  BY <1>1, <1>3, <1>7 DEF ApiOther, Routed, At
<1>8. CASE RepoPage
  BY <1>1, <1>3, <1>8 DEF RepoPage, Routed, At
<1>9. CASE CreateAway \/ CreateHere
  <2>1. /\ gitUp /\ routePc = "handling" /\ routePc' = "creating"
        /\ call' = call /\ gitUp' = gitUp /\ answers' = answers
        /\ \/ ToAway /\ pending' = TRUE
           \/ ~ToAway /\ pending' = pending
    BY <1>9 DEF CreateAway, CreateHere, Posted, Routed, At, Stays, ToAway
  <2>2. answers = 0 /\ ~pending
    BY <2>1 DEF OnceIInv, OnceOnItsWay
  <2>3. ToAway' = ToAway
    BY <2>1, SameWay
  <2> QED BY <2>1, <2>2, <2>3 DEF OnceOnItsWay, AnsweredOnce
<1>10. CASE CreateRefused
  BY <1>1, <1>3, <1>10 DEF CreateRefused, At
<1>11. CASE CreateDirectory
  <2>1. gitUp /\ routePc = "creating" /\ call.form.instance # <<Away>>
    BY <1>11 DEF CreateDirectory, At
  <2>2. CASE Says(500)
    BY <1>1, <1>3, <2>1, <2>2
  <2>3. CASE ~Says(500)
    <3>1. routePc' = "inserting" /\ call' = call /\ gitUp' = gitUp /\ answers' = answers /\ pending' = pending
      BY <1>11, <2>3 DEF CreateDirectory, Stays
    <3>2. ~ToAway
      BY <2>1 DEF ToAway
    <3>3. answers = 0 /\ ~pending
      BY <2>1, <3>2 DEF OnceIInv, OnceOnItsWay
    <3>4. ~ToAway'
      BY <3>1, <3>2, SameWay
    <3> QED BY <2>1, <3>1, <3>3, <3>4 DEF OnceOnItsWay, AnsweredOnce
  <2> QED BY <2>2, <2>3
<1>12. CASE InitFails
  BY <1>1, <1>3, <1>12 DEF InitFails, At
<1>13. CASE Insert
  BY <1>13, EndsOnce DEF Insert
<1>14. CASE NoRepo
  <2>1. gitUp /\ routePc \in Busy
    BY <1>3, <1>14 DEF NoRepo, ToRepo, At
  <2>2. Ends \/ Says(404)
    BY <1>14 DEF NoRepo
  <2> QED BY <1>1, <2>1, <2>2, EndsOnce
<1>15. CASE RemoteRepo
  <2>1. /\ gitUp /\ routePc = "handling" /\ pending' = TRUE /\ routePc' = "done"
        /\ call' = call /\ gitUp' = gitUp /\ answers' = answers
    BY <1>15 DEF RemoteRepo, ToRepo, At, Stays
  <2>2. answers = 0
    BY <2>1 DEF OnceIInv, OnceOnItsWay
  <2> QED BY <2>1, <2>2 DEF OnceOnItsWay, AnsweredOnce
<1>16. ASSUME NEW r \in Repo, ShowPage(r) \/ NotServedYet(r) \/ ToGit(r) PROVE OnceOnItsWay'
  <2>1. gitUp /\ routePc \in Busy
    BY <1>3, <1>16 DEF ShowPage, NotServedYet, ToGit, Found, ToRepo, At
  <2>2. (\E code : Says(code)) \/ \E what : Serves(r, what)
    BY <1>16 DEF ShowPage, NotServedYet, ToGit
  <2> QED BY <1>1, <1>2, <2>1, <2>2
<1> QED BY <1>4, <1>5, <1>6, <1>7, <1>8, <1>9, <1>10, <1>11, <1>12, <1>13, <1>14, <1>15, <1>16 DEF Handler

\* A step keeps the requests made and their answers counted.
LEMMA OnceStep ==
    ASSUME OnceIInv, call.url \in Seq(Token),
           [RoutesNext /\ UNCHANGED searchVars]_<<searchVars, routeVars>>
    PROVE  OnceIInv'
<1>1. CallMade'
  BY CallStays DEF OnceIInv, CallMade
<1>2. CASE UNCHANGED routeVars
  <2>1. UNCHANGED <<call, routePc, answers, pending, gitUp>>
    BY <1>2 DEF routeVars
  <2>2. ToAway' = ToAway /\ (gitUp => AnsweredOnce' = AnsweredOnce)
    BY <2>1, SameWay DEF AnsweredOnce
  <2>3. OnceOnItsWay'
    BY <2>1, <2>2 DEF OnceIInv, OnceOnItsWay
  <2> QED BY <1>1, <2>3 DEF OnceIInv
<1>3. ASSUME NEW c, NextCall(c) PROVE OnceOnItsWay'
  BY <1>3 DEF NextCall, OnceIInv, OnceOnItsWay, AnsweredOnce
<1>4. CASE Handler
  BY <1>1, <1>4, HandlerOnce DEF OnceIInv
<1>5. CASE PeerAnswers
  <2>1. /\ gitUp /\ pending /\ pending' = FALSE /\ answers' = answers + 1
        /\ call' = call /\ routePc' = routePc /\ gitUp' = gitUp
    BY <1>5 DEF PeerAnswers, Responds
  <2>2. ToAway' = ToAway
    BY <2>1, SameWay
  <2>3. routePc = "creating" => ToAway /\ answers = 0
    BY <2>1 DEF OnceIInv, OnceOnItsWay
  <2>4. routePc = "done" => answers = 0 \/ (ToAway /\ answers = 1)
    BY <2>1 DEF OnceIInv, OnceOnItsWay
  <2>5. routePc \notin {"idle", "handling", "inserting"}
    BY <2>1 DEF OnceIInv, OnceOnItsWay
  <2>6. AnsweredOnce'
    BY <2>1, <2>2, <2>4 DEF AnsweredOnce, ToAway
  <2>7. OnceOnItsWay'
    BY <2>1, <2>2, <2>3, <2>5, <2>6 DEF OnceOnItsWay
  <2> QED BY <1>1, <2>7 DEF OnceIInv
<1>6. CASE ThreadIsFree \/ GitRestarts
  <2>1. gitUp' = TRUE /\ routePc' = "idle" /\ answers' = 0 /\ pending' = FALSE
    <3>1. CASE ThreadIsFree
      BY <3>1 DEF ThreadIsFree, NoRequest
    <3>2. CASE GitRestarts
      BY <3>2 DEF GitRestarts, NoRequest
    <3> QED BY <1>6, <3>1, <3>2
  <2>2. OnceOnItsWay'
    BY <2>1 DEF OnceOnItsWay, AnsweredOnce
  <2> QED BY <1>1, <2>2 DEF OnceIInv
<1>7. RoutesNext \/ UNCHANGED routeVars
  OBVIOUS
<1> QED BY <1>1, <1>2, <1>3, <1>4, <1>5, <1>6, <1>7 DEF RoutesNext, OnceIInv

\* While the server is up, a handled request has been answered once, by the handler or by
\* what it asked of a peer (handle_request and the callbacks of request_mod).  What may
\* end the server, the other half of AnsweredOnce, is not proved.
THEOREM RequestsAreAnswered == RoutesSpec => [](gitUp => AnsweredOnce)
<1>1. RoutesInit => OnceIInv
  <2>1. RoutesInit => CallMade
    BY DEF RoutesInit, CallMade
  <2>2. RoutesInit => OnceOnItsWay
    BY DEF RoutesInit, OnceOnItsWay, AnsweredOnce
  <2> QED BY <2>1, <2>2 DEF OnceIInv
<1>2. RoutesIInv => call.url \in Seq(Token)
  BY DEF RoutesIInv, OnItsWay
<1>3. RoutesIInv /\ OnceIInv /\ [RoutesNext /\ UNCHANGED searchVars]_<<searchVars, routeVars>>
      => OnceIInv'
  BY <1>2, OnceStep
<1>4. OnceIInv => (gitUp => AnsweredOnce)
  BY DEF OnceIInv, OnceOnItsWay
<1> QED BY <1>1, <1>3, <1>4, RoutesInvariant, PTL DEF RoutesSpec

=============================================================================
