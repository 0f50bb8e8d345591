--------------------------- MODULE ContactsProofs ---------------------------
(***************************************************************************)
(* The contacts mod (Contacts) for every set of users, threads of the mod  *)
(* and bound of its ids.                                                   *)
(***************************************************************************)
EXTENDS Contacts, FiniteSetTheorems, WellFoundedInduction, TLAPS

Op == {"none", "profile", "pfp", "namesake", "abroad", "all", "id", "save", "page",
       "delete", "unknown", "props", "cards", "prune", "shares", "over"}
Task == [op : Op, who : Asker, about : Asker, trust : 0..3]
VC == [id : -1..MaxCards, user : Asker, props : Seq(Value), new : BOOLEAN]
Result == [answers : 0..2, status : {0, 200, 303, 307, 400, 401, 404, 500}]
Place == {"idle", "base", "write", "fill", "committing", "read", "peer", "erase", "done"}
InSave == {"write", "fill", "committing"}

\* A clerk's request: what is shown is right for it, its trust that of the
\* requester, and what a save writes is of the requester.
ClerkOK(t) ==
    LET who == task[t].who
        about == task[t].about IN
    /\ clerkPc[t] # "done" => result[t] = NoResult
    /\ clerkPc[t] \in {"idle", "erase"} => shown[t] = {}
    /\ \A v \in shown[t] : \/ v.writer = who
                           \/ v.writer = about /\ v.vis >= Trust(about, who)
    /\ clerkPc[t] \in {"base", "read"} \cup InSave =>
          /\ about \in Account
          /\ task[t].op \in {"profile", "pfp", "namesake"} => task[t].trust = Trust(about, who)
          /\ task[t].op = "all" => about = who
    /\ clerkPc[t] \in InSave =>
          /\ \A i \in 1..Len(card[t].props) : card[t].props[i].writer = who
          /\ card[t].props # <<>> \/ ~card[t].new => about = who

ClerksOK ==
    /\ task \in [Clerk -> Task] /\ card \in [Clerk -> VC] /\ result \in [Clerk -> Result]
    /\ clerkPc \in [Clerk -> Place]
    /\ shown \in [Clerk -> SUBSET Value]
    /\ spent \in [Clerk -> SUBSET {"create", "update"}]
    /\ \A t \in Clerk : ClerkOK(t)

\* Tables in which every link has its property, for the same visibility, and a
\* property of a card was written by the card's owner.  A link may outlast its card
\* only if a save for its writer was under way when his deletion began.
Sound(d) ==
    /\ d = [cards |-> d.cards, last |-> d.last, props |-> d.props, links |-> d.links]
    /\ OkDatabase(d) /\ IsFiniteSet(d.links)
    /\ \A l \in d.links :
          /\ l.card \in 1..d.last /\ l.prop \in DOMAIN d.props
          /\ d.props[l.prop].vis = l.vis
          /\ IF l.card \in DOMAIN d.cards
             THEN d.props[l.prop].writer = d.cards[l.card].owner
             ELSE d.props[l.prop].writer \in overlapped

LinksOf(d, n) == {l \in d.links : l.card = n}
ValuesOf(d, n) == {d.props[l.prop] : l \in LinksOf(d, n)}

\* The transaction of a clerk differs from what is committed by its card alone, whose
\* links are those filled in so far.
Writing(t) ==
    LET n == card[t].id
        values == card[t].props IN
    /\ n \in DOMAIN work.cards /\ work.cards[n].owner = task[t].about
    /\ n \in DOMAIN db.cards => db.cards[n].owner = task[t].about
    /\ \A m \in CardNo \ {n} :
          /\ m \in DOMAIN work.cards <=> m \in DOMAIN db.cards
          /\ m \in DOMAIN db.cards => work.cards[m] = db.cards[m]
    /\ \A l \in Link : l.card # n => /\ l \in work.links <=> l \in db.links
                                     /\ l \in db.links => work.props[l.prop] = db.props[l.prop]
    /\ \A p \in DOMAIN work.props :
          \/ p \in DOMAIN db.props /\ work.props[p] = db.props[p]
          \/ work.props[p].writer = task[t].about
    /\ Filled(t) <= Len(values)
    /\ ValuesOf(work, n) = {values[i] : i \in 1..Filled(t)}
    /\ clerkPc[t] = "committing" => Filled(t) = Len(values)

OneWrites ==
    /\ holder \in Clerk \cup {NoClerk}
    /\ \A t \in Clerk : clerkPc[t] \in {"fill", "committing"} <=> holder = t
    /\ holder = NoClerk => work = EmptyDb
    /\ holder # NoClerk => Writing(holder)

\* A card has what was last saved.
CardsWhole ==
    /\ DOMAIN saved \subseteq CardNo
    /\ \A n \in DOMAIN db.cards \cap DOMAIN saved : ValuesOf(db, n) = saved[n]

Doomed == gone \cup {erasing}

\* Nobody saves for a user who is deleted or being so, but who was saving before.
NoneWritesForDoomed ==
    \A t \in Clerk : clerkPc[t] \in InSave /\ task[t].about \in Doomed
                        => task[t].about \in overlapped

\* What the clerk that deletes a user has deleted so far.
Erased(t) ==
    LET u == task[t].who IN
    /\ u = erasing /\ u \in Account
    /\ task[t].op \in {"props", "profile", "cards", "prune", "shares", "over"}
    /\ u \notin overlapped =>
          /\ task[t].op = "profile" =>
                \A l \in db.links : l.card \in CardsOf(u) => l.vis # Unshown
          /\ task[t].op = "cards" => \A l \in db.links : l.card \notin CardsOf(u)
          /\ task[t].op \in {"prune", "shares", "over"} => CardsOf(u) = {}
          /\ task[t].op \in {"shares", "over"} =>
                \A p \in DOMAIN db.props : db.props[p].writer # u

Erasing ==
    /\ accounts \subseteq Account /\ overlapped \subseteq Account
    /\ gone \subseteq Account \ accounts
    /\ erasing \in Account \cup {Anonymous}
    /\ \A t, q \in Clerk : clerkPc[t] = "erase" /\ clerkPc[q] = "erase" => t = q
    /\ \A t \in Clerk : clerkPc[t] = "erase" => Erased(t)

ContactsIInv ==
    /\ contactsUp \in BOOLEAN
    /\ ClerksOK
    /\ Sound(db) /\ Sound(work) /\ OneWrites
    /\ CardsWhole /\ NoneWritesForDoomed /\ Erasing /\ DeletedUserGone

-----------------------------------------------------------------------------
(* The tables.                                                             *)

\* Sets of naturals have a least element.
LEMMA Least ==
  ASSUME NEW T, T \subseteq Nat, T # {}
  PROVE  \E x \in T : \A y \in T : x <= y
<1>1. PICK x \in T : \A y \in T : ~(<<y, x>> \in OpToRel(<, Nat))
  BY NatLessThanWellFounded, WFMin
<1>2. \A y \in T : ~(y < x)
  BY <1>1 DEF OpToRel
<1> QED BY <1>2

\* So have bounded ones a greatest, which is their Max.
LEMMA Greatest ==
  ASSUME NEW n \in Nat, NEW T, T \subseteq 0..n, T # {}
  PROVE  Max(T) \in T /\ \A y \in T : y <= Max(T)
<1> DEFINE D == {n - y : y \in T}
<1>1. \A y \in T : n - y \in Nat /\ y \in Nat
  OBVIOUS
<1>2. D \subseteq Nat /\ D # {}
  BY <1>1
<1>3. PICK d \in D : \A e \in D : d <= e
  BY <1>2, Least
<1>4. PICK x \in T : d = n - x
  BY <1>3
<1>5. \A y \in T : n - x <= n - y
  BY <1>3, <1>4
<1>6. \A y \in T : x >= y
  BY <1>1, <1>5
<1>7. Max(T) \in T /\ \A y \in T : Max(T) >= y
  BY <1>6 DEF Max
<1> QED BY <1>1, <1>7

\* The id of a new property is of none that has a row.
LEMMA NextPropIsNew ==
    ASSUME NEW d, OkDatabase(d)
    PROVE  NextProp(d) \in Nat \ {0} /\ NextProp(d) \notin DOMAIN d.props
<1> DEFINE T == {0} \cup DOMAIN d.props
<1>1. T \subseteq 0..MaxProps /\ T # {} /\ MaxProps \in Nat
  BY ContactsAssumption DEF OkDatabase, PropNo
<1> HIDE DEF T
<1>2. Max(T) \in T /\ \A y \in T : y <= Max(T)
  BY <1>1, Greatest
<1>3. NextProp(d) = Max(T) + 1
  BY DEF NextProp, T
<1>4. Max(T) \in Nat /\ DOMAIN d.props \subseteq T
  BY <1>1, <1>2 DEF T
<1>5. \A y \in T : y \in Nat
  BY <1>1
<1> QED BY <1>2, <1>3, <1>4, <1>5

\* The first profile of a user is the user's.
LEMMA FirstProfile ==
    ASSUME NEW d, OkDatabase(d), NEW u, ProfilesOf(d, u) # {}
    PROVE  Min(ProfilesOf(d, u)) \in ProfilesOf(d, u)
<1>1. ProfilesOf(d, u) \subseteq Nat
  BY ContactsAssumption DEF OkDatabase, ProfilesOf
<1> HIDE DEF ProfilesOf
<1>2. \E x \in ProfilesOf(d, u) : \A y \in ProfilesOf(d, u) : x <= y
  BY <1>1, Least
<1> QED BY <1>2 DEF Min

\* Taking links away leaves the tables sound...
LEMMA WithoutSound ==
    ASSUME NEW d, Sound(d), NEW links
    PROVE  LET e == Without(d, links) IN
           /\ Sound(e)
           /\ e.cards = d.cards /\ e.last = d.last /\ e.props = d.props
           /\ e.links = d.links \ links
<1> DEFINE e == Without(d, links)
<1>1. /\ e.cards = d.cards /\ e.last = d.last /\ e.props = d.props /\ e.links = d.links \ links
      /\ e = [cards |-> e.cards, last |-> e.last, props |-> e.props, links |-> e.links]
  BY DEF Without, Sound
<1> HIDE DEF e
<1>2. OkDatabase(e)
  BY <1>1 DEF Sound, OkDatabase
<1>3. IsFiniteSet(e.links)
  BY <1>1, FS_Subset DEF Sound
<1>4. Sound(e)
  BY <1>1, <1>2, <1>3 DEF Sound
<1> QED BY <1>1, <1>4 DEF e

\* ... and so does pruning, after which every property is in use.
LEMMA PrunedSound ==
    ASSUME NEW d, Sound(d)
    PROVE  LET e == Pruned(d) IN
           /\ Sound(e)
           /\ e.cards = d.cards /\ e.last = d.last /\ e.links = d.links
           /\ \A p \in DOMAIN e.props :
                 /\ p \in DOMAIN d.props /\ e.props[p] = d.props[p]
                 /\ \E l \in d.links : l.prop = p
           /\ \A l \in d.links : e.props[l.prop] = d.props[l.prop]
<1> DEFINE e == Pruned(d)
<1>1. /\ e.cards = d.cards /\ e.last = d.last /\ e.links = d.links
      /\ e.props = [p \in DOMAIN d.props \cap InUse(d) |-> d.props[p]]
      /\ e = [cards |-> e.cards, last |-> e.last, props |-> e.props, links |-> e.links]
  BY DEF Pruned, Sound
<1> HIDE DEF e
<1>2. \A p \in DOMAIN e.props : /\ p \in DOMAIN d.props /\ e.props[p] = d.props[p]
                               /\ \E l \in d.links : l.prop = p
  BY <1>1 DEF InUse
<1>3. \A l \in d.links : l.prop \in DOMAIN e.props /\ e.props[l.prop] = d.props[l.prop]
  BY <1>1 DEF InUse, Sound
<1>4. OkDatabase(e)
  BY <1>1, <1>2 DEF Sound, OkDatabase
<1>5. Sound(e)
  BY <1>1, <1>3, <1>4 DEF Sound
<1> QED BY <1>1, <1>2, <1>3, <1>5 DEF e

\* A card is created under a number no card or link ever had, or its owner keeps it.
LEMMA WithCardSound ==
    ASSUME NEW d, Sound(d), NEW n \in CardNo, NEW owner \in Account, NEW user \in Asker,
           IF n \in DOMAIN d.cards THEN d.cards[n].owner = owner ELSE n > d.last
    PROVE  LET e == WithCard(d, n, owner, user) IN
           /\ Sound(e)
           /\ DOMAIN e.cards = DOMAIN d.cards \cup {n} /\ e.cards[n].owner = owner
           /\ \A m \in DOMAIN d.cards \ {n} : e.cards[m] = d.cards[m]
           /\ e.props = d.props /\ e.links = d.links
<1> DEFINE e == WithCard(d, n, owner, user)
<1>1. /\ e.cards = [m \in DOMAIN d.cards \cup {n} |->
                      IF m = n THEN [owner |-> owner, user |-> user] ELSE d.cards[m]]
      /\ e.last = IF n > d.last THEN n ELSE d.last
      /\ e.props = d.props /\ e.links = d.links
      /\ e = [cards |-> e.cards, last |-> e.last, props |-> e.props, links |-> e.links]
  <2> DEFINE c == [m \in DOMAIN d.cards \cup {n} |->
                      IF m = n THEN [owner |-> owner, user |-> user] ELSE d.cards[m]]
             k == IF n > d.last THEN n ELSE d.last
  <2>1. e = [d EXCEPT !.cards = c, !.last = k]
    BY DEF WithCard
  <2>2. d = [cards |-> d.cards, last |-> d.last, props |-> d.props, links |-> d.links]
    BY DEF Sound
  <2> HIDE DEF c, k, e
  <2>3. e = [cards |-> c, last |-> k, props |-> d.props, links |-> d.links]
    BY <2>1, <2>2
  <2> QED BY <2>3 DEF c, k
<1> HIDE DEF e
<1>2. /\ DOMAIN e.cards = DOMAIN d.cards \cup {n} /\ e.cards[n] = [owner |-> owner, user |-> user]
      /\ \A m \in DOMAIN d.cards \ {n} : e.cards[m] = d.cards[m]
  BY <1>1
<1>3. d.last \in 0..MaxCards /\ DOMAIN d.cards \subseteq 1..d.last /\ n \in 1..MaxCards /\ MaxCards \in Nat
  BY ContactsAssumption DEF Sound, OkDatabase, CardNo
<1>4. e.last \in 0..MaxCards /\ d.last <= e.last /\ n <= e.last
  BY <1>1, <1>3
<1>5. OkDatabase(e)
  <2>1. DOMAIN e.cards \subseteq 1..e.last
    BY <1>2, <1>3, <1>4
  <2>2. \A m \in DOMAIN e.cards : e.cards[m] \in [owner : Account, user : Asker]
    BY <1>2 DEF Sound, OkDatabase
  <2> QED BY <1>1, <1>4, <2>1, <2>2 DEF Sound, OkDatabase
<1>6. ASSUME NEW l \in e.links
      PROVE  /\ l.card \in 1..e.last /\ l.prop \in DOMAIN e.props
             /\ e.props[l.prop].vis = l.vis
             /\ IF l.card \in DOMAIN e.cards
                THEN e.props[l.prop].writer = e.cards[l.card].owner
                ELSE e.props[l.prop].writer \in overlapped
  <2>1. /\ l.card \in 1..d.last /\ l.prop \in DOMAIN d.props
        /\ d.props[l.prop].vis = l.vis
        /\ IF l.card \in DOMAIN d.cards
           THEN d.props[l.prop].writer = d.cards[l.card].owner
           ELSE d.props[l.prop].writer \in overlapped
    BY <1>1 DEF Sound
  <2>2. l.card \in 1..e.last
    BY <1>3, <1>4, <2>1
  <2>3. CASE l.card = n
    <3>1. n \in DOMAIN d.cards
      BY <1>3, <2>1, <2>3
    <3> QED BY <1>1, <1>2, <2>1, <2>2, <2>3, <3>1
  <2>4. CASE l.card # n
    BY <1>1, <1>2, <2>1, <2>2, <2>4
  <2> QED BY <2>3, <2>4
<1>7. Sound(e)
  BY <1>1, <1>5, <1>6 DEF Sound
<1> QED BY <1>1, <1>2, <1>7 DEF e

\* A new property of a card, written by the card's owner.
LEMMA WithPropSound ==
    ASSUME NEW d, Sound(d), NEW n \in DOMAIN d.cards, NEW value \in Value,
           value.writer = d.cards[n].owner, NextProp(d) \in PropNo
    PROVE  LET e == WithProp(d, n, value)
               new == [card |-> n, prop |-> NextProp(d), vis |-> value.vis] IN
           /\ Sound(e)
           /\ e.cards = d.cards /\ e.last = d.last
           /\ new \in Link \ d.links /\ e.links = d.links \cup {new}
           /\ DOMAIN e.props = DOMAIN d.props \cup {NextProp(d)} /\ e.props[new.prop] = value
           /\ \A p \in DOMAIN d.props : e.props[p] = d.props[p]
<1> DEFINE e == WithProp(d, n, value)
           new == [card |-> n, prop |-> NextProp(d), vis |-> value.vis]
<1>1. /\ e.cards = d.cards /\ e.last = d.last
      /\ e.props = [p \in DOMAIN d.props \cup {NextProp(d)} |->
                      IF p = NextProp(d) THEN value ELSE d.props[p]]
      /\ e.links = d.links \cup {new}
      /\ e = [cards |-> e.cards, last |-> e.last, props |-> e.props, links |-> e.links]
  <2> DEFINE v == [p \in DOMAIN d.props \cup {NextProp(d)} |->
                      IF p = NextProp(d) THEN value ELSE d.props[p]]
             k == d.links \cup {new}
  <2>1. e = [d EXCEPT !.props = v, !.links = k]
    BY DEF WithProp
  <2>2. d = [cards |-> d.cards, last |-> d.last, props |-> d.props, links |-> d.links]
    BY DEF Sound
  <2> HIDE DEF v, k, e
  <2>3. e = [cards |-> d.cards, last |-> d.last, props |-> v, links |-> k]
    BY <2>1, <2>2
  <2> QED BY <2>3 DEF v, k
<1> HIDE DEF e
<1>2. NextProp(d) \notin DOMAIN d.props
  BY NextPropIsNew DEF Sound
<1>3. /\ DOMAIN e.props = DOMAIN d.props \cup {NextProp(d)} /\ e.props[NextProp(d)] = value
      /\ \A p \in DOMAIN d.props : e.props[p] = d.props[p]
  BY <1>1, <1>2
<1>4. n \in 1..d.last /\ n \in CardNo
  BY ContactsAssumption DEF Sound, OkDatabase, CardNo
<1>5. new \in Link /\ new \notin d.links
  BY <1>2, <1>4 DEF Link, Value, Sound
<1>6. new.card = n /\ new.prop = NextProp(d) /\ new.vis = value.vis
  OBVIOUS
<1> HIDE DEF new
<1>7. OkDatabase(e)
  BY <1>1, <1>3, <1>5 DEF Sound, OkDatabase
<1>8. IsFiniteSet(e.links)
  BY <1>1, FS_AddElement DEF Sound
<1>9. ASSUME NEW l \in e.links
      PROVE  /\ l.card \in 1..e.last /\ l.prop \in DOMAIN e.props
             /\ e.props[l.prop].vis = l.vis
             /\ IF l.card \in DOMAIN e.cards
                THEN e.props[l.prop].writer = e.cards[l.card].owner
                ELSE e.props[l.prop].writer \in overlapped
  <2>1. CASE l = new
    BY <1>1, <1>3, <1>4, <1>6, <2>1
  <2>2. CASE l \in d.links
    <3>1. e.props[l.prop] = d.props[l.prop] /\ l.prop \in DOMAIN d.props
      BY <1>3, <2>2 DEF Sound
    <3> QED BY <1>1, <1>3, <2>2, <3>1 DEF Sound
  <2> QED BY <1>1, <2>1, <2>2
<1>10. Sound(e)
  BY <1>1, <1>7, <1>8, <1>9 DEF Sound
<1> QED BY <1>1, <1>3, <1>5, <1>6, <1>10 DEF e, new
-----------------------------------------------------------------------------
(* Steps of a clerk that write nothing.                                    *)

\* The other clerks are where they were.
Others(t) ==
    \A q \in Clerk \ {t} : /\ task'[q] = task[q] /\ clerkPc'[q] = clerkPc[q]
                           /\ card'[q] = card[q] /\ shown'[q] = shown[q]
                           /\ result'[q] = result[q]

Typed ==
    /\ task \in [Clerk -> Task] /\ card \in [Clerk -> VC] /\ result \in [Clerk -> Result]
    /\ clerkPc \in [Clerk -> Place]
    /\ shown \in [Clerk -> SUBSET Value]
    /\ spent \in [Clerk -> SUBSET {"create", "update"}]

\* A clerk's step leaves what concerns the requests of the others.
LEMMA OthersOK ==
    ASSUME ContactsIInv, NEW t \in Clerk, Typed', Others(t), ClerkOK(t)'
    PROVE  ClerksOK'
<1>1. ASSUME NEW q \in Clerk PROVE ClerkOK(q)'
  <2>1. CASE q = t
    BY <2>1
  <2>2. CASE q # t
    <3>1. ClerkOK(q)
      BY DEF ContactsIInv, ClerksOK
    <3>2. /\ task'[q] = task[q] /\ clerkPc'[q] = clerkPc[q] /\ card'[q] = card[q]
          /\ shown'[q] = shown[q] /\ result'[q] = result[q]
      BY <2>2 DEF Others
    <3> QED BY <3>1, <3>2 DEF ClerkOK
  <2> QED BY <2>1, <2>2
<1> QED BY <1>1 DEF ClerksOK, Typed

\* A transaction is not affected by what leaves both databases alone.
LEMMA WritingKept ==
    ASSUME NEW q \in Clerk, Writing(q), UNCHANGED <<db, work>>,
           task'[q] = task[q], card'[q] = card[q],
           clerkPc'[q] = "committing" => Filled(q) = Len(card[q].props)
                                         \/ clerkPc[q] = "committing"
    PROVE  Writing(q)'
<1>1. db' = db /\ work' = work
  OBVIOUS
<1>2. Filled(q)' = Filled(q)
  BY <1>1 DEF Filled
<1>3. ValuesOf(work, card[q].id)' = ValuesOf(work, card[q].id)
  BY <1>1 DEF ValuesOf, LinksOf
<1> HIDE DEF Filled, ValuesOf
<1> QED BY <1>1, <1>2, <1>3 DEF Writing

\* A step of a clerk that changes only its own request keeps the invariant: it neither
\* writes nor deletes, and begins to save only for a user who stays.
LEMMA LocalKeeps ==
    ASSUME ContactsIInv, NEW t \in Clerk, Typed', Others(t), ClerkOK(t)',
           UNCHANGED <<store, users, saved>>, contactsUp' \in BOOLEAN,
           clerkPc[t] \notin {"fill", "committing", "erase"},
           clerkPc'[t] \notin {"fill", "committing", "erase"},
           clerkPc'[t] = "write" => task'[t].about \notin Doomed
    PROVE  ContactsIInv'
<1>1. ClerksOK'
  BY OthersOK
<1>2. UNCHANGED <<db, work, holder, accounts, erasing, overlapped, gone, saved>>
  BY DEF store, users
<1>3. Sound(db)' /\ Sound(work)'
  BY <1>2 DEF ContactsIInv, Sound
<1>4. OneWrites'
  <2>1. holder' \in Clerk \cup {NoClerk} /\ (holder' = NoClerk => work' = EmptyDb)
    BY <1>2 DEF ContactsIInv, OneWrites, NoClerk, EmptyDb
  <2>2. ASSUME NEW q \in Clerk
        PROVE  clerkPc'[q] \in {"fill", "committing"} <=> holder' = q
    BY <1>2 DEF ContactsIInv, OneWrites, Others
  <2>3. ASSUME holder' # NoClerk PROVE Writing(holder)'
    <3>1. holder \in Clerk \ {t} /\ Writing(holder)
      BY <1>2, <2>3 DEF ContactsIInv, OneWrites, NoClerk
    <3>2. PICK q \in Clerk \ {t} : q = holder /\ holder' = q /\ Writing(q)
      BY <1>2, <3>1
    <3>3. task'[q] = task[q] /\ clerkPc'[q] = clerkPc[q] /\ card'[q] = card[q]
      BY <3>2 DEF Others
    <3>4. Writing(q)'
      BY <1>2, <3>2, <3>3, WritingKept
    <3> QED BY <3>2, <3>4
  <2> QED BY <2>1, <2>2, <2>3 DEF OneWrites, NoClerk
<1>5. CardsWhole'
  BY <1>2 DEF ContactsIInv, CardsWhole, ValuesOf, LinksOf
<1>6. NoneWritesForDoomed'
  <2>1. Doomed' = Doomed
    BY <1>2 DEF Doomed
  <2>2. clerkPc'[t] \in InSave => clerkPc'[t] = "write"
    BY DEF InSave
  <2> HIDE DEF Doomed
  <2> QED BY <1>2, <2>1, <2>2 DEF ContactsIInv, NoneWritesForDoomed, Others
<1>7. Erasing'
  <2>1. \A q \in Clerk : clerkPc'[q] = "erase" => clerkPc[q] = "erase" /\ q # t /\ task'[q] = task[q]
    BY DEF Others
  <2>2. \A q \in Clerk : clerkPc'[q] = "erase" => Erased(q)'
    BY <1>2, <2>1 DEF ContactsIInv, Erasing, Erased, CardsOf
  <2> QED BY <1>2, <2>1, <2>2 DEF ContactsIInv, Erasing
<1>8. DeletedUserGone'
  BY <1>2 DEF ContactsIInv, DeletedUserGone, NothingOf
<1> QED BY <1>1, <1>3, <1>4, <1>5, <1>6, <1>7, <1>8 DEF ContactsIInv
\* DB::visibility gives a level.
LEMMA TrustType ==
    ASSUME NEW about, NEW who \in Asker
    PROVE  Trust(about, who) \in 0..3
BY ContactsAssumption DEF Trust, Asker

\* What a profile shows was written by its user, for those who are trusted so much.
LEMMA VisibleIsMeant ==
    ASSUME Sound(db), NEW u, NEW trust \in 0..3, NEW v \in Values(db, Visible(u, trust))
    PROVE  v \in Value /\ v.writer = u /\ v.vis >= trust
<1>1. PICK l \in ProfileLinks(db, u, trust) : l.prop \in DOMAIN db.props /\ v = db.props[l.prop]
  BY DEF Values, Visible
<1>2. /\ l \in db.links /\ ProfilesOf(db, u) # {} /\ l.card = Min(ProfilesOf(db, u))
      /\ l.vis >= trust
  BY <1>1 DEF ProfileLinks
<1>3. l.card \in DOMAIN db.cards /\ db.cards[l.card].owner = u
  <2>1. Min(ProfilesOf(db, u)) \in ProfilesOf(db, u)
    BY <1>2, FirstProfile DEF Sound
  <2> QED BY <1>2, <2>1 DEF ProfilesOf
<1> QED BY <1>1, <1>2, <1>3 DEF Sound, OkDatabase

\* What an owner's cards of a user hold, the owner wrote.
LEMMA OwnIsOwn ==
    ASSUME Sound(db), NEW who, NEW u, NEW v \in Values(db, OwnLinks(db, who, u))
    PROVE  v \in Value /\ v.writer = who
<1>1. PICK l \in OwnLinks(db, who, u) : l.prop \in DOMAIN db.props /\ v = db.props[l.prop]
  BY DEF Values
<1>2. l \in db.links /\ l.card \in DOMAIN db.cards /\ db.cards[l.card].owner = who
  BY <1>1 DEF OwnLinks
<1> QED BY <1>1, <1>2 DEF Sound, OkDatabase

\* A new request, which holds nothing yet.
LEMMA TakesKeeps ==
    ASSUME ContactsIInv, NEW t \in Clerk, NEW request \in Task, NEW place \in {"base", "read", "peer"},
           Takes(t, request, place), UNCHANGED card,
           place \in {"base", "read"} =>
              /\ request.about \in Account
              /\ request.op \in {"profile", "pfp", "namesake"}
                    => request.trust = Trust(request.about, request.who)
              /\ request.op = "all" => request.about = request.who
    PROVE  ContactsIInv'
<1>1. /\ clerkPc[t] = "idle" /\ contactsUp /\ task' = [task EXCEPT ![t] = request]
      /\ clerkPc' = [clerkPc EXCEPT ![t] = place]
      /\ UNCHANGED <<store, spent, shown, result, users, saved, contactsUp, card>>
  BY DEF Takes, AtDesk, GoesTo
<1>2. Typed /\ ClerkOK(t)
  BY DEF ContactsIInv, ClerksOK, Typed
<1>3. task'[t] = request /\ clerkPc'[t] = place /\ Others(t) /\ Typed'
  BY <1>1, <1>2 DEF Typed, Others, Place
<1>4. ClerkOK(t)'
  BY <1>1, <1>2, <1>3 DEF ClerkOK, InSave
<1> QED BY <1>1, <1>3, <1>4, LocalKeeps

\* A profile is asked for with the trust that its requester has.
LEMMA AskProfileKeeps ==
    ASSUME ContactsIInv, NEW t \in Clerk, AskProfile(t)
    PROVE  ContactsIInv'
<1>1. PICK who \in Asker, about \in Account, op \in {"profile", "pfp", "namesake"} :
         Takes(t, [op |-> op, who |-> who, about |-> about, trust |-> Trust(about, who)],
               IF op = "profile" THEN "base" ELSE "read")
  BY DEF AskProfile
<1> DEFINE request == [op |-> op, who |-> who, about |-> about, trust |-> Trust(about, who)]
<1>2. request \in Task
  BY TrustType DEF Task, Op, Asker
<1>3. CASE op = "profile"
  BY <1>1, <1>2, <1>3, TakesKeeps DEF AskProfile
<1>4. CASE op # "profile"
  BY <1>1, <1>2, <1>4, TakesKeeps DEF AskProfile
<1> QED BY <1>3, <1>4

\* A user of another instance.
LEMMA AskAbroadKeeps ==
    ASSUME ContactsIInv, NEW t \in Clerk, AskAbroad(t)
    PROVE  ContactsIInv'
<1>1. PICK who \in Asker, about \in Abroad :
         Takes(t, [op |-> "abroad", who |-> who, about |-> about, trust |-> 3], "peer")
  BY DEF AskAbroad
<1>2. [op |-> "abroad", who |-> who, about |-> about, trust |-> 3] \in Task
  BY DEF Task, Op, Asker
<1> QED BY <1>1, <1>2, TakesKeeps DEF AskAbroad

\* A user's own cards.
LEMMA AskOwnKeeps ==
    ASSUME ContactsIInv, NEW t \in Clerk, AskOwn(t)
    PROVE  ContactsIInv'
<1>1. PICK who \in accounts, op \in {"all", "id"} :
         Takes(t, [op |-> op, who |-> who, about |-> who, trust |-> 2], "read")
  BY DEF AskOwn
<1>2. who \in Account
  BY DEF ContactsIInv, Erasing
<1>3. [op |-> op, who |-> who, about |-> who, trust |-> 2] \in Task
  BY <1>2 DEF Task, Op, Asker
<1> QED BY <1>1, <1>2, <1>3, TakesKeeps DEF AskOwn

\* A save of what the user wrote, while the user is not deleted.
LEMMA AskSaveKeeps ==
    ASSUME ContactsIInv, NEW t \in Clerk, AskSave(t)
    PROVE  ContactsIInv'
<1>1. PICK who \in accounts, user \in Asker \ {AnonymousPeer}, vis \in {0, 1, 3},
           n \in {-1} \cup DOMAIN db.cards, size \in 0..1 :
       /\ Takes(t, [op |-> "save", who |-> who, about |-> who, trust |-> 0], "write")
       /\ card' = [card EXCEPT ![t] =
             [id |-> n, user |-> user, new |-> n = -1,
              props |-> [i \in 1..size |->
                 [writer |-> who, vis |-> IF user = who THEN vis ELSE Unshown]]]]
  BY DEF AskSave
<1> DEFINE request == [op |-> "save", who |-> who, about |-> who, trust |-> 0]
           props == [i \in 1..size |->
                       [writer |-> who, vis |-> IF user = who THEN vis ELSE Unshown]]
           vc == [id |-> n, user |-> user, new |-> n = -1, props |-> props]
<1>2. who \in Account /\ who # erasing /\ who \notin gone
  BY <1>1 DEF ContactsIInv, Erasing, Takes
<1>3. request \in Task
  BY <1>2 DEF Task, Op, Asker
<1>4. props \in Seq(Value) /\ \A i \in 1..Len(props) : props[i].writer = who
  BY <1>2 DEF Value, Unshown
<1>5. n \in -1..MaxCards
  BY ContactsAssumption DEF ContactsIInv, Sound, OkDatabase
<1>6. vc \in VC /\ vc.props = props
  BY <1>4, <1>5 DEF VC
<1>7. /\ clerkPc[t] = "idle" /\ contactsUp /\ task' = [task EXCEPT ![t] = request]
      /\ clerkPc' = [clerkPc EXCEPT ![t] = "write"] /\ card' = [card EXCEPT ![t] = vc]
      /\ UNCHANGED <<store, spent, shown, result, users, saved, contactsUp>>
  BY <1>1 DEF Takes, AtDesk, GoesTo
<1>8. Typed /\ ClerkOK(t)
  BY DEF ContactsIInv, ClerksOK, Typed
<1>9. request.about = who /\ request.who = who /\ request.op = "save"
  OBVIOUS
<1> HIDE DEF request, vc, props
<1>10. /\ task'[t] = request /\ clerkPc'[t] = "write" /\ card'[t] = vc /\ Others(t) /\ Typed'
       /\ shown'[t] = shown[t] /\ result'[t] = result[t]
  BY <1>3, <1>6, <1>7, <1>8 DEF Typed, Others, Place
<1>11. ClerkOK(t)'
  BY <1>2, <1>4, <1>6, <1>7, <1>8, <1>9, <1>10 DEF ClerkOK, InSave
<1>12. task'[t].about \notin Doomed
  BY <1>2, <1>9, <1>10 DEF Doomed
<1> QED BY <1>7, <1>10, <1>11, <1>12, LocalKeeps
\* Requests that are answered at once.
LEMMA AskOtherKeeps ==
    ASSUME ContactsIInv, NEW t \in Clerk, AskOther(t)
    PROVE  ContactsIInv'
<1>1. Typed /\ ClerkOK(t) /\ accounts \subseteq Account
  BY DEF ContactsIInv, ClerksOK, Typed, Erasing
<1>2. PICK who \in (Asker \ Account) \cup accounts, path \in {"page", "delete", "unknown"} :
         /\ task' = [task EXCEPT ![t] = [op |-> path, who |-> who, about |-> who, trust |-> 3]]
         /\ Replies(t, CASE who = AnonymousPeer -> 404
                         [] who \in Abroad \cup {Anonymous} -> 303
                         [] who \in Account -> CASE path = "page" -> 200
                                                 [] path = "delete" -> 400
                                                 [] path = "unknown" -> 404)
  BY DEF AskOther
<1> DEFINE request == [op |-> path, who |-> who, about |-> who, trust |-> 3]
           status == CASE who = AnonymousPeer -> 404
                       [] who \in Abroad \cup {Anonymous} -> 303
                       [] who \in Account -> CASE path = "page" -> 200
                                               [] path = "delete" -> 400
                                               [] path = "unknown" -> 404
           reply == [answers |-> result[t].answers + 1, status |-> status]
<1>3. who \in Asker /\ request \in Task
  BY <1>1 DEF Task, Op, Asker
<1>4. status \in {200, 303, 400, 404}
  BY <1>1, <1>3 DEF Asker
<1>5. clerkPc[t] = "idle" /\ result[t].answers = 0
  BY <1>1 DEF AskOther, AtDesk, ClerkOK, NoResult
<1> HIDE DEF status
<1>6. reply \in Result
  BY <1>4, <1>5 DEF Result
<1>7. result' = [result EXCEPT ![t] = reply]
  BY <1>1, <1>2 DEF Replies, status, Typed
<1> HIDE DEF reply, request
<1>8. /\ task' = [task EXCEPT ![t] = request]
      /\ clerkPc' = [clerkPc EXCEPT ![t] = "done"] /\ contactsUp
      /\ UNCHANGED <<store, card, spent, shown, users, saved, contactsUp>>
  BY <1>2 DEF AskOther, AtDesk, GoesTo, request
<1>9. task'[t] = request /\ clerkPc'[t] = "done" /\ Others(t) /\ Typed' /\ shown'[t] = shown[t]
  BY <1>1, <1>3, <1>6, <1>7, <1>8 DEF Typed, Others, Place
<1>10. ClerkOK(t)'
  BY <1>1, <1>5, <1>9 DEF ClerkOK, InSave
<1> QED BY <1>5, <1>8, <1>9, <1>10, LocalKeeps

Meant(t, v) ==
    /\ v \in Value
    /\ \/ v.writer = task[t].who
       \/ v.writer = task[t].about /\ v.vis >= Trust(task[t].about, task[t].who)

\* The clerk is done, with this answer; its VC object may change.
DoneWith(t, values, reply) ==
    /\ shown' = [shown EXCEPT ![t] = shown[t] \cup values]
    /\ result' = [result EXCEPT ![t] = reply]
    /\ clerkPc' = [clerkPc EXCEPT ![t] = "done"]
    /\ card' \in [Clerk -> VC] /\ \A q \in Clerk \ {t} : card'[q] = card[q]
    /\ UNCHANGED <<store, task, spent, users, saved, contactsUp>>

\* An answer with values that are meant for the requester.
LEMMA AnswerKeeps ==
    ASSUME ContactsIInv, NEW t \in Clerk, clerkPc[t] \in {"base", "read", "peer"},
           NEW values, \A v \in values : Meant(t, v), NEW reply \in Result,
           DoneWith(t, values, reply)
    PROVE  ContactsIInv'
<1>1. Typed /\ ClerkOK(t)
  BY DEF ContactsIInv, ClerksOK, Typed
<1>2. values \subseteq Value
  BY DEF Meant
<1>3. /\ task'[t] = task[t] /\ clerkPc'[t] = "done" /\ Others(t)
      /\ shown'[t] = shown[t] \cup values
      /\ UNCHANGED <<store, users, saved, contactsUp>>
  BY <1>1 DEF Typed, Others, DoneWith
<1>4. Typed'
  BY <1>1, <1>2 DEF Typed, DoneWith, Place
<1>5. ClerkOK(t)'
  BY <1>1, <1>3 DEF ClerkOK, InSave, Meant
<1> QED BY <1>3, <1>4, <1>5, LocalKeeps DEF ContactsIInv

\* The first answer to a request.
LEMMA FirstReply ==
    ASSUME ContactsIInv, NEW t \in Clerk, clerkPc[t] # "done",
           NEW status \in {200, 303, 400, 401, 404, 500}, Replies(t, status)
    PROVE  \E r \in Result : result' = [result EXCEPT ![t] = r]
<1>1. Typed /\ ClerkOK(t)
  BY DEF ContactsIInv, ClerksOK, Typed
<1> DEFINE reply == [answers |-> result[t].answers + 1, status |-> status]
<1>2. reply \in Result
  BY <1>1 DEF ClerkOK, NoResult, Result
<1>3. result' = [result EXCEPT ![t] = reply]
  BY <1>1 DEF Replies, Typed
<1> HIDE DEF reply
<1> WITNESS reply \in Result
<1> QED BY <1>3

\* An answer of what was read.
LEMMA FindsKeeps ==
    ASSUME ContactsIInv, NEW t \in Clerk, clerkPc[t] = "read",
           NEW values, \A v \in values : Meant(t, v),
           NEW status \in {200, 404}, Finds(t, values, status)
    PROVE  ContactsIInv'
<1>1. PICK reply \in Result : result' = [result EXCEPT ![t] = reply]
  BY FirstReply DEF Finds
<1>2. card' \in [Clerk -> VC] /\ \A q \in Clerk \ {t} : card'[q] = card[q]
  BY DEF Finds, ContactsIInv, ClerksOK
<1>3. DoneWith(t, values, reply)
  BY <1>1, <1>2 DEF Finds, GoesTo, DoneWith
<1> QED BY <1>3, AnswerKeeps

\* The answer of another instance has no values of this one.
LEMMA PeerRepliesKeeps ==
    ASSUME ContactsIInv, NEW t \in Clerk, PeerReplies(t)
    PROVE  ContactsIInv'
<1>1. clerkPc[t] = "peer" /\ GoesTo(t, "done") /\ \E status \in {200, 404, 500} : Replies(t, status)
  BY DEF PeerReplies, Forwarded, AtDesk
<1>2. PICK reply \in Result : result' = [result EXCEPT ![t] = reply]
  BY <1>1, FirstReply
<1>3. card' \in [Clerk -> VC] /\ \A q \in Clerk \ {t} : card'[q] = card[q]
  BY DEF PeerReplies, ContactsIInv, ClerksOK
<1>4. shown' = [shown EXCEPT ![t] = shown[t] \cup {}]
  BY DEF PeerReplies, ContactsIInv, ClerksOK
<1>5. DoneWith(t, {}, reply)
  BY <1>1, <1>2, <1>3, <1>4 DEF PeerReplies, GoesTo, DoneWith
<1> QED BY <1>1, <1>5, AnswerKeeps

\* A profile: what is visible to the requester, and the requester's own.
LEMMA ReadProfileKeeps ==
    ASSUME ContactsIInv, NEW t \in Clerk, ReadProfile(t)
    PROVE  ContactsIInv'
<1> DEFINE values == Values(db, Visible(task[t].about, task[t].trust) \cup
                              IF task[t].trust <= 1 THEN OwnLinks(db, task[t].who, task[t].about)
                              ELSE {})
<1>1. Typed /\ ClerkOK(t) /\ Sound(db)
  BY DEF ContactsIInv, ClerksOK, Typed
<1>2. clerkPc[t] = "read" /\ task[t].op = "profile" /\ Finds(t, values, 200)
  BY DEF ReadProfile, AtDesk
<1>3. task[t] \in Task /\ task[t].trust \in 0..3 /\ task[t].trust = Trust(task[t].about, task[t].who)
  BY <1>1, <1>2 DEF Typed, Task, ClerkOK
<1>4. ASSUME NEW v \in values
      PROVE  Meant(t, v)
  <2>1. \/ v \in Values(db, Visible(task[t].about, task[t].trust))
        \/ v \in Values(db, OwnLinks(db, task[t].who, task[t].about))
    BY DEF Values
  <2> QED BY <1>1, <1>3, <2>1, VisibleIsMeant, OwnIsOwn DEF Meant
<1> HIDE DEF values
<1> QED BY <1>2, <1>4, FindsKeeps

\* A picture of the requester's, or of the user when it is visible.
LEMMA ReadPictureKeeps ==
    ASSUME ContactsIInv, NEW t \in Clerk, ReadPicture(t)
    PROVE  ContactsIInv'
<1> DEFINE visible == Values(db, Visible(task[t].about, task[t].trust))
           pictures == Pictures(task[t].who, task[t].about, task[t].trust)
<1>1. Typed /\ ClerkOK(t) /\ Sound(db)
  BY DEF ContactsIInv, ClerksOK, Typed
<1>2. clerkPc[t] = "read" /\ task[t].op \in {"pfp", "namesake"} /\ contactsUp
  BY DEF ReadPicture, AtDesk
<1>3. task[t] \in Task /\ task[t].trust \in 0..3 /\ task[t].trust = Trust(task[t].about, task[t].who)
  BY <1>1, <1>2 DEF Typed, Task, ClerkOK
<1>4. \A v \in Values(db, OwnLinks(db, task[t].who, task[t].about)) : Meant(t, v)
  BY <1>1, OwnIsOwn DEF Meant
<1>5. \A v \in visible : Meant(t, v)
  BY <1>1, <1>3, VisibleIsMeant DEF Meant
<1>6. \A v \in pictures : Meant(t, v)
  BY <1>4, <1>5 DEF Pictures
<1> DEFINE AsksPeer == /\ GoesTo(t, "peer")
                       /\ UNCHANGED <<store, task, card, spent, shown, result, users, saved,
                                      contactsUp>>
           Twice == /\ result' = [result EXCEPT ![t] = [answers |-> 2, status |-> 307]]
                    /\ GoesTo(t, "done")
                    /\ UNCHANGED <<store, task, card, spent, shown, users, saved, contactsUp>>
<1>7. \/ Finds(t, {}, 404) \/ AsksPeer \/ Twice
      \/ \E p \in pictures : Finds(t, {p}, 200)
  BY DEF ReadPicture
<1> HIDE DEF pictures
<1>8. CASE Finds(t, {}, 404)
  BY <1>2, <1>8, FindsKeeps
<1>9. CASE \E p \in pictures : Finds(t, {p}, 200)
  <2>1. PICK p \in pictures : Finds(t, {p}, 200)
    BY <1>9
  <2> QED BY <1>2, <1>6, <2>1, FindsKeeps
<1>10. CASE AsksPeer
  <2>1. clerkPc'[t] = "peer" /\ Others(t) /\ Typed'
    BY <1>1, <1>10 DEF Typed, Others, Place, GoesTo
  <2>2. ClerkOK(t)'
    BY <1>1, <1>2, <1>10, <2>1 DEF ClerkOK, InSave
  <2>3. contactsUp' \in BOOLEAN /\ UNCHANGED <<store, users, saved>>
    BY <1>2, <1>10
  <2> QED BY <1>2, <2>1, <2>2, <2>3, LocalKeeps
<1>11. CASE Twice
  <2> DEFINE reply == [answers |-> 2, status |-> 307]
  <2>1. reply \in Result
    BY DEF Result
  <2>2. shown' = [shown EXCEPT ![t] = shown[t] \cup {}]
    BY <1>1, <1>11 DEF Typed
  <2>3. card' \in [Clerk -> VC] /\ \A q \in Clerk \ {t} : card'[q] = card[q]
    BY <1>1, <1>11 DEF Typed
  <2>4. DoneWith(t, {}, reply)
    BY <1>11, <2>2, <2>3 DEF DoneWith, GoesTo
  <2> HIDE DEF reply
  <2> QED BY <1>2, <2>1, <2>4, AnswerKeeps
<1> QED BY <1>7, <1>8, <1>9, <1>10, <1>11
\* All cards are the requester's own.
LEMMA ReadAllKeeps ==
    ASSUME ContactsIInv, NEW t \in Clerk, ReadAll(t)
    PROVE  ContactsIInv'
<1> DEFINE who == task[t].who
           contacts == UNION {OwnLinks(db, who, u) : u \in Asker}
<1>1. Typed /\ ClerkOK(t) /\ Sound(db)
  BY DEF ContactsIInv, ClerksOK, Typed
<1>2. clerkPc[t] = "read" /\ task[t].op = "all" /\ contactsUp
  BY DEF ReadAll, AtDesk
<1>3. task[t] \in Task /\ task[t].about = who /\ who \in Account
  BY <1>1, <1>2 DEF Typed, Task, ClerkOK
<1>4. ASSUME NEW v \in Values(db, contacts)
      PROVE  Meant(t, v)
  <2>1. \E u \in Asker : v \in Values(db, OwnLinks(db, who, u))
    BY DEF Values
  <2> QED BY <1>1, <2>1, OwnIsOwn DEF Meant
<1>5. ASSUME NEW trust \in {0, 2}, NEW v \in Values(db, Visible(who, trust))
      PROVE  Meant(t, v)
  <2>1. v \in Value /\ v.writer = who
    BY <1>1, VisibleIsMeant
  <2> QED BY <2>1 DEF Meant
<1>6. \A v \in Values(db, Visible(who, 0) \cup contacts) :
         v \in Values(db, Visible(who, 0)) \/ v \in Values(db, contacts)
  BY DEF Values
<1>7. CASE card[t].user = who
  <2> DEFINE values == IF card[t].id = -1 THEN {} ELSE Values(db, Visible(who, 2))
  <2>1. Finds(t, values, 200)
    BY <1>7 DEF ReadAll
  <2>2. \A v \in values : Meant(t, v)
    BY <1>5
  <2> HIDE DEF values
  <2> QED BY <1>2, <2>1, <2>2, FindsKeeps
<1>8. CASE card[t].user # who /\ ProfilesOf(db, who) # {}
  <2> DEFINE values == Values(db, Visible(who, 0) \cup contacts)
  <2>1. Finds(t, values, 200)
    BY <1>8 DEF ReadAll
  <2>2. \A v \in values : Meant(t, v)
    BY <1>4, <1>5, <1>6
  <2> HIDE DEF values
  <2> QED BY <1>2, <2>1, <2>2, FindsKeeps
<1>9. CASE card[t].user # who /\ ProfilesOf(db, who) = {}
  <2> DEFINE values == Values(db, contacts)
  <2>1. /\ shown' = [shown EXCEPT ![t] = values]
        /\ clerkPc' = [clerkPc EXCEPT ![t] = "base"]
        /\ UNCHANGED <<store, task, card, spent, result, users, saved, contactsUp>>
    BY <1>9 DEF ReadAll, GoesTo
  <2>2. \A v \in values : Meant(t, v)
    BY <1>4
  <2> HIDE DEF values
  <2>3. values \in SUBSET Value
    BY <2>2 DEF Meant
  <2>4. clerkPc'[t] = "base" /\ Others(t) /\ Typed' /\ shown'[t] = values /\ task'[t] = task[t]
    BY <1>1, <2>1, <2>3 DEF Typed, Others, Place
  <2>5. ClerkOK(t)'
    BY <1>1, <1>2, <1>3, <2>1, <2>2, <2>4 DEF ClerkOK, InSave, Meant
  <2>6. contactsUp' \in BOOLEAN /\ UNCHANGED <<store, users, saved>>
    BY <1>2, <2>1
  <2> QED BY <1>2, <2>4, <2>5, <2>6, LocalKeeps
<1> QED BY <1>7, <1>8, <1>9

\* A card asked for by its number is never shown.
LEMMA ReadCardKeeps ==
    ASSUME ContactsIInv, NEW t \in Clerk, ReadCard(t)
    PROVE  ContactsIInv'
<1>1. PICK n \in {-1} \cup CardNo :
         Finds(t, {}, IF n \in DOMAIN db.cards /\ db.cards[n].owner = task[t].who
                      THEN 404 ELSE 200)
  BY DEF ReadCard
<1>2. PICK status \in {200, 404} : Finds(t, {}, status)
  BY <1>1
<1> QED BY <1>2, FindsKeeps DEF ReadCard, AtDesk

\* The clerk forgets the request.
LEMMA ClerkIsFreeKeeps ==
    ASSUME ContactsIInv, NEW t \in Clerk, ClerkIsFree(t)
    PROVE  ContactsIInv'
<1>1. Typed /\ ClerkOK(t)
  BY DEF ContactsIInv, ClerksOK, Typed
<1>2. /\ clerkPc[t] = "done" /\ contactsUp
      /\ task' = [task EXCEPT ![t] = NoTask] /\ card' = [card EXCEPT ![t] = NoCard]
      /\ shown' = [shown EXCEPT ![t] = {}] /\ result' = [result EXCEPT ![t] = NoResult]
      /\ clerkPc' = [clerkPc EXCEPT ![t] = "idle"]
      /\ UNCHANGED <<store, spent, users, saved, contactsUp>>
  BY DEF ClerkIsFree, AtDesk, GoesTo
<1>3. NoTask \in Task /\ NoCard \in VC /\ NoResult \in Result
  BY ContactsAssumption DEF NoTask, NoCard, NoResult, Task, VC, Result, Op, Asker
<1> HIDE DEF NoTask, NoCard, NoResult
<1>4. /\ clerkPc'[t] = "idle" /\ shown'[t] = {} /\ result'[t] = NoResult
      /\ Others(t) /\ Typed'
  BY <1>1, <1>2, <1>3 DEF Typed, Others, Place
<1>5. ClerkOK(t)'
  BY <1>4 DEF ClerkOK, InSave, NoResult
<1> QED BY <1>2, <1>4, <1>5, LocalKeeps

\* A save that is over leaves its clerk a request that is answered or reads on.
LEMMA SaveIsOver ==
    ASSUME ContactsIInv, NEW t \in Clerk, clerkPc[t] \in InSave,
           NEW status \in {200, 401, 500}, AfterSave(t, status),
           UNCHANGED <<task, card, shown>>, spent' \in [Clerk -> SUBSET {"create", "update"}]
    PROVE  Typed' /\ Others(t) /\ ClerkOK(t)' /\ clerkPc'[t] \in {"done", "read"}
<1>1. Typed /\ ClerkOK(t)
  BY DEF ContactsIInv, ClerksOK, Typed
<1>2. clerkPc[t] # "done"
  BY DEF InSave
<1>3. CASE \E s \in {200, 401, 404, 500} : Replies(t, s) /\ GoesTo(t, "done")
  <2>1. PICK reply \in Result : result' = [result EXCEPT ![t] = reply]
    BY <1>2, <1>3, FirstReply
  <2>2. clerkPc' = [clerkPc EXCEPT ![t] = "done"]
    BY <1>3 DEF GoesTo
  <2>3. Others(t) /\ Typed' /\ clerkPc'[t] = "done"
    BY <1>1, <2>1, <2>2 DEF Typed, Others, Place
  <2>4. ClerkOK(t)'
    BY <1>1, <2>3 DEF ClerkOK, InSave
  <2> QED BY <2>3, <2>4
<1>4. CASE GoesTo(t, "read") /\ UNCHANGED result
  <2>1. Others(t) /\ Typed' /\ clerkPc'[t] = "read"
    BY <1>1, <1>4 DEF Typed, Others, Place, GoesTo
  <2>2. ClerkOK(t)'
    BY <1>1, <1>2, <1>4, <2>1 DEF ClerkOK, InSave
  <2> QED BY <2>1, <2>2
<1> QED BY <1>3, <1>4 DEF AfterSave

\* A save that cannot begin.
LEMMA SaveThrowsKeeps ==
    ASSUME ContactsIInv, NEW t \in Clerk, SaveThrows(t)
    PROVE  ContactsIInv'
<1>1. clerkPc[t] = "write" /\ contactsUp /\ AfterSave(t, 500)
      /\ UNCHANGED <<store, task, card, shown, users, saved, contactsUp>>
  BY DEF SaveThrows, AtDesk
<1>2. spent' \in [Clerk -> SUBSET {"create", "update"}]
  BY DEF SaveThrows, Statement, ContactsIInv, ClerksOK
<1>3. UNCHANGED <<task, card, shown>> /\ UNCHANGED <<store, users, saved>> /\ contactsUp' \in BOOLEAN
  BY <1>1
<1>4. Typed' /\ Others(t) /\ ClerkOK(t)' /\ clerkPc'[t] \in {"done", "read"}
  BY <1>1, <1>2, <1>3, SaveIsOver DEF InSave
<1> QED BY <1>1, <1>3, <1>4, LocalKeeps

\* A profile is found, or begun for a user who is not deleted.
LEMMA ProfileBaseKeeps ==
    ASSUME ContactsIInv, NEW t \in Clerk, ProfileBase(t)
    PROVE  ContactsIInv'
<1> DEFINE u == task[t].about
<1>1. Typed /\ ClerkOK(t)
  BY DEF ContactsIInv, ClerksOK, Typed
<1>2. clerkPc[t] = "base" /\ contactsUp /\ contactsUp' \in BOOLEAN
      /\ UNCHANGED <<task, spent, shown>> /\ UNCHANGED <<store, users, saved>>
  BY DEF ProfileBase, AtDesk
<1>3. u \in Account /\ u \in Asker
  BY <1>1, <1>2 DEF ClerkOK, Asker
<1>4. CASE ProfilesOf(db, u) # {}
  <2> DEFINE vc == [id |-> Min(ProfilesOf(db, u)), user |-> u, props |-> <<>>, new |-> FALSE]
  <2>1. card' = [card EXCEPT ![t] = vc] /\ clerkPc' = [clerkPc EXCEPT ![t] = "read"]
        /\ UNCHANGED result
    BY <1>4 DEF ProfileBase, GoesTo
  <2>2. Min(ProfilesOf(db, u)) \in -1..MaxCards
    <3>1. OkDatabase(db)
      BY DEF ContactsIInv, Sound
    <3>2. Min(ProfilesOf(db, u)) \in DOMAIN db.cards
      BY <1>4, <3>1, FirstProfile DEF ProfilesOf
    <3>3. DOMAIN db.cards \subseteq 1..db.last /\ db.last \in 0..MaxCards /\ MaxCards \in Nat
      BY <3>1, ContactsAssumption DEF OkDatabase
    <3> HIDE DEF ProfilesOf
    <3> QED BY <3>2, <3>3
  <2>3. vc \in VC
    BY <1>3, <2>2 DEF VC
  <2> HIDE DEF vc
  <2>4. clerkPc'[t] = "read" /\ Others(t) /\ Typed'
    BY <1>1, <1>2, <2>1, <2>3 DEF Typed, Others, Place
  <2>5. ClerkOK(t)'
    BY <1>1, <1>2, <2>1, <2>4 DEF ClerkOK, InSave
  <2> QED BY <1>2, <2>4, <2>5, LocalKeeps
<1>5. CASE ProfilesOf(db, u) = {}
  <2> DEFINE vc == [id |-> -1, user |-> u, props |-> <<>>, new |-> TRUE]
  <2>1. /\ card' = [card EXCEPT ![t] = vc] /\ erasing = Anonymous
        /\ IF u \in accounts THEN GoesTo(t, "write") /\ UNCHANGED result
           ELSE IF task[t].op = "profile" THEN Replies(t, 404) /\ GoesTo(t, "done")
           ELSE GoesTo(t, "read") /\ UNCHANGED result
    BY <1>5 DEF ProfileBase
  <2>2. vc \in VC /\ vc.props = <<>> /\ vc.new
    BY <1>3, ContactsAssumption DEF VC
  <2> HIDE DEF vc
  <2>3. card' \in [Clerk -> VC] /\ card'[t] = vc /\ \A q \in Clerk \ {t} : card'[q] = card[q]
    BY <1>1, <2>1, <2>2 DEF Typed
  <2>4. CASE u \in accounts
    <3>1. clerkPc'[t] = "write" /\ Others(t) /\ Typed' /\ UNCHANGED result
      BY <1>1, <1>2, <2>1, <2>3, <2>4 DEF Typed, Others, Place, GoesTo
    <3>2. ClerkOK(t)'
      BY <1>1, <1>2, <1>3, <2>2, <2>3, <3>1 DEF ClerkOK, InSave
    <3>3. u \notin Doomed
      BY <1>3, <2>1, <2>4, ContactsAssumption DEF ContactsIInv, Erasing, Doomed
    <3> QED BY <1>2, <3>1, <3>2, <3>3, LocalKeeps
  <2>5. CASE u \notin accounts /\ task[t].op = "profile"
    <3>1. Replies(t, 404) /\ clerkPc' = [clerkPc EXCEPT ![t] = "done"]
      BY <2>1, <2>5 DEF GoesTo
    <3>2. PICK reply \in Result : result' = [result EXCEPT ![t] = reply]
      BY <1>2, <3>1, FirstReply
    <3>3. shown' = [shown EXCEPT ![t] = shown[t] \cup {}]
      BY <1>1, <1>2 DEF Typed
    <3>4. DoneWith(t, {}, reply)
      BY <2>3, <3>1, <3>2, <3>3 DEF ProfileBase, DoneWith
    <3> QED BY <1>2, <3>4, AnswerKeeps
  <2>6. CASE u \notin accounts /\ task[t].op # "profile"
    <3>1. clerkPc'[t] = "read" /\ Others(t) /\ Typed' /\ UNCHANGED result
      BY <1>1, <1>2, <2>1, <2>3, <2>6 DEF Typed, Others, Place, GoesTo
    <3>2. ClerkOK(t)'
      BY <1>1, <1>2, <1>3, <3>1 DEF ClerkOK, InSave
    <3> QED BY <1>2, <3>1, <3>2, LocalKeeps
  <2> QED BY <2>4, <2>5, <2>6
<1> QED BY <1>4, <1>5
-----------------------------------------------------------------------------
(* Transactions, and what they do to users that are deleted.               *)

\* Empty tables are sound.
LEMMA EmptySound == Sound(EmptyDb)
<1> DEFINE d == EmptyDb
<1>1. /\ d = [cards |-> d.cards, last |-> d.last, props |-> d.props, links |-> d.links]
      /\ d.cards = <<>> /\ d.last = 0 /\ d.props = <<>> /\ d.links = {}
  BY DEF EmptyDb
<1> HIDE DEF d
<1>2. OkDatabase(d)
  BY <1>1, ContactsAssumption DEF OkDatabase
<1>3. IsFiniteSet(d.links)
  BY <1>1, FS_EmptySet
<1>4. Sound(d)
  BY <1>1, <1>2, <1>3 DEF Sound
<1> QED BY <1>4 DEF d

\* What is committed has nothing more of a user who is deleted or being so.
NothingMore ==
    \A u \in Doomed \ overlapped :
       /\ \A n \in DOMAIN db'.cards : db'.cards[n].owner = u
                                         => n \in DOMAIN db.cards /\ db.cards[n].owner = u
       /\ \A l \in db'.links : l.card \in DOMAIN db'.cards /\ db'.cards[l.card].owner = u
                                  => l \in db.links
       /\ \A p \in DOMAIN db'.props : db'.props[p].writer = u
                                         => p \in DOMAIN db.props /\ db.props[p].writer = u

\* What is deleted of a user stays deleted while nothing is written for him.
LEMMA NothingMoreKeeps ==
    ASSUME ContactsIInv, NothingMore, UNCHANGED users,
           \A q \in Clerk : clerkPc'[q] = "erase" => clerkPc[q] = "erase" /\ task'[q] = task[q]
    PROVE  Erasing' /\ DeletedUserGone'
<1>1. UNCHANGED <<accounts, erasing, overlapped, gone>>
  BY DEF users
<1>2. Erasing /\ DeletedUserGone
  BY DEF ContactsIInv
<1>3. ASSUME NEW q \in Clerk, clerkPc'[q] = "erase"
      PROVE  Erased(q)'
  <2>1. Erased(q) /\ task'[q] = task[q]
    BY <1>2, <1>3 DEF Erasing
  <2>2. CASE erasing \in overlapped
    BY <1>1, <2>1, <2>2 DEF Erased
  <2>3. CASE erasing \notin overlapped
    <3>1. PICK u \in Account : u = task[q].who /\ u = erasing /\ u \in Doomed \ overlapped
      BY <2>1, <2>3 DEF Erased, Doomed
    <3>2. CardsOf(u)' \subseteq CardsOf(u)
      BY <3>1 DEF NothingMore, CardsOf
    <3>3. \A l \in db'.links : l.card \in CardsOf(u)' => l \in db.links
      BY <3>1 DEF NothingMore, CardsOf
    <3>4. \A p \in DOMAIN db'.props : db'.props[p].writer = u
                                         => p \in DOMAIN db.props /\ db.props[p].writer = u
      BY <3>1 DEF NothingMore
    <3>5. CardsOf(task[q].who)' = CardsOf(u)' /\ CardsOf(task[q].who) = CardsOf(u)
      BY <2>1, <3>1
    <3> HIDE DEF CardsOf
    <3> QED BY <1>1, <2>1, <3>1, <3>2, <3>3, <3>4, <3>5 DEF Erased
  <2> QED BY <2>2, <2>3
<1>4. Erasing'
  BY <1>1, <1>2, <1>3 DEF Erasing
<1>5. DeletedUserGone'
  BY <1>1, <1>2 DEF DeletedUserGone, NothingOf, NothingMore, Doomed
<1> QED BY <1>4, <1>5

\* A clerk goes on with its save, or ends it.
LEMMA SaveGoesOn ==
    ASSUME ContactsIInv, NEW t \in Clerk, clerkPc[t] \in InSave, UNCHANGED <<users, task>>,
           clerkPc'[t] # "erase", Others(t), NothingMore
    PROVE  Erasing' /\ DeletedUserGone' /\ NoneWritesForDoomed'
<1>1. UNCHANGED <<accounts, erasing, overlapped, gone>>
  BY DEF users
<1>2. \A q \in Clerk : clerkPc'[q] = "erase" => clerkPc[q] = "erase" /\ task'[q] = task[q]
  BY DEF Others
<1>3. \A q \in Clerk : clerkPc'[q] \in InSave => clerkPc[q] \in InSave
  BY DEF Others
<1>4. Doomed' = Doomed
  BY <1>1 DEF Doomed
<1> HIDE DEF Doomed
<1>5. NoneWritesForDoomed'
  BY <1>1, <1>3, <1>4 DEF ContactsIInv, NoneWritesForDoomed
<1> QED BY <1>2, <1>5, NothingMoreKeeps

\* Nothing is written when nothing changes.
LEMMA NothingMoreSame ==
    ASSUME db' = db
    PROVE  NothingMore
BY DEF NothingMore

\* The commit begins when all properties are filled in.
LEMMA BeginCommitKeeps ==
    ASSUME ContactsIInv, NEW t \in Clerk, BeginCommit(t)
    PROVE  ContactsIInv'
<1>1. Typed /\ ClerkOK(t) /\ OneWrites
  BY DEF ContactsIInv, ClerksOK, Typed
<1>2. /\ clerkPc[t] = "fill" /\ contactsUp /\ clerkPc' = [clerkPc EXCEPT ![t] = "committing"]
      /\ UNCHANGED <<db, work, holder, task, card, spent, shown, result, saved, contactsUp>>
      /\ UNCHANGED <<accounts, erasing, overlapped, gone>>
      /\ Filled(t) = Len(card[t].props)
  BY DEF BeginCommit, AtDesk, GoesTo, store, users
<1> HIDE DEF Filled
<1>3. Typed' /\ Others(t) /\ clerkPc'[t] = "committing"
  BY <1>1, <1>2 DEF Typed, Others, Place
<1>4. ClerkOK(t)'
  BY <1>1, <1>2, <1>3 DEF ClerkOK, InSave
<1>5. ClerksOK'
  BY <1>3, <1>4, OthersOK
<1>6. OneWrites'
  <2>1. holder = t
    BY <1>1, <1>2 DEF OneWrites
  <2>2. Writing(t)'
    <3>1. Writing(t)
      BY <1>1, <2>1, ContactsAssumption DEF OneWrites, NoClerk
    <3> QED BY <1>2, <3>1, WritingKept
  <2>3. t # NoClerk
    BY ContactsAssumption DEF NoClerk
  <2> QED BY <1>1, <1>2, <1>3, <2>1, <2>2, <2>3 DEF OneWrites, Others, NoClerk
<1>7. Erasing' /\ DeletedUserGone' /\ NoneWritesForDoomed'
  BY <1>2, <1>3, SaveGoesOn, NothingMoreSame DEF InSave, users
<1>8. Sound(db)' /\ Sound(work)' /\ CardsWhole'
  BY <1>2 DEF ContactsIInv, Sound, CardsWhole, ValuesOf, LinksOf
<1> QED BY <1>2, <1>5, <1>6, <1>7, <1>8 DEF ContactsIInv

\* The clerk that begins a transaction.
LEMMA BeginsKeeps ==
    ASSUME ContactsIInv, NEW t \in Clerk, clerkPc[t] = "write", holder = NoClerk, contactsUp,
           clerkPc' = [clerkPc EXCEPT ![t] = "fill"], holder' = t,
           UNCHANGED <<db, task, spent, shown, result, users, saved, contactsUp>>,
           card' \in [Clerk -> VC], \A q \in Clerk \ {t} : card'[q] = card[q],
           card'[t].props = card[t].props, card'[t].new = card[t].new,
           Sound(work'), Writing(t)'
    PROVE  ContactsIInv'
<1>1. Typed /\ ClerkOK(t) /\ OneWrites
  BY DEF ContactsIInv, ClerksOK, Typed
<1>2. UNCHANGED <<accounts, erasing, overlapped, gone>> /\ db' = db
      /\ UNCHANGED <<task, spent, shown, result, saved, contactsUp>>
  BY DEF users
<1>3. Typed' /\ Others(t) /\ clerkPc'[t] = "fill"
  BY <1>1, <1>2 DEF Typed, Others, Place
<1>4. ClerkOK(t)'
  BY <1>1, <1>2, <1>3 DEF ClerkOK, InSave
<1>5. ClerksOK'
  BY <1>3, <1>4, OthersOK
<1>6. OneWrites'
  <2>1. t # NoClerk
    BY ContactsAssumption DEF NoClerk
  <2>2. ASSUME NEW q \in Clerk
        PROVE  clerkPc'[q] \in {"fill", "committing"} <=> holder' = q
    BY <1>1, <1>3, ContactsAssumption DEF OneWrites, Others, NoClerk
  <2>3. Writing(holder)'
    OBVIOUS
  <2> QED BY <2>1, <2>2, <2>3 DEF OneWrites, NoClerk
<1>7. Erasing' /\ DeletedUserGone' /\ NoneWritesForDoomed'
  BY <1>2, <1>3, SaveGoesOn, NothingMoreSame DEF InSave, users
<1>8. Sound(db)' /\ Sound(work)' /\ CardsWhole'
  BY <1>2 DEF ContactsIInv, Sound, CardsWhole, ValuesOf, LinksOf
<1> QED BY <1>2, <1>5, <1>6, <1>7, <1>8 DEF ContactsIInv
\* A new card has a number that no link has.
LEMMA CreateCardKeeps ==
    ASSUME ContactsIInv, NEW t \in Clerk, CreateCard(t)
    PROVE  ContactsIInv'
<1> DEFINE n == db.last + 1
           a == task[t].about
           user == card[t].user
<1>1. Typed /\ ClerkOK(t) /\ Sound(db)
  BY DEF ContactsIInv, ClerksOK, Typed
<1>2. /\ clerkPc[t] = "write" /\ contactsUp /\ holder = NoClerk
      /\ clerkPc' = [clerkPc EXCEPT ![t] = "fill"] /\ holder' = t
      /\ card' = [card EXCEPT ![t].id = n]
      /\ work' = WithCard(db, n, a, user)
      /\ UNCHANGED <<db, task, spent, shown, result, users, saved, contactsUp>>
      /\ UNCHANGED overlapped
      /\ db.last < MaxCards
  BY DEF CreateCard, Writable, AtDesk, GoesTo, users
<1>3. n \in CardNo /\ n > db.last /\ n \notin DOMAIN db.cards /\ \A l \in db.links : l.card # n
  BY <1>1, <1>2, ContactsAssumption DEF Sound, OkDatabase, CardNo
<1>4. a \in Account /\ user \in Asker
  BY <1>1, <1>2 DEF ClerkOK, InSave, Typed, VC
<1> DEFINE vc == [id |-> n, user |-> user, props |-> card[t].props, new |-> card[t].new]
<1>5. card[t] = [id |-> card[t].id, user |-> user, props |-> card[t].props, new |-> card[t].new]
      /\ card[t] \in VC
  BY <1>1 DEF Typed, VC
<1>6. card' = [card EXCEPT ![t] = vc]
  <2>1. card' = [card EXCEPT ![t] = [card[t] EXCEPT !.id = n]]
    BY <1>2
  <2>2. \A v : v = [id |-> v.id, user |-> user, props |-> v.props, new |-> v.new]
                => [v EXCEPT !.id = n]
                      = [id |-> n, user |-> user, props |-> v.props, new |-> v.new]
    OBVIOUS
  <2>3. [card[t] EXCEPT !.id = n] = vc
    BY <1>5, <2>2
  <2> QED BY <2>1, <2>3
<1>7. vc \in VC /\ vc.id = n /\ vc.props = card[t].props /\ vc.new = card[t].new
  BY <1>3, <1>5, ContactsAssumption DEF VC, CardNo
<1> HIDE DEF vc, n
<1>8. /\ card' \in [Clerk -> VC] /\ \A q \in Clerk \ {t} : card'[q] = card[q]
      /\ card'[t] = vc
  BY <1>1, <1>6, <1>7 DEF Typed
<1> DEFINE e == WithCard(db, n, a, user)
<1>9. /\ Sound(e)
      /\ DOMAIN e.cards = DOMAIN db.cards \cup {n} /\ e.cards[n].owner = a
      /\ \A m \in DOMAIN db.cards \ {n} : e.cards[m] = db.cards[m]
      /\ e.props = db.props /\ e.links = db.links
  BY <1>1, <1>3, <1>4, WithCardSound
<1> HIDE DEF e
<1>10. work' = e
  BY <1>2 DEF e
<1>11. Sound(work')
  BY <1>9, <1>10
<1>12. Writing(t)'
  <2>1. LinksOf(work', n) = {}
    BY <1>3, <1>9, <1>10 DEF LinksOf
  <2>2. {l \in work'.links : l.card = card'[t].id} = {}
    BY <1>7, <1>8, <2>1 DEF LinksOf
  <2>3. Filled(t)' = 0
    BY <2>2, FS_EmptySet DEF Filled
  <2>4. ValuesOf(work', n) = {card'[t].props[i] : i \in 1..0}
    BY <2>1 DEF ValuesOf
  <2>5. Len(card'[t].props) \in Nat
    BY <1>7, <1>8 DEF VC
  <2>6. ValuesOf(work', card'[t].id) = {card'[t].props[i] : i \in 1..Filled(t)'}
    BY <1>7, <1>8, <2>3, <2>4
  <2>7. card'[t].id = n /\ task'[t].about = a /\ db' = db
    BY <1>2, <1>7, <1>8
  <2>8. clerkPc'[t] = "fill"
    BY <1>1, <1>2 DEF Typed
  <2> HIDE DEF Filled, ValuesOf
  <2>9. /\ n \in DOMAIN work'.cards /\ work'.cards[n].owner = a
        /\ n \notin DOMAIN db.cards
        /\ \A m \in CardNo \ {n} :
              /\ m \in DOMAIN work'.cards <=> m \in DOMAIN db.cards
              /\ m \in DOMAIN db.cards => work'.cards[m] = db.cards[m]
        /\ work'.links = db.links /\ work'.props = db.props
    BY <1>3, <1>9, <1>10
  <2> QED BY <2>3, <2>5, <2>6, <2>7, <2>8, <2>9 DEF Writing
<1> QED BY <1>2, <1>7, <1>8, <1>11, <1>12, BeginsKeeps

\* An old card loses the properties it had.
LEMMA UpdateCardKeeps ==
    ASSUME ContactsIInv, NEW t \in Clerk, UpdateCard(t)
    PROVE  ContactsIInv'
<1> DEFINE n == card[t].id
           a == task[t].who
           user == card[t].user
<1>1. Typed /\ ClerkOK(t) /\ Sound(db)
  BY DEF ContactsIInv, ClerksOK, Typed
<1>2. /\ clerkPc[t] = "write" /\ contactsUp /\ holder = NoClerk /\ ~card[t].new
      /\ UNCHANGED <<task, card, spent, shown, users, saved, contactsUp>>
      /\ UNCHANGED overlapped
  BY DEF UpdateCard, Writable, AtDesk, users
<1>3. CASE ~(n \in DOMAIN db.cards /\ db.cards[n].owner = a)
  <2>1. AfterSave(t, 401) /\ UNCHANGED store
    BY <1>3 DEF UpdateCard
  <2>2. spent' \in [Clerk -> SUBSET {"create", "update"}]
    BY <1>1, <1>2 DEF Typed
  <2>3. UNCHANGED <<task, card, shown>> /\ UNCHANGED <<store, users, saved>>
        /\ contactsUp' \in BOOLEAN
    BY <1>2, <2>1
  <2>4. Typed' /\ Others(t) /\ ClerkOK(t)' /\ clerkPc'[t] \in {"done", "read"}
    BY <1>2, <2>1, <2>2, <2>3, SaveIsOver DEF InSave
  <2> QED BY <1>2, <2>3, <2>4, LocalKeeps
<1>4. CASE n \in DOMAIN db.cards /\ db.cards[n].owner = a
  <2> DEFINE old == {l \in db.links : l.card = n}
             b == WithCard(db, n, a, user)
             c == Without(b, old)
             e == Pruned(c)
  <2>1. /\ work' = e /\ holder' = t /\ clerkPc' = [clerkPc EXCEPT ![t] = "fill"]
        /\ UNCHANGED <<db, result>>
    BY <1>4 DEF UpdateCard, GoesTo
  <2>2. n \in CardNo /\ a = task[t].about /\ a \in Account /\ user \in Asker
    <3>1. DOMAIN db.cards \subseteq CardNo
      BY <1>1, ContactsAssumption DEF Sound, OkDatabase, CardNo
    <3> QED BY <1>1, <1>2, <1>4, <3>1 DEF ClerkOK, InSave, Typed, VC
  <2>3. /\ Sound(b)
        /\ DOMAIN b.cards = DOMAIN db.cards \cup {n} /\ b.cards[n].owner = a
        /\ \A m \in DOMAIN db.cards \ {n} : b.cards[m] = db.cards[m]
        /\ b.props = db.props /\ b.links = db.links
    BY <1>1, <1>4, <2>2, WithCardSound
  <2> HIDE DEF b
  <2>4. /\ Sound(c) /\ c.cards = b.cards /\ c.props = db.props
        /\ c.links = db.links \ old
    BY <2>3, WithoutSound
  <2> HIDE DEF c
  <2>5. /\ Sound(e) /\ e.cards = b.cards /\ e.links = db.links \ old
        /\ \A p \in DOMAIN e.props : p \in DOMAIN db.props /\ e.props[p] = db.props[p]
        /\ \A l \in e.links : e.props[l.prop] = db.props[l.prop]
    BY <2>4, PrunedSound
  <2> HIDE DEF e
  <2>6. Sound(work')
    BY <2>1, <2>5
  <2>7. card'[t] = card[t] /\ task'[t] = task[t] /\ db' = db /\ clerkPc'[t] = "fill"
    BY <1>1, <1>2, <2>1 DEF Typed
  <2>8. Writing(t)'
    <3>1. LinksOf(work', n) = {}
      BY <2>1, <2>5 DEF LinksOf
    <3>2. {l \in work'.links : l.card = card'[t].id} = {}
      BY <2>7, <3>1 DEF LinksOf
    <3>3. Filled(t)' = 0
      BY <3>2, FS_EmptySet DEF Filled
    <3>4. ValuesOf(work', n) = {card'[t].props[i] : i \in 1..0}
      BY <3>1 DEF ValuesOf
    <3>5. Len(card'[t].props) \in Nat
      BY <1>1, <2>7 DEF Typed, VC
    <3>6. ValuesOf(work', card'[t].id) = {card'[t].props[i] : i \in 1..Filled(t)'}
      BY <2>7, <3>3, <3>4
    <3> HIDE DEF Filled, ValuesOf
    <3>7. /\ n \in DOMAIN work'.cards /\ work'.cards[n].owner = a
          /\ \A m \in CardNo \ {n} :
                /\ m \in DOMAIN work'.cards <=> m \in DOMAIN db.cards
                /\ m \in DOMAIN db.cards => work'.cards[m] = db.cards[m]
      BY <2>1, <2>3, <2>5
    <3>8. /\ \A l \in Link : l.card # n => (l \in work'.links <=> l \in db.links)
          /\ \A l \in work'.links : work'.props[l.prop] = db.props[l.prop]
          /\ \A p \in DOMAIN work'.props : p \in DOMAIN db.props /\ work'.props[p] = db.props[p]
      BY <2>1, <2>5
    <3> QED BY <1>4, <2>2, <2>7, <3>3, <3>5, <3>6, <3>7, <3>8 DEF Writing
  <2>9. card' \in [Clerk -> VC] /\ \A q \in Clerk \ {t} : card'[q] = card[q]
    BY <1>1, <1>2 DEF Typed
  <2>10. UNCHANGED <<db, task, spent, shown, result, users, saved, contactsUp>>
    BY <1>2, <2>1
  <2> QED BY <1>2, <2>1, <2>6, <2>7, <2>8, <2>9, <2>10, BeginsKeeps
<1> QED BY <1>3, <1>4
\* Another property is filled in.
LEMMA FillCardKeeps ==
    ASSUME ContactsIInv, NEW t \in Clerk, FillCard(t)
    PROVE  ContactsIInv'
<1> DEFINE n == card[t].id
           a == task[t].about
           k == Filled(t)
           value == card[t].props[k + 1]
           new == [card |-> n, prop |-> NextProp(work), vis |-> value.vis]
           e == WithProp(work, n, value)
<1>1. Typed /\ ClerkOK(t) /\ Sound(work) /\ OneWrites
  BY DEF ContactsIInv, ClerksOK, Typed
<1>2. /\ clerkPc[t] = "fill" /\ contactsUp /\ work' = e
      /\ k < Len(card[t].props) /\ NextProp(work) \in PropNo
      /\ UNCHANGED <<db, holder, task, clerkPc, card, spent, shown, result, saved, contactsUp>>
      /\ UNCHANGED <<accounts, erasing, overlapped, gone>>
  BY DEF FillCard, AtDesk, users
<1>3. holder = t /\ Writing(t)
  BY <1>1, <1>2, ContactsAssumption DEF OneWrites, NoClerk
<1> DEFINE S == {l \in work.links : l.card = n}
<1>4. IsFiniteSet(S) /\ k = Cardinality(S) /\ k \in Nat
  <2>1. IsFiniteSet(S)
    BY <1>1, FS_Subset DEF Sound
  <2>2. Cardinality(S) \in Nat
    BY <2>1, FS_CardinalityType
  <2> QED BY <2>1, <2>2 DEF Filled
<1>5. card[t].props \in Seq(Value) /\ Len(card[t].props) \in Nat
  BY <1>1 DEF Typed, VC
<1> HIDE DEF k, S
<1>6. value \in Value /\ value.writer = a /\ card[t].props # <<>>
  <2>1. k + 1 \in 1..Len(card[t].props)
    BY <1>2, <1>4, <1>5
  <2>2. value \in Value /\ card[t].props # <<>>
    BY <1>5, <2>1
  <2>3. value.writer = task[t].who /\ a = task[t].who
    BY <1>1, <1>2, <2>1, <2>2 DEF ClerkOK, InSave
  <2> QED BY <2>2, <2>3
<1> HIDE DEF value
<1>7. n \in DOMAIN work.cards /\ work.cards[n].owner = a
  BY <1>3 DEF Writing
<1>8. /\ Sound(e)
      /\ e.cards = work.cards
      /\ new \in Link \ work.links /\ e.links = work.links \cup {new}
      /\ DOMAIN e.props = DOMAIN work.props \cup {NextProp(work)} /\ e.props[new.prop] = value
      /\ \A p \in DOMAIN work.props : e.props[p] = work.props[p]
  BY <1>1, <1>2, <1>6, <1>7, WithPropSound
<1>9. new.card = n /\ new.prop = NextProp(work)
  OBVIOUS
<1> HIDE DEF new, e
<1>10. Sound(work')
  BY <1>2, <1>8
<1>11. \A l \in work.links : l.prop \in DOMAIN work.props
  BY <1>1 DEF Sound
<1>12. Filled(t)' = k + 1
  <2>1. {l \in work'.links : l.card = card'[t].id} = S \cup {new} /\ new \notin S
    BY <1>2, <1>8, <1>9 DEF S
  <2>2. Cardinality(S \cup {new}) = k + 1
    BY <1>4, <2>1, FS_AddElement
  <2> QED BY <2>1, <2>2 DEF Filled
<1>13. ValuesOf(work, n)' = {card[t].props[i] : i \in 1..(k + 1)}
  <2>1. ValuesOf(work, n) = {card[t].props[i] : i \in 1..k}
    BY <1>3 DEF Writing, k
  <2>2. {l \in work'.links : l.card = n'} = S \cup {new}
    BY <1>2, <1>8, <1>9 DEF S
  <2>3. ValuesOf(work, n) = {work.props[l.prop] : l \in S}
    BY DEF ValuesOf, LinksOf, S
  <2>4. \A l \in S : e.props[l.prop] = work.props[l.prop]
    BY <1>8, <1>11 DEF S
  <2>5. ValuesOf(work, n)' = {e.props[l.prop] : l \in S \cup {new}}
    BY <1>2, <2>2 DEF ValuesOf, LinksOf
  <2>6. ValuesOf(work, n)' = ValuesOf(work, n) \cup {value}
    BY <1>8, <2>3, <2>4, <2>5
  <2>7. 1..(k + 1) = (1..k) \cup {k + 1}
    BY <1>4
  <2> QED BY <2>1, <2>6, <2>7 DEF value
<1>14. Writing(t)'
  <2> HIDE DEF Filled, ValuesOf
  <2>1. /\ card' = card /\ task' = task /\ db' = db /\ work'.cards = work.cards
        /\ clerkPc'[t] = "fill"
    BY <1>2, <1>8
  <2>2. ASSUME NEW l \in Link, l.card # n
        PROVE  /\ l \in work'.links <=> l \in db'.links
               /\ l \in db'.links => work'.props[l.prop] = db'.props[l.prop]
    <3>1. /\ l \in work.links <=> l \in db.links
          /\ l \in db.links => work.props[l.prop] = db.props[l.prop]
      BY <1>3, <2>2 DEF Writing
    <3>2. l # new
      BY <1>9, <2>2
    <3> QED BY <1>2, <1>8, <1>11, <3>1, <3>2
  <2>3. ASSUME NEW p \in DOMAIN work'.props
        PROVE  \/ p \in DOMAIN db'.props /\ work'.props[p] = db'.props[p]
               \/ work'.props[p].writer = a
    <3>1. CASE p = NextProp(work)
      BY <1>2, <1>6, <1>8, <1>9, <3>1
    <3>2. CASE p \in DOMAIN work.props
      <4>1. \/ p \in DOMAIN db.props /\ work.props[p] = db.props[p]
            \/ work.props[p].writer = a
        BY <1>3, <3>2 DEF Writing
      <4> QED BY <1>2, <1>8, <3>2, <4>1
    <3> QED BY <1>2, <1>8, <3>1, <3>2
  <2>4. k + 1 <= Len(card[t].props)
    BY <1>2, <1>4, <1>5
  <2>5. ValuesOf(work', card'[t].id) = {card'[t].props[i] : i \in 1..Filled(t)'}
    BY <1>12, <1>13, <2>1
  <2> QED BY <1>3, <1>12, <2>1, <2>2, <2>3, <2>4, <2>5 DEF Writing
<1>15. Others(t) /\ Typed' /\ ClerksOK'
  BY <1>2 DEF ContactsIInv, ClerksOK, ClerkOK, Typed, Others
<1>16. OneWrites'
  <2>1. holder' = t /\ t # NoClerk
    BY <1>2, <1>3, ContactsAssumption DEF NoClerk
  <2>2. Writing(holder)'
    BY <1>14, <2>1
  <2> QED BY <1>1, <1>2, <2>1, <2>2 DEF OneWrites, NoClerk
<1>17. Erasing' /\ DeletedUserGone' /\ NoneWritesForDoomed'
  BY <1>2, <1>15, SaveGoesOn, NothingMoreSame DEF InSave, users
<1>18. Sound(db)' /\ CardsWhole'
  BY <1>2 DEF ContactsIInv, Sound, CardsWhole, ValuesOf, LinksOf
<1>19. Sound(work)'
  BY <1>10, <1>2 DEF Sound
<1> QED BY <1>2, <1>15, <1>16, <1>17, <1>18, <1>19 DEF ContactsIInv
\* The clerk whose transaction is over, with something committed or nothing.
LEMMA TransactionIsOver ==
    ASSUME ContactsIInv, NEW t \in Clerk, clerkPc[t] \in {"fill", "committing"}, contactsUp,
           holder' = NoClerk, work' = EmptyDb, NEW status \in {200, 500}, AfterSave(t, status),
           UNCHANGED <<task, card, spent, shown, users, contactsUp>>,
           Sound(db'), NothingMore, CardsWhole'
    PROVE  ContactsIInv'
<1>1. Typed /\ ClerkOK(t) /\ OneWrites
  BY DEF ContactsIInv, ClerksOK, Typed
<1>2. /\ UNCHANGED <<accounts, erasing, overlapped, gone>> /\ UNCHANGED <<task, card, shown>>
      /\ UNCHANGED <<users, task>>
      /\ contactsUp' \in BOOLEAN /\ spent' = spent /\ clerkPc[t] \in InSave
  BY DEF users, InSave
<1>3. Typed' /\ Others(t) /\ ClerkOK(t)' /\ clerkPc'[t] \in {"done", "read"}
  BY <1>1, <1>2, SaveIsOver DEF Typed
<1>4. ClerksOK'
  BY <1>3, OthersOK
<1>5. holder = t
  BY <1>1 DEF OneWrites
<1>6. OneWrites'
  <2>1. \A q \in Clerk : clerkPc'[q] \notin {"fill", "committing"}
    BY <1>1, <1>3, <1>5 DEF OneWrites, Others
  <2>2. work' = EmptyDb'
    BY DEF EmptyDb
  <2> QED BY <2>1, <2>2, ContactsAssumption DEF OneWrites, NoClerk
<1>7. Erasing' /\ DeletedUserGone' /\ NoneWritesForDoomed'
  BY <1>2, <1>3, SaveGoesOn
<1>8. Sound(db)'
  BY <1>2 DEF Sound
<1>9. Sound(work)'
  BY <1>2, EmptySound DEF Sound
<1> QED BY <1>2, <1>4, <1>6, <1>7, <1>8, <1>9 DEF ContactsIInv

\* A failed save leaves what was committed.
LEMMA SaveFailsKeeps ==
    ASSUME ContactsIInv, NEW t \in Clerk, SaveFails(t)
    PROVE  ContactsIInv'
<1>1. /\ clerkPc[t] \in {"fill", "committing"} /\ contactsUp
      /\ holder' = NoClerk /\ work' = EmptyDb /\ db' = db /\ AfterSave(t, 500) /\ saved' = saved
      /\ UNCHANGED <<task, card, spent, shown, users, contactsUp>>
  BY DEF SaveFails, FailedSave, RollBack
<1>2. Sound(db') /\ CardsWhole'
  BY <1>1 DEF ContactsIInv, CardsWhole, ValuesOf, LinksOf
<1> QED BY <1>1, <1>2, NothingMoreSame, TransactionIsOver

\* A commit puts the whole card in the place of the old one, and nothing of anybody else.
LEMMA EndCommitKeeps ==
    ASSUME ContactsIInv, NEW t \in Clerk, EndCommit(t)
    PROVE  ContactsIInv'
<1> DEFINE n == card[t].id
           a == task[t].about
           values == card[t].props
<1>1. /\ Typed /\ ClerkOK(t) /\ OneWrites /\ Sound(db) /\ Sound(work) /\ CardsWhole
      /\ NoneWritesForDoomed
  BY DEF ContactsIInv, ClerksOK, Typed
<1>2. /\ clerkPc[t] = "committing" /\ contactsUp
      /\ db' = work /\ holder' = NoClerk /\ work' = EmptyDb /\ AfterSave(t, 200)
      /\ saved' = [m \in DOMAIN saved \cup {n} |->
                     IF m = n THEN {values[i] : i \in DOMAIN values} ELSE saved[m]]
      /\ UNCHANGED <<task, card, spent, shown, users, contactsUp>>
  BY DEF EndCommit, AtDesk
<1>3. Writing(t)
  BY <1>1, <1>2, ContactsAssumption DEF OneWrites, NoClerk
<1>4. /\ n \in DOMAIN work.cards /\ work.cards[n].owner = a
      /\ \A m \in CardNo \ {n} :
            /\ m \in DOMAIN work.cards <=> m \in DOMAIN db.cards
            /\ m \in DOMAIN db.cards => work.cards[m] = db.cards[m]
      /\ \A l \in Link : l.card # n => /\ l \in work.links <=> l \in db.links
                                       /\ l \in db.links => work.props[l.prop] = db.props[l.prop]
      /\ \A p \in DOMAIN work.props :
            \/ p \in DOMAIN db.props /\ work.props[p] = db.props[p]
            \/ work.props[p].writer = a
      /\ ValuesOf(work, n) = {values[i] : i \in 1..Len(values)}
  BY <1>2, <1>3, Zenon DEF Writing
<1>5. work.links \subseteq Link /\ db.links \subseteq Link /\ DOMAIN work.cards \subseteq CardNo
  BY <1>1, ContactsAssumption DEF Sound, OkDatabase, CardNo
<1>6. DOMAIN values = 1..Len(values)
  BY <1>1 DEF Typed, VC
<1> HIDE DEF n, a, values
<1>7. NothingMore
  <2>1. ASSUME NEW u \in Doomed \ overlapped
        PROVE  u # a
    BY <1>1, <1>2 DEF NoneWritesForDoomed, InSave, a
  <2>2. ASSUME NEW u \in Doomed \ overlapped,
               NEW m \in DOMAIN work.cards, work.cards[m].owner = u
        PROVE  m # n /\ m \in DOMAIN db.cards /\ db.cards[m].owner = u
    BY <1>4, <1>5, <2>1, <2>2
  <2>3. ASSUME NEW u \in Doomed \ overlapped, NEW l \in work.links,
               l.card \in DOMAIN work.cards, work.cards[l.card].owner = u
        PROVE  l \in db.links
    BY <1>4, <1>5, <2>2, <2>3
  <2>4. ASSUME NEW u \in Doomed \ overlapped, NEW p \in DOMAIN work.props,
               work.props[p].writer = u
        PROVE  p \in DOMAIN db.props /\ db.props[p].writer = u
    BY <1>4, <2>1, <2>4
  <2> QED BY <1>2, <2>2, <2>3, <2>4 DEF NothingMore
<1>8. CardsWhole'
  <2>1. DOMAIN saved' = DOMAIN saved \cup {n} /\ DOMAIN saved' \subseteq CardNo
    BY <1>1, <1>2, <1>4, <1>5 DEF CardsWhole
  <2>2. ASSUME NEW m \in DOMAIN db'.cards \cap DOMAIN saved'
        PROVE  ValuesOf(db', m) = saved'[m]
    <3>1. CASE m = n
      BY <1>2, <1>4, <1>6, <3>1
    <3>2. CASE m # n
      <4>1. m \in DOMAIN db.cards \cap DOMAIN saved /\ saved'[m] = saved[m]
        BY <1>2, <1>4, <1>5, <2>1, <3>2
      <4>2. LinksOf(work, m) = LinksOf(db, m)
        BY <1>4, <1>5, <3>2 DEF LinksOf
      <4>3. \A l \in LinksOf(db, m) : work.props[l.prop] = db.props[l.prop]
        BY <1>4, <1>5, <3>2 DEF LinksOf
      <4>4. ValuesOf(work, m) = ValuesOf(db, m)
        BY <4>2, <4>3 DEF ValuesOf
      <4> QED BY <1>1, <1>2, <4>1, <4>4 DEF CardsWhole
    <3> QED BY <3>1, <3>2
  <2>3. \A m \in DOMAIN db'.cards \cap DOMAIN saved' : ValuesOf(db, m)' = saved'[m]
    BY <2>2 DEF ValuesOf, LinksOf
  <2> QED BY <2>1, <2>3 DEF CardsWhole
<1>9. Sound(db')
  BY <1>1, <1>2
<1> QED BY <1>2, <1>7, <1>8, <1>9, TransactionIsOver

\* The server ends, or nothing happens.
LEMMA EndsKeeps ==
    ASSUME ContactsIInv, contactsUp' \in BOOLEAN,
           UNCHANGED <<db, work, holder, task, clerkPc, card, spent, shown, result>>,
           UNCHANGED <<accounts, erasing, overlapped, gone, saved>>
    PROVE  ContactsIInv'
<1>1. ClerksOK'
  BY DEF ContactsIInv, ClerksOK, ClerkOK
<1>2. Sound(db)' /\ Sound(work)'
  BY DEF ContactsIInv, Sound
<1>3. OneWrites'
  <2>1. holder # NoClerk => Writing(holder)'
    <3>1. CASE holder # NoClerk
      BY <3>1, WritingKept DEF ContactsIInv, OneWrites, NoClerk
    <3> QED BY <3>1
  <2>2. holder' # NoClerk => Writing(holder)'
    BY <2>1
  <2>3. work' = EmptyDb <=> work = EmptyDb
    OBVIOUS
  <2> QED BY <2>2, <2>3 DEF ContactsIInv, OneWrites, NoClerk, EmptyDb
<1>4. CardsWhole' /\ NoneWritesForDoomed' /\ DeletedUserGone'
  BY DEF ContactsIInv, CardsWhole, ValuesOf, LinksOf, NoneWritesForDoomed, Doomed,
         DeletedUserGone, NothingOf
<1>5. Erasing'
  BY DEF ContactsIInv, Erasing, Erased, CardsOf
<1> QED BY <1>1, <1>2, <1>3, <1>4, <1>5 DEF ContactsIInv
-----------------------------------------------------------------------------
(* The deletion of a user.                                                 *)

\* A transaction does not notice what another clerk does.
LEMMA OneWritesKept ==
    ASSUME ContactsIInv, NEW t \in Clerk, Others(t), UNCHANGED <<db, work, holder>>,
           clerkPc[t] \notin {"fill", "committing"}, clerkPc'[t] \notin {"fill", "committing"}
    PROVE  OneWrites'
<1>1. holder' \in Clerk \cup {NoClerk} /\ (holder' = NoClerk => work' = EmptyDb)
  BY DEF ContactsIInv, OneWrites, NoClerk, EmptyDb
<1>2. ASSUME NEW q \in Clerk
      PROVE  clerkPc'[q] \in {"fill", "committing"} <=> holder' = q
  BY DEF ContactsIInv, OneWrites, Others
<1>3. ASSUME holder' # NoClerk PROVE Writing(holder)'
  <2>1. holder \in Clerk \ {t} /\ Writing(holder)
    BY <1>3 DEF ContactsIInv, OneWrites, NoClerk
  <2>2. PICK q \in Clerk \ {t} : q = holder /\ holder' = q /\ Writing(q)
    BY <2>1
  <2>3. task'[q] = task[q] /\ clerkPc'[q] = clerkPc[q] /\ card'[q] = card[q]
    BY <2>2 DEF Others
  <2>4. Writing(q)'
    BY <2>2, <2>3, WritingKept
  <2> QED BY <2>2, <2>4
<1> QED BY <1>1, <1>2, <1>3 DEF OneWrites, NoClerk

\* When a deletion starts, those who save for the user are noted.
LEMMA StartErasingKeeps ==
    ASSUME ContactsIInv, NEW t \in Clerk, NEW u \in Account, StartErasing(t, u)
    PROVE  ContactsIInv'
<1> DEFINE request == [op |-> "props", who |-> u, about |-> u, trust |-> 0]
<1>1. Typed /\ ClerkOK(t) /\ Erasing /\ NoneWritesForDoomed
  BY DEF ContactsIInv, ClerksOK, Typed
<1>2. /\ clerkPc[t] = "idle" /\ contactsUp /\ u \in accounts /\ erasing = Anonymous
      /\ task' = [task EXCEPT ![t] = request] /\ erasing' = u
      /\ overlapped' = overlapped \cup {v \in {u} : \E q \in Clerk : MayWriteFor(q, u)}
      /\ clerkPc' = [clerkPc EXCEPT ![t] = "erase"]
      /\ UNCHANGED <<db, work, holder>>
      /\ UNCHANGED <<card, spent, shown, result, accounts, gone, saved, contactsUp>>
  BY DEF StartErasing, AtDesk, GoesTo, store
<1>3. request \in Task
  BY DEF Task, Op, Asker
<1>4. request.op = "props" /\ request.who = u /\ request.about = u
  OBVIOUS
<1> HIDE DEF request
<1>5. Typed' /\ Others(t) /\ task'[t] = request /\ clerkPc'[t] = "erase"
  BY <1>1, <1>2, <1>3 DEF Typed, Others, Place
<1>6. ClerkOK(t)'
  BY <1>1, <1>2, <1>5 DEF ClerkOK, InSave
<1>7. ClerksOK'
  BY <1>5, <1>6, OthersOK
<1>8. OneWrites'
  BY <1>2, <1>5, OneWritesKept
<1>9. overlapped \subseteq overlapped' /\ overlapped' \subseteq Account
  BY <1>1, <1>2 DEF Erasing
<1>10. Sound(db)' /\ Sound(work)'
  BY <1>2, <1>9 DEF ContactsIInv, Sound
<1>11. CardsWhole'
  BY <1>2 DEF ContactsIInv, CardsWhole, ValuesOf, LinksOf
<1>12. NoneWritesForDoomed'
  <2>1. ASSUME NEW q \in Clerk, clerkPc'[q] \in InSave, task'[q].about \in Doomed'
        PROVE  task'[q].about \in overlapped'
    <3>1. q # t /\ clerkPc[q] \in InSave /\ task'[q] = task[q]
      BY <1>5, <2>1 DEF Others, InSave
    <3>2. CASE task[q].about = u
      BY <1>2, <3>1, <3>2 DEF MayWriteFor, InSave
    <3>3. CASE task[q].about # u
      BY <1>1, <1>2, <1>9, <2>1, <3>1, <3>3 DEF NoneWritesForDoomed, Doomed
    <3> QED BY <3>2, <3>3
  <2> QED BY <2>1 DEF NoneWritesForDoomed
<1>13. Erasing'
  <2>1. \A q \in Clerk : clerkPc[q] # "erase"
    BY <1>1, <1>2, ContactsAssumption DEF Erasing, Erased
  <2>2. \A q \in Clerk : clerkPc'[q] = "erase" => q = t
    BY <1>5, <2>1 DEF Others
  <2>3. Erased(t)'
    BY <1>2, <1>4, <1>5 DEF Erased
  <2> QED BY <1>1, <1>2, <1>9, <2>2, <2>3 DEF Erasing
<1>14. DeletedUserGone'
  BY <1>2, <1>9 DEF ContactsIInv, DeletedUserGone, NothingOf
<1> QED BY <1>2, <1>7, <1>8, <1>10, <1>11, <1>12, <1>13, <1>14 DEF ContactsIInv

\* A statement of the deletion that leaves the tables sound, takes from the cards of the
\* other users nothing, and does what its place among the five asks.
LEMMA ErasesKeeps ==
    ASSUME ContactsIInv, NEW t \in Clerk, clerkPc[t] = "erase", holder = NoClerk, contactsUp,
           NEW op \in {"profile", "cards", "prune", "shares", "over"},
           task' = [task EXCEPT ![t].op = op], Sound(db'), NothingMore,
           saved' = [n \in DOMAIN saved \ CardsOf(task[t].who) |-> saved[n]],
           \A n \in DOMAIN db'.cards \ CardsOf(task[t].who) :
              n \in DOMAIN db.cards /\ ValuesOf(db', n) = ValuesOf(db, n),
           UNCHANGED <<work, holder, clerkPc, card, spent, shown, result, users, contactsUp>>,
           Erased(t)'
    PROVE  ContactsIInv'
<1>1. Typed /\ ClerkOK(t) /\ Erasing /\ NoneWritesForDoomed /\ OneWrites
      /\ CardsWhole /\ DeletedUserGone
  BY DEF ContactsIInv, ClerksOK, Typed
<1>2. /\ UNCHANGED <<work, holder, clerkPc, card, spent, shown, result, contactsUp>>
      /\ UNCHANGED <<accounts, erasing, overlapped, gone>>
  BY DEF users
<1>3. task[t] \in Task /\ task[t] = [op |-> task[t].op, who |-> task[t].who,
                                     about |-> task[t].about, trust |-> task[t].trust]
  BY <1>1 DEF Typed, Task
<1> DEFINE request == [op |-> op, who |-> task[t].who, about |-> task[t].about,
                       trust |-> task[t].trust]
<1>4. request \in Task /\ task' = [task EXCEPT ![t] = request]
  <2>1. task' = [task EXCEPT ![t] = [task[t] EXCEPT !.op = op]]
    OBVIOUS
  <2>2. \A v : v = [op |-> v.op, who |-> v.who, about |-> v.about, trust |-> v.trust]
               => [v EXCEPT !.op = op]
                    = [op |-> op, who |-> v.who, about |-> v.about, trust |-> v.trust]
    OBVIOUS
  <2>3. [task[t] EXCEPT !.op = op] = request
    BY <1>3, <2>2
  <2>4. request \in Task
    BY <1>3 DEF Task, Op
  <2> QED BY <2>1, <2>3, <2>4
<1> HIDE DEF request
<1>5. Typed' /\ Others(t) /\ clerkPc'[t] = "erase"
  BY <1>1, <1>2, <1>4 DEF Typed, Others
<1>6. ClerkOK(t)'
  BY <1>1, <1>2, <1>5 DEF ClerkOK, InSave
<1>7. ClerksOK'
  BY <1>5, <1>6, OthersOK
<1>8. OneWrites'
  BY <1>1, <1>2 DEF OneWrites, EmptyDb, NoClerk
<1>9. Sound(db)' /\ Sound(work)'
  BY <1>2 DEF ContactsIInv, Sound
<1>10. CardsWhole'
  <2>1. \A n \in DOMAIN saved' : n \in DOMAIN saved /\ n \notin CardsOf(task[t].who)
                                  /\ saved'[n] = saved[n]
    OBVIOUS
  <2>2. \A n \in DOMAIN db'.cards \cap DOMAIN saved' : ValuesOf(db', n) = saved'[n]
    BY <1>1, <2>1 DEF CardsWhole
  <2>3. \A n \in DOMAIN db'.cards \cap DOMAIN saved' : ValuesOf(db, n)' = saved'[n]
    BY <2>2 DEF ValuesOf, LinksOf
  <2> QED BY <1>1, <2>1, <2>3 DEF CardsWhole
<1>11. NoneWritesForDoomed'
  <2>1. \A q \in Clerk : clerkPc'[q] \in InSave => q # t
    BY <1>5 DEF InSave
  <2> QED BY <1>1, <1>2, <1>5, <2>1 DEF NoneWritesForDoomed, Doomed, Others
<1>12. Erasing'
  <2>1. \A q \in Clerk : clerkPc'[q] = "erase" => q = t
    BY <1>1, <1>2 DEF Erasing
  <2> QED BY <1>1, <1>2, <2>1 DEF Erasing
<1>13. DeletedUserGone'
  BY <1>1, <1>2 DEF DeletedUserGone, NothingOf, NothingMore, Doomed
<1> QED BY <1>2, <1>7, <1>8, <1>9, <1>10, <1>11, <1>12, <1>13 DEF ContactsIInv
\* Each of the five statements finds what those before it left.
LEMMA EraseTableKeeps ==
    ASSUME ContactsIInv, NEW t \in Clerk, EraseTable(t)
    PROVE  ContactsIInv'
<1>1. Typed /\ ClerkOK(t) /\ Erasing /\ Sound(db) /\ contactsUp' \in BOOLEAN
  BY DEF ContactsIInv, ClerksOK, Typed, EraseTable, Ends, AtDesk
<1>2. clerkPc[t] = "erase" /\ contactsUp /\ task[t].op # "over"
  BY DEF EraseTable, AtDesk
<1>3. CASE holder # NoClerk
  BY <1>3, EndsKeeps DEF EraseTable, Ends, store, users
<1>4. CASE holder = NoClerk
  <2> DEFINE linked(profile) == {l \in db.links : l.card \in CardsOf(task[t].who)
                                                  /\ (l.vis # Unshown) = profile}
  <2>1. /\ db' = CASE task[t].op = "props" -> Without(db, linked(FALSE))
                   [] task[t].op = "profile" -> Without(db, linked(TRUE))
                   [] task[t].op = "cards" ->
                        [db EXCEPT !.cards = [n \in DOMAIN @ \ CardsOf(task[t].who) |-> @[n]]]
                   [] task[t].op = "prune" -> Pruned(db)
                   [] task[t].op = "shares" -> db
        /\ task' = [task EXCEPT ![t].op = NextTable(@)]
        /\ saved' = [n \in DOMAIN saved \ CardsOf(task[t].who) |-> saved[n]]
        /\ UNCHANGED <<work, holder, clerkPc, card, spent, shown, result, users, contactsUp>>
    BY <1>4 DEF EraseTable
  <2>2. PICK u \in Account : u = task[t].who /\ u = erasing
    BY <1>1, <1>2 DEF Erasing, Erased
  <2>3. PICK op : op = NextTable(task[t].op)
    OBVIOUS
  <2>4. Erased(t) /\ task[t].op \in {"props", "profile", "cards", "prune", "shares"}
    BY <1>1, <1>2 DEF Erasing, Erased
  <2>5. /\ op \in {"profile", "cards", "prune", "shares", "over"}
        /\ task[t].op = "props" => op = "profile"
        /\ task[t].op = "profile" => op = "cards"
        /\ task[t].op = "cards" => op = "prune"
        /\ task[t].op = "prune" => op = "shares"
        /\ task[t].op = "shares" => op = "over"
    BY <2>3, <2>4 DEF NextTable
  <2>6. /\ task' = [task EXCEPT ![t].op = op]
        /\ UNCHANGED <<accounts, erasing, overlapped, gone>>
    BY <2>1, <2>3 DEF users
  <2> HIDE DEF NextTable
  <2>7. task'[t].op = op /\ task'[t].who = u
    <3>1. task[t] \in Task
      BY <1>1 DEF Typed
    <3>2. task' = [task EXCEPT ![t] = [task[t] EXCEPT !.op = op]]
      BY <2>6
    <3>3. task'[t] = [task[t] EXCEPT !.op = op]
      BY <1>1, <3>2 DEF Typed
    <3>4. \A v \in Task : [v EXCEPT !.op = op].op = op /\ [v EXCEPT !.op = op].who = v.who
      BY DEF Task
    <3> QED BY <2>2, <3>1, <3>3, <3>4
  \* What each statement gives, of the tables and of the user.
  <2>8. /\ Sound(db')
        /\ \A n \in DOMAIN db'.cards : n \in DOMAIN db.cards /\ db'.cards[n] = db.cards[n]
        /\ db'.links \subseteq db.links
        /\ \A p \in DOMAIN db'.props : p \in DOMAIN db.props /\ db'.props[p] = db.props[p]
        /\ \A l \in db'.links : db'.props[l.prop] = db.props[l.prop]
        /\ \A l \in db.links \ db'.links : l.card \in CardsOf(u)
        /\ u \notin overlapped =>
              /\ op = "profile" =>
                    \A l \in db'.links : l.card \in CardsOf(u) => l.vis # Unshown
              /\ op = "cards" => \A l \in db'.links : l.card \notin CardsOf(u)
              /\ op \in {"prune", "shares", "over"} =>
                    \A n \in DOMAIN db'.cards : n \notin CardsOf(u)
              /\ op \in {"shares", "over"} => \A p \in DOMAIN db'.props : db'.props[p].writer # u
    <3>1. CASE task[t].op = "props"
      <4>1. db' = Without(db, linked(FALSE)) /\ op = "profile"
        BY <2>1, <2>5, <3>1
      <4>2. /\ Sound(db') /\ db'.cards = db.cards /\ db'.props = db.props
            /\ db'.links = db.links \ linked(FALSE)
        BY <1>1, <4>1, WithoutSound
      <4> QED BY <2>2, <4>1, <4>2
    <3>2. CASE task[t].op = "profile"
      <4>1. db' = Without(db, linked(TRUE)) /\ op = "cards"
        BY <2>1, <2>5, <3>2
      <4>2. /\ Sound(db') /\ db'.cards = db.cards /\ db'.props = db.props
            /\ db'.links = db.links \ linked(TRUE)
        BY <1>1, <4>1, WithoutSound
      <4>3. u \notin overlapped => \A l \in db.links : l.card \in CardsOf(u) => l.vis # Unshown
        BY <2>2, <2>4, <3>2 DEF Erased
      <4> QED BY <2>2, <4>1, <4>2, <4>3
    <3>3. CASE task[t].op = "cards"
      <4> DEFINE c == [n \in DOMAIN db.cards \ CardsOf(u) |-> db.cards[n]]
      <4>1. op = "prune" /\ db' = [db EXCEPT !.cards = c]
        BY <2>1, <2>2, <2>5, <3>3
      <4>2. db = [cards |-> db.cards, last |-> db.last, props |-> db.props, links |-> db.links]
        BY <1>1 DEF Sound
      <4>3. /\ DOMAIN c = DOMAIN db.cards \ CardsOf(u)
            /\ \A n \in DOMAIN c : c[n] = db.cards[n]
        OBVIOUS
      <4> HIDE DEF c
      <4>4. /\ db'.cards = c /\ db'.last = db.last /\ db'.props = db.props /\ db'.links = db.links
            /\ db' = [cards |-> c, last |-> db.last, props |-> db.props, links |-> db.links]
        BY <4>1, <4>2
      <4>5. ASSUME NEW l \in db.links
            PROVE  IF l.card \in DOMAIN c THEN db.props[l.prop].writer = c[l.card].owner
                   ELSE db.props[l.prop].writer \in overlapped
        <5>1. CASE l.card \in CardsOf(u)
          <6>1. u \in overlapped
            BY <2>2, <2>4, <3>3, <5>1 DEF Erased
          <6>2. db.props[l.prop].writer = u
            BY <1>1, <5>1 DEF Sound, CardsOf
          <6> QED BY <4>3, <5>1, <6>1, <6>2
        <5>2. CASE l.card \notin CardsOf(u)
          BY <1>1, <4>3, <5>2 DEF Sound
        <5> QED BY <5>1, <5>2
      <4>6. OkDatabase(db')
        BY <1>1, <4>3, <4>4 DEF Sound, OkDatabase
      <4>7. Sound(db')
        <5>1. \A l \in db.links : l.card \in 1..db.last /\ l.prop \in DOMAIN db.props
                                  /\ db.props[l.prop].vis = l.vis
          BY <1>1 DEF Sound
        <5>2. IsFiniteSet(db.links)
          BY <1>1 DEF Sound
        <5> QED BY <4>4, <4>5, <4>6, <5>1, <5>2 DEF Sound
      <4> QED BY <4>1, <4>3, <4>4, <4>7
    <3>4. CASE task[t].op = "prune"
      <4>1. db' = Pruned(db) /\ op = "shares"
        BY <2>1, <2>5, <3>4
      <4>2. /\ Sound(db') /\ db'.cards = db.cards /\ db'.links = db.links
            /\ \A p \in DOMAIN db'.props :
                  /\ p \in DOMAIN db.props /\ db'.props[p] = db.props[p]
                  /\ \E l \in db.links : l.prop = p
            /\ \A l \in db.links : db'.props[l.prop] = db.props[l.prop]
        BY <1>1, <4>1, PrunedSound
      <4>3. u \notin overlapped => CardsOf(u) = {}
        BY <2>2, <2>4, <3>4 DEF Erased
      <4>4. u \notin overlapped => \A l \in db.links : db.props[l.prop].writer # u
        BY <1>1, <4>3 DEF Sound, CardsOf
      <4> QED BY <4>1, <4>2, <4>3, <4>4
    <3>5. CASE task[t].op = "shares"
      <4>1. db' = db /\ op = "over"
        BY <2>1, <2>5, <3>5
      <4>2. u \notin overlapped => /\ CardsOf(u) = {}
                                   /\ \A p \in DOMAIN db.props : db.props[p].writer # u
        BY <2>2, <2>4, <3>5 DEF Erased
      <4> QED BY <1>1, <4>1, <4>2
    <3> QED BY <2>4, <3>1, <3>2, <3>3, <3>4, <3>5
  <2>9. NothingMore
    BY <2>8 DEF NothingMore
  <2>10. Erased(t)'
    <3>1. CardsOf(u)' = {n \in DOMAIN db'.cards : n \in CardsOf(u)}
      BY <2>8 DEF CardsOf
    <3>2. CardsOf(task[t].who)' = CardsOf(u)'
      BY <2>7
    <3> HIDE DEF CardsOf
    <3> QED BY <2>2, <2>5, <2>6, <2>7, <2>8, <3>1, <3>2 DEF Erased
  <2>11. ASSUME NEW n \in DOMAIN db'.cards \ CardsOf(task[t].who)
         PROVE  n \in DOMAIN db.cards /\ ValuesOf(db', n) = ValuesOf(db, n)
    <3>1. LinksOf(db', n) = LinksOf(db, n)
      BY <2>2, <2>8, <2>11 DEF LinksOf
    <3>2. \A l \in LinksOf(db', n) : db'.props[l.prop] = db.props[l.prop]
      BY <2>8 DEF LinksOf
    <3> QED BY <2>8, <3>1, <3>2 DEF ValuesOf
  <2>12. Sound(db')
    BY <2>8
  <2> QED BY <1>2, <1>4, <2>1, <2>5, <2>6, <2>9, <2>10, <2>11, <2>12, ErasesKeeps
<1> QED BY <1>3, <1>4

\* When all five are done nothing of the user is left.
LEMMA EndErasingKeeps ==
    ASSUME ContactsIInv, NEW t \in Clerk, EndErasing(t)
    PROVE  ContactsIInv'
<1>1. Typed /\ ClerkOK(t) /\ Erasing /\ NoneWritesForDoomed /\ DeletedUserGone
  BY DEF ContactsIInv, ClerksOK, Typed
<1>2. /\ clerkPc[t] = "erase" /\ contactsUp /\ task[t].op = "over"
      /\ accounts' = accounts \ {erasing} /\ gone' = gone \cup {erasing} /\ erasing' = Anonymous
      /\ task' = [task EXCEPT ![t] = NoTask] /\ clerkPc' = [clerkPc EXCEPT ![t] = "idle"]
      /\ UNCHANGED <<db, work, holder>>
      /\ UNCHANGED <<card, spent, shown, result, overlapped, saved, contactsUp>>
  BY DEF EndErasing, AtDesk, GoesTo, store
<1>3. NoTask \in Task
  BY DEF NoTask, Task, Op, Asker
<1> HIDE DEF NoTask
<1>4. Typed' /\ Others(t) /\ clerkPc'[t] = "idle"
  BY <1>1, <1>2, <1>3 DEF Typed, Others, Place
<1>5. ClerkOK(t)'
  BY <1>1, <1>2, <1>4 DEF ClerkOK, InSave
<1>6. ClerksOK'
  BY <1>4, <1>5, OthersOK
<1>7. OneWrites'
  BY <1>2, <1>4, OneWritesKept
<1>8. Sound(db)' /\ Sound(work)' /\ CardsWhole'
  BY <1>2 DEF ContactsIInv, Sound, CardsWhole, ValuesOf, LinksOf
<1>9. Erased(t)
  BY <1>1, <1>2 DEF Erasing
<1>10. NoneWritesForDoomed'
  <2>1. ASSUME NEW q \in Clerk, clerkPc'[q] \in InSave, task'[q].about \in Doomed'
        PROVE  task'[q].about \in overlapped'
    <3>1. q # t /\ clerkPc[q] \in InSave /\ task'[q] = task[q]
      BY <1>4, <2>1 DEF Others, InSave
    <3>2. task[q].about \in Account
      BY <3>1 DEF ContactsIInv, ClerksOK, ClerkOK
    <3> QED BY <1>1, <1>2, <2>1, <3>1, <3>2, ContactsAssumption
            DEF NoneWritesForDoomed, Doomed
  <2> QED BY <2>1 DEF NoneWritesForDoomed
<1>11. Erasing'
  <2>1. \A q \in Clerk : clerkPc'[q] # "erase"
    BY <1>1, <1>2, <1>4 DEF Erasing, Others
  <2> QED BY <1>1, <1>2, <1>9, <2>1 DEF Erasing, Erased
<1>12. DeletedUserGone'
  <2>1. erasing \notin overlapped => /\ \A n \in DOMAIN db.cards : db.cards[n].owner # erasing
                                     /\ \A p \in DOMAIN db.props : db.props[p].writer # erasing
    BY <1>2, <1>9 DEF Erased, CardsOf
  <2> QED BY <1>1, <1>2, <2>1 DEF DeletedUserGone, NothingOf
<1> QED BY <1>2, <1>6, <1>7, <1>8, <1>10, <1>11, <1>12 DEF ContactsIInv

\* A restart takes back what was not committed.
LEMMA ContactsRestartKeeps ==
    ASSUME ContactsIInv, ContactsRestart
    PROVE  ContactsIInv'
<1>1. /\ work' = EmptyDb /\ holder' = NoClerk /\ erasing' = Anonymous /\ contactsUp' = TRUE
      /\ task' = [t \in Clerk |-> NoTask] /\ clerkPc' = [t \in Clerk |-> "idle"]
      /\ card' = [t \in Clerk |-> NoCard] /\ spent' = [t \in Clerk |-> {}]
      /\ shown' = [t \in Clerk |-> {}] /\ result' = [t \in Clerk |-> NoResult]
      /\ UNCHANGED <<db, accounts, overlapped, gone, saved>>
  BY DEF ContactsRestart
<1>2. NoTask \in Task /\ NoCard \in VC /\ NoResult \in Result
  BY ContactsAssumption DEF NoTask, NoCard, NoResult, Task, VC, Result, Op, Asker
<1>3. ClerksOK'
  <2> HIDE DEF NoTask, NoCard
  <2>1. Typed'
    BY <1>1, <1>2 DEF Typed, Place
  <2>2. NoResult' = NoResult
    BY DEF NoResult
  <2>3. \A t \in Clerk : ClerkOK(t)'
    BY <1>1, <2>2 DEF ClerkOK, InSave
  <2> QED BY <2>1, <2>3 DEF ClerksOK, Typed
<1>4. Sound(db)'
  BY <1>1 DEF ContactsIInv, Sound
<1>5. Sound(work)'
  BY <1>1, EmptySound DEF Sound
<1>6. OneWrites'
  BY <1>1, ContactsAssumption DEF OneWrites, NoClerk, EmptyDb
<1>7. CardsWhole' /\ DeletedUserGone'
  BY <1>1 DEF ContactsIInv, CardsWhole, ValuesOf, LinksOf, DeletedUserGone, NothingOf
<1>8. NoneWritesForDoomed' /\ Erasing'
  BY <1>1 DEF ContactsIInv, NoneWritesForDoomed, Erasing, InSave
<1> QED BY <1>1, <1>3, <1>4, <1>5, <1>6, <1>7, <1>8 DEF ContactsIInv

-----------------------------------------------------------------------------

\* The tables are empty at first.
LEMMA ContactsInitIInv == ContactsInit => ContactsIInv
<1> SUFFICES ASSUME ContactsInit PROVE ContactsIInv
  OBVIOUS
<1>1. /\ db = EmptyDb /\ work = EmptyDb /\ holder = NoClerk /\ contactsUp = TRUE
      /\ task = [t \in Clerk |-> NoTask] /\ clerkPc = [t \in Clerk |-> "idle"]
      /\ card = [t \in Clerk |-> NoCard] /\ spent = [t \in Clerk |-> {}]
      /\ shown = [t \in Clerk |-> {}] /\ result = [t \in Clerk |-> NoResult]
      /\ accounts = Account /\ erasing = Anonymous /\ overlapped = {} /\ gone = {}
      /\ saved = <<>>
  BY DEF ContactsInit
<1>2. NoTask \in Task /\ NoCard \in VC /\ NoResult \in Result
  BY ContactsAssumption DEF NoTask, NoCard, NoResult, Task, VC, Result, Op, Asker
<1>3. ClerksOK
  <2> HIDE DEF NoTask, NoCard
  <2>1. Typed
    BY <1>1, <1>2 DEF Typed, Place
  <2>2. \A t \in Clerk : ClerkOK(t)
    BY <1>1 DEF ClerkOK, InSave
  <2> QED BY <2>1, <2>2 DEF ClerksOK, Typed
<1>4. Sound(db) /\ Sound(work)
  BY <1>1, EmptySound
<1>5. OneWrites
  BY <1>1, ContactsAssumption DEF OneWrites, NoClerk
<1>6. CardsWhole
  BY <1>1 DEF CardsWhole, EmptyDb
<1>7. DeletedUserGone
  BY <1>1 DEF DeletedUserGone, NothingOf
<1>8. NoneWritesForDoomed /\ Erasing
  BY <1>1 DEF NoneWritesForDoomed, Erasing, InSave
<1> QED BY <1>1, <1>3, <1>4, <1>5, <1>6, <1>7, <1>8 DEF ContactsIInv

\* Every step keeps the invariant.
LEMMA ContactsStepIInv == ContactsIInv /\ [ContactsNext]_contactsVars => ContactsIInv'
<1> SUFFICES ASSUME ContactsIInv, [ContactsNext]_contactsVars PROVE ContactsIInv'
  OBVIOUS
<1>1. CASE UNCHANGED contactsVars
  BY <1>1, EndsKeeps DEF contactsVars, ContactsIInv
<1>2. CASE ContactsRestart
  BY <1>2, ContactsRestartKeeps
<1>3. ASSUME NEW t \in Clerk, NEW u \in Account, StartErasing(t, u) PROVE ContactsIInv'
  BY <1>3, StartErasingKeeps
<1>4. ASSUME NEW t \in Clerk, ReadThrows(t) PROVE ContactsIInv'
  BY <1>4, EndsKeeps DEF ReadThrows, Ends, store, users
<1>5. ASSUME NEW t \in Clerk,
             \/ AskProfile(t) \/ AskAbroad(t) \/ PeerReplies(t) \/ AskOwn(t) \/ AskSave(t)
             \/ AskOther(t) \/ ClerkIsFree(t)
      PROVE  ContactsIInv'
  BY <1>5, AskProfileKeeps, AskAbroadKeeps, PeerRepliesKeeps, AskOwnKeeps, AskSaveKeeps,
     AskOtherKeeps, ClerkIsFreeKeeps
<1>6. ASSUME NEW t \in Clerk,
             \/ SaveThrows(t) \/ CreateCard(t) \/ UpdateCard(t) \/ FillCard(t) \/ SaveFails(t)
             \/ BeginCommit(t) \/ EndCommit(t)
      PROVE  ContactsIInv'
  BY <1>6, SaveThrowsKeeps, CreateCardKeeps, UpdateCardKeeps, FillCardKeeps, SaveFailsKeeps,
     BeginCommitKeeps, EndCommitKeeps
<1>7. ASSUME NEW t \in Clerk,
             \/ ProfileBase(t) \/ ReadProfile(t) \/ ReadPicture(t) \/ ReadAll(t) \/ ReadCard(t)
             \/ EraseTable(t) \/ EndErasing(t)
      PROVE  ContactsIInv'
  BY <1>7, ProfileBaseKeeps, ReadProfileKeeps, ReadPictureKeeps, ReadAllKeeps, ReadCardKeeps,
     EraseTableKeeps, EndErasingKeeps
<1> QED BY <1>1, <1>2, <1>3, <1>4, <1>5, <1>6, <1>7 DEF ContactsNext

\* So it holds of every state of the mod.
LEMMA ContactsInvariant == ContactsSpec => []ContactsIInv
BY ContactsInitIInv, ContactsStepIInv, PTL DEF ContactsSpec

\* Whoever asks, and whatever ids were used again, is shown what he wrote himself or what
\* the user he asks about shares with those like him.
THEOREM ContactsShown == ContactsSpec => []ShownToWhomMeant
<1>1. ContactsIInv => ShownToWhomMeant
  BY DEF ContactsIInv, ClerksOK, ClerkOK, ShownToWhomMeant
<1> QED BY <1>1, ContactsInvariant, PTL

\* A card has what the last committed save of it had and nothing of a failed one.
THEOREM ContactsWhole == ContactsSpec => []CardIsWhole
<1>1. ASSUME ContactsIInv PROVE ContactsTypeOK
  <2>1. OkDatabase(db) /\ OkDatabase(work)
    BY <1>1 DEF ContactsIInv, Sound
  <2>2. ASSUME NEW t \in Clerk
        PROVE  /\ task[t].who \in Asker /\ task[t].trust \in 0..3
               /\ card[t].id \in -1..MaxCards
               /\ spent[t] \subseteq {"create", "update"}
               /\ shown[t] \subseteq Value
               /\ result[t].answers \in 0..2
               /\ result[t].status \in {0, 200, 303, 307, 400, 401, 404, 500}
    BY <1>1 DEF ContactsIInv, ClerksOK, Task, VC, Result
  <2> QED BY <1>1, <2>1, <2>2 DEF ContactsIInv, ClerksOK, OneWrites, CardsWhole, Erasing,
          Place, ContactsTypeOK
<1>2. ASSUME ContactsIInv PROVE CardIsWhole
  <2>1. ASSUME NEW n \in DOMAIN db.cards, n \in DOMAIN saved
        PROVE  Values(db, {l \in db.links : l.card = n}) = saved[n]
    <3>1. ValuesOf(db, n) = saved[n]
      BY <1>2, <2>1 DEF ContactsIInv, CardsWhole
    <3>2. {k \in {l \in db.links : l.card = n} : k.prop \in DOMAIN db.props} = LinksOf(db, n)
      BY <1>2 DEF ContactsIInv, Sound, LinksOf
    <3>3. Values(db, {l \in db.links : l.card = n}) = ValuesOf(db, n)
      BY <3>2 DEF Values, ValuesOf
    <3> QED BY <3>1, <3>3
  <2> QED BY <1>1, <1>2, <2>1 DEF CardIsWhole
<1> QED BY <1>2, ContactsInvariant, PTL

\* Of a deleted user nothing stays, unless a save for him was under way.
THEOREM ContactsDeleted == ContactsSpec => []DeletedUserGone
<1>1. ContactsIInv => DeletedUserGone
  BY DEF ContactsIInv
<1> QED BY <1>1, ContactsInvariant, PTL
=============================================================================
