------------------------------ MODULE Contacts ------------------------------
(***************************************************************************)
(* The contacts mod (mods/contacts/src): cards a local user keeps of       *)
(* people, the user's own one being a profile that others see, property by *)
(* property.  Every thread has its own connection to the SQLite database:  *)
(* one transaction writes at a time, nothing waits for a lock, and a       *)
(* statement that throws is not reset.                                     *)
(*                                                                         *)
(* The value of a property is named by who wrote it and for whom: the      *)
(* visibility it was saved with, or Unshown in a card that is no profile.  *)
(***************************************************************************)
EXTENDS Integers, Sequences, FiniteSets, FiniteSetsExt

CONSTANTS
    Clerk,          \* threads of the mod
    Account,        \* local users
    Abroad,         \* users of other instances
    Anonymous, AnonymousPeer,   \* requests without a user, from here and from a peer
    MaxCards, MaxProps          \* bounds of the ids

ASSUME ContactsAssumption ==
    /\ Anonymous \notin Account \cup Abroad \cup Clerk
    /\ AnonymousPeer \notin Account \cup Abroad
    /\ MaxCards \in Nat /\ MaxProps \in Nat

VARIABLES
    db,         \* what is committed
    work,       \* what the writing transaction sees
    holder,     \* the clerk it is of
    task,       \* clerk -> the request it handles
    clerkPc,
    card,       \* clerk -> the VC object
    spent,      \* clerk -> statements that threw
    shown,      \* clerk -> values in the answer
    result,     \* clerk -> how often it has answered, and the last status
    accounts,   \* users the host knows
    erasing,    \* the user the host is deleting, with its users locked
    overlapped, \* users deleted while a request could still write for them
    gone,       \* users whose deletion is done
    saved,      \* card -> what the last save of it had
    contactsUp

contactsVars == <<db, work, holder, task, clerkPc, card, spent, shown, result,
                  accounts, erasing, overlapped, gone, saved, contactsUp>>
users == <<accounts, erasing, overlapped, gone>>
store == <<db, work, holder>>

Unshown == -1
NoClerk == Anonymous
Value == [writer : Account, vis : Unshown..3]
Asker == Account \cup Abroad \cup {Anonymous, AnonymousPeer}
NoCard == [id |-> -1, user |-> Anonymous, props |-> <<>>, new |-> FALSE]
NoTask == [op |-> "none", who |-> Anonymous, about |-> Anonymous, trust |-> 3]
NoResult == [answers |-> 0, status |-> 0]

CardNo == 1..MaxCards
PropNo == 1..MaxProps
Link == [card : CardNo, prop : PropNo, vis : Unshown..3]

Partial(S, T) == UNION {[D -> T] : D \in SUBSET S}
Database == [cards : Partial(CardNo, [owner : Account, user : Asker]),
             last : 0..MaxCards, props : Partial(PropNo, Value), links : SUBSET Link]
EmptyDb == [cards |-> <<>>, last |-> 0, props |-> <<>>, links |-> {}]

OkDatabase(d) ==
    /\ DOMAIN d.cards \subseteq 1..d.last /\ d.last \in 0..MaxCards
    /\ \A n \in DOMAIN d.cards : d.cards[n] \in [owner : Account, user : Asker]
    /\ DOMAIN d.props \subseteq PropNo
    /\ \A p \in DOMAIN d.props : d.props[p] \in Value
    /\ d.links \subseteq Link

ContactsTypeOK ==
    /\ OkDatabase(db) /\ OkDatabase(work)
    /\ holder \in Clerk \cup {NoClerk}
    /\ clerkPc \in [Clerk -> {"idle", "base", "write", "fill", "committing",
                              "read", "peer", "erase", "done"}]
    /\ \A t \in Clerk : /\ task[t].who \in Asker /\ task[t].trust \in 0..3
                        /\ card[t].id \in -1..MaxCards
                        /\ spent[t] \subseteq {"create", "update"}
                        /\ shown[t] \subseteq Value
                        /\ result[t].answers \in 0..2
                        /\ result[t].status \in {0, 200, 303, 307, 400, 401, 404, 500}
    /\ accounts \subseteq Account /\ overlapped \subseteq Account /\ gone \subseteq Account
    /\ erasing \in Account \cup {Anonymous}
    /\ DOMAIN saved \subseteq CardNo
    /\ contactsUp \in BOOLEAN

ContactsInit ==
    /\ db = EmptyDb /\ work = EmptyDb /\ holder = NoClerk
    /\ task = [t \in Clerk |-> NoTask]
    /\ clerkPc = [t \in Clerk |-> "idle"]
    /\ card = [t \in Clerk |-> NoCard]
    /\ spent = [t \in Clerk |-> {}]
    /\ shown = [t \in Clerk |-> {}]
    /\ result = [t \in Clerk |-> NoResult]
    /\ accounts = Account /\ erasing = Anonymous /\ overlapped = {} /\ gone = {}
    /\ saved = <<>>
    /\ contactsUp = TRUE

-----------------------------------------------------------------------------
(* The tables.                                                             *)

ProfilesOf(d, u) == {n \in DOMAIN d.cards : d.cards[n] = [owner |-> u, user |-> u]}

\* A scalar subquery takes the first row.
ProfileLinks(d, u, trust) ==
    {l \in d.links : /\ ProfilesOf(d, u) # {} /\ l.card = Min(ProfilesOf(d, u))
                     /\ l.vis # Unshown /\ l.vis >= trust}

\* Links of the cards an owner keeps of a user.
OwnLinks(d, owner, u) ==
    {l \in d.links : /\ l.card \in DOMAIN d.cards /\ l.vis = Unshown
                     /\ d.cards[l.card] = [owner |-> owner, user |-> u]}

Values(d, links) == {d.props[l.prop] : l \in {k \in links : k.prop \in DOMAIN d.props}}

\* Mutant: what only the cards of contacts use is not in use.
InUse_Profiles(d) == {l.prop : l \in {k \in d.links : k.vis # Unshown}}

InUse(d) == {l.prop : l \in d.links}

\* prune_properties.
Pruned(d) == [d EXCEPT !.props = [p \in DOMAIN @ \cap InUse(d) |-> @[p]]]

Without(d, links) == [d EXCEPT !.links = @ \ links]

\* The id of a row without AUTOINCREMENT is one more than the largest.
NextProp(d) == Max({0} \cup DOMAIN d.props) + 1

WithProp(d, n, value) ==
    [d EXCEPT !.props = [p \in DOMAIN @ \cup {NextProp(d)} |->
                            IF p = NextProp(d) THEN value ELSE @[p]],
              !.links = @ \cup {[card |-> n, prop |-> NextProp(d), vis |-> value.vis]}]

WithCard(d, n, owner, user) ==
    [d EXCEPT !.cards = [m \in DOMAIN @ \cup {n} |->
                            IF m = n THEN [owner |-> owner, user |-> user] ELSE @[m]],
              !.last = IF n > @ THEN n ELSE @]

-----------------------------------------------------------------------------
(* Requests.                                                               *)

AtDesk(t, place) == contactsUp /\ clerkPc[t] = place
GoesTo(t, place) == clerkPc' = [clerkPc EXCEPT ![t] = place]

Replies(t, status) ==
    result' = [result EXCEPT ![t] = [answers |-> @.answers + 1, status |-> status]]

Ends(t) ==
    /\ contactsUp' = FALSE
    /\ UNCHANGED <<store, task, clerkPc, card, spent, shown, result, users, saved>>

\* DB::visibility.  /all asks with a domain, the empty one.
Trust(about, who) ==
    CASE who \notin Account \cup Abroad -> 3
      [] who \in Abroad -> 2
      [] who \in Account -> IF who = about THEN 0 ELSE 1

Takes(t, request, place) ==
    /\ AtDesk(t, "idle") /\ request.who # erasing
    /\ request.who \in Account => request.who \in accounts
    /\ task' = [task EXCEPT ![t] = request]
    /\ GoesTo(t, place)
    /\ UNCHANGED <<store, spent, shown, result, users, saved, contactsUp>>

\* GET /profile/ of a local user, and /pfp/.  "namesake" is /pfp/u@other, whom the
\* url names is abroad; it is first looked for, and its trust asked, under the bare u.
AskProfile(t) ==
    /\ \E who \in Asker, about \in Account, op \in {"profile", "pfp", "namesake"} :
          Takes(t, [op |-> op, who |-> who, about |-> about, trust |-> Trust(about, who)],
                IF op = "profile" THEN "base" ELSE "read")
    /\ UNCHANGED card

\* /profile/ of a user of another instance is asked for there.
AskAbroad(t) ==
    /\ \E who \in Asker, about \in Abroad :
          Takes(t, [op |-> "abroad", who |-> who, about |-> about, trust |-> 3], "peer")
    /\ UNCHANGED card

Forwarded(t, status) == Replies(t, status)

PeerReplies(t) ==
    /\ AtDesk(t, "peer")
    /\ \E status \in {200, 404, 500} : Forwarded(t, status)
    /\ GoesTo(t, "done")
    /\ UNCHANGED <<store, task, card, spent, shown, users, saved, contactsUp>>

\* /all and /id/ of a local user.
AskOwn(t) ==
    /\ \E who \in accounts, op \in {"all", "id"} :
          Takes(t, [op |-> op, who |-> who, about |-> who, trust |-> 2], "read")
    /\ UNCHANGED card

\* POST /save: the card is the user's or nobody's, its properties those of the
\* vCard.  The values are named after what becomes of them.
AskSave(t) ==
    /\ \E who \in accounts, user \in Asker \ {AnonymousPeer}, vis \in {0, 1, 3},
          n \in {-1} \cup DOMAIN db.cards, size \in 0..1 :
       /\ Takes(t, [op |-> "save", who |-> who, about |-> who, trust |-> 0], "write")
       /\ card' = [card EXCEPT ![t] =
             [id |-> n, user |-> user, new |-> n = -1,
              props |-> [i \in 1..size |->
                 [writer |-> who, vis |-> IF user = who THEN vis ELSE Unshown]]]]

\* The rest of handle_request, in its order: who has no user here is sent to log
\* in, whatever the path; DELETE never finds a number after "/delete".
AskOther(t) ==
    /\ AtDesk(t, "idle")
    /\ \E who \in (Asker \ Account) \cup accounts, path \in {"page", "delete", "unknown"} :
          /\ task' = [task EXCEPT ![t] =
                [op |-> path, who |-> who, about |-> who, trust |-> 3]]
          /\ Replies(t, CASE who = AnonymousPeer -> 404
                          [] who \in Abroad \cup {Anonymous} -> 303
                          [] who \in Account -> CASE path = "page" -> 200
                                                  [] path = "delete" -> 400
                                                  [] path = "unknown" -> 404)
    /\ GoesTo(t, "done")
    /\ UNCHANGED <<store, card, spent, shown, users, saved, contactsUp>>

-----------------------------------------------------------------------------
(* save_contact, as a transaction.                                         *)

Statement(t) == IF card[t].new THEN "create" ELSE "update"

\* What becomes of a request whose save is over, with this result.
AfterSave(t, status) ==
    IF task[t].op = "save" THEN Replies(t, status) /\ GoesTo(t, "done")
    ELSE IF card[t].id = -1 /\ task[t].op = "profile"
         THEN Replies(t, 404) /\ GoesTo(t, "done")
    ELSE GoesTo(t, "read") /\ UNCHANGED result

\* The transaction is rolled back, and what it set in the card stays.
RollBack == work' = EmptyDb /\ holder' = NoClerk /\ UNCHANGED db

\* The first statement meets another writer, or has thrown before and was not
\* reset.
SaveThrows(t) ==
    /\ AtDesk(t, "write")
    /\ holder # NoClerk \/ Statement(t) \in spent[t]
    /\ spent' = [spent EXCEPT ![t] = @ \cup {Statement(t)}]
    /\ AfterSave(t, 500)
    /\ UNCHANGED <<store, task, card, shown, users, saved, contactsUp>>

Writable(t) == AtDesk(t, "write") /\ holder = NoClerk /\ Statement(t) \notin spent[t]

CreateCard(t) ==
    /\ Writable(t) /\ card[t].new
    /\ db.last < MaxCards
    /\ card' = [card EXCEPT ![t].id = db.last + 1]
    /\ work' = WithCard(db, db.last + 1, task[t].about, card[t].user)
    /\ holder' = t
    /\ GoesTo(t, "fill")
    /\ UNCHANGED <<db, task, spent, shown, result, users, saved, contactsUp>>

\* The row is the owner's; its properties are replaced.
UpdateCard(t) ==
    /\ Writable(t) /\ ~card[t].new
    /\ LET n == card[t].id IN
       IF n \in DOMAIN db.cards /\ db.cards[n].owner = task[t].who
       THEN /\ work' = Pruned(Without(WithCard(db, n, task[t].who, card[t].user),
                                      {l \in db.links : l.card = n}))
            /\ holder' = t
            /\ GoesTo(t, "fill") /\ UNCHANGED <<db, result>>
       ELSE AfterSave(t, 401) /\ UNCHANGED store
    /\ UNCHANGED <<task, card, spent, shown, users, saved, contactsUp>>

Filled(t) == Cardinality({l \in work.links : l.card = card[t].id})

FillCard(t) ==
    /\ AtDesk(t, "fill") /\ Filled(t) < Len(card[t].props)
    /\ NextProp(work) \in PropNo
    /\ work' = WithProp(work, card[t].id, card[t].props[Filled(t) + 1])
    /\ UNCHANGED <<db, holder, task, clerkPc, card, spent, shown, result, users, saved,
                   contactsUp>>

\* Mutant: what was written until a statement failed is kept.
FailedSave_Kept == db' = work /\ work' = EmptyDb /\ holder' = NoClerk

FailedSave == RollBack

\* A statement of the transaction fails, or the commit meets a reader.
SaveFails(t) ==
    /\ clerkPc[t] \in {"fill", "committing"} /\ contactsUp
    /\ FailedSave
    /\ AfterSave(t, 500)
    /\ UNCHANGED <<task, card, spent, shown, users, saved, contactsUp>>

BeginCommit(t) ==
    /\ AtDesk(t, "fill") /\ Filled(t) = Len(card[t].props)
    /\ GoesTo(t, "committing")
    /\ UNCHANGED <<store, task, card, spent, shown, result, users, saved, contactsUp>>

EndCommit(t) ==
    /\ AtDesk(t, "committing")
    /\ db' = work /\ work' = EmptyDb /\ holder' = NoClerk
    /\ saved' = [n \in DOMAIN saved \cup {card[t].id} |->
                    IF n = card[t].id THEN {card[t].props[i] : i \in DOMAIN card[t].props}
                    ELSE saved[n]]
    /\ AfterSave(t, 200)
    /\ UNCHANGED <<task, card, spent, shown, users, contactsUp>>

-----------------------------------------------------------------------------
(* Reading.  While a transaction commits, another statement throws, which  *)
(* leaves the mod and ends the server.                                     *)

ReadThrows(t) ==
    /\ contactsUp /\ clerkPc[t] \in {"base", "read"}
    /\ holder # NoClerk /\ clerkPc[holder] = "committing"
    /\ Ends(t)

Readable == holder # NoClerk => clerkPc[holder] # "committing"

\* get_profile_base.  The host answers whether there is such a user once it is
\* not deleting one.
ProfileBase(t) ==
    /\ AtDesk(t, "base") /\ Readable
    /\ LET u == task[t].about IN
       \/ /\ ProfilesOf(db, u) # {}
          /\ card' = [card EXCEPT ![t] =
                [id |-> Min(ProfilesOf(db, u)), user |-> u, props |-> <<>>, new |-> FALSE]]
          /\ GoesTo(t, "read") /\ UNCHANGED result
       \/ /\ ProfilesOf(db, u) = {} /\ erasing = Anonymous
          /\ card' = [card EXCEPT ![t] =
                [id |-> -1, user |-> u, props |-> <<>>, new |-> TRUE]]
          /\ IF u \in accounts THEN GoesTo(t, "write") /\ UNCHANGED result
             ELSE IF task[t].op = "profile" THEN Replies(t, 404) /\ GoesTo(t, "done")
             ELSE GoesTo(t, "read") /\ UNCHANGED result
    /\ UNCHANGED <<store, task, spent, shown, users, saved, contactsUp>>

Finds(t, values, status) ==
    /\ shown' = [shown EXCEPT ![t] = @ \cup values]
    /\ Replies(t, status)
    /\ GoesTo(t, "done")
    /\ UNCHANGED <<store, task, card, spent, users, saved, contactsUp>>

Visible(u, trust) == ProfileLinks(db, u, trust)

ReadProfile(t) ==
    /\ AtDesk(t, "read") /\ task[t].op = "profile" /\ Readable
    /\ LET who == task[t].who
           u == task[t].about IN
       Finds(t, Values(db, Visible(u, task[t].trust) \cup
                           IF task[t].trust <= 1 THEN OwnLinks(db, who, u) ELSE {}), 200)

\* get_pfp: the picture the requester keeps of the user comes before the user's.
\* A card may hold no picture; a url is answered by a redirect and by the default
\* picture too.
Pictures(who, u, trust) ==
    LET own == IF who \in Account THEN Values(db, OwnLinks(db, who, u)) ELSE {} IN
    IF own # {} THEN own ELSE Values(db, Visible(u, trust))

ReadPicture(t) ==
    /\ AtDesk(t, "read") /\ task[t].op \in {"pfp", "namesake"} /\ Readable
    /\ LET pictures == Pictures(task[t].who, task[t].about, task[t].trust) IN
       \/ task[t].op = "pfp" /\ Finds(t, {}, 404)
       \/ /\ task[t].op = "namesake" /\ GoesTo(t, "peer")
          /\ UNCHANGED <<store, task, card, spent, shown, result, users, saved, contactsUp>>
       \/ \E p \in pictures : Finds(t, {p}, 200)
       \/ /\ pictures # {}
          /\ result' = [result EXCEPT ![t] = [answers |-> 2, status |-> 307]]
          /\ GoesTo(t, "done")
          /\ UNCHANGED <<store, task, card, spent, shown, users, saved, contactsUp>>

\* get_user_rolodex: of the first profile the properties of a profile, of every
\* other card those of a contact.  Without a profile one is made, and shown as to
\* another instance.
ReadAll(t) ==
    /\ AtDesk(t, "read") /\ task[t].op = "all" /\ Readable
    /\ LET who == task[t].who
           contacts == UNION {OwnLinks(db, who, u) : u \in Asker} IN
       IF card[t].user = who
       THEN Finds(t, IF card[t].id = -1 THEN {} ELSE Values(db, Visible(who, 2)), 200)
       ELSE IF ProfilesOf(db, who) # {}
       THEN Finds(t, Values(db, Visible(who, 0) \cup contacts), 200)
       ELSE /\ shown' = [shown EXCEPT ![t] = Values(db, contacts)]
            /\ GoesTo(t, "base")
            /\ UNCHANGED <<store, task, card, spent, result, users, saved, contactsUp>>

\* get_contact answers Success, which is 0, for a card of the user; 200 goes with an
\* empty card.
ReadCard(t) ==
    /\ AtDesk(t, "read") /\ task[t].op = "id" /\ Readable
    /\ \E n \in {-1} \cup CardNo :
          Finds(t, {}, IF n \in DOMAIN db.cards /\ db.cards[n].owner = task[t].who
                       THEN 404 ELSE 200)

ClerkIsFree(t) ==
    /\ AtDesk(t, "done")
    /\ task' = [task EXCEPT ![t] = NoTask]
    /\ card' = [card EXCEPT ![t] = NoCard]
    /\ shown' = [shown EXCEPT ![t] = {}]
    /\ result' = [result EXCEPT ![t] = NoResult]
    /\ GoesTo(t, "idle")
    /\ UNCHANGED <<store, spent, users, saved, contactsUp>>

-----------------------------------------------------------------------------
(* delete_user, which the host calls while it deletes one: five statements *)
(* that commit by themselves.                                              *)

MayWriteFor(t, u) == u \in {task[t].who, task[t].about} /\ clerkPc[t] \in {"write", "fill", "committing"}

StartErasing(t, u) ==
    /\ AtDesk(t, "idle") /\ u \in accounts /\ erasing = Anonymous
    /\ task' = [task EXCEPT ![t] = [op |-> "props", who |-> u, about |-> u, trust |-> 0]]
    /\ erasing' = u
    /\ overlapped' = overlapped \cup {v \in {u} : \E q \in Clerk : MayWriteFor(q, u)}
    /\ GoesTo(t, "erase")
    /\ UNCHANGED <<store, card, spent, shown, result, accounts, gone, saved, contactsUp>>

\* Mutant: the cards are deleted before what names them.
NextTable_CardsFirst(table) ==
    [props |-> "cards", cards |-> "profile", profile |-> "prune", prune |-> "shares",
     shares |-> "over"][table]

NextTable(table) ==
    [props |-> "profile", profile |-> "cards", cards |-> "prune", prune |-> "shares",
     shares |-> "over"][table]

CardsOf(u) == {n \in DOMAIN db.cards : db.cards[n].owner = u}

EraseTable(t) ==
    /\ AtDesk(t, "erase") /\ task[t].op # "over"
    /\ LET u == task[t].who
           linked(profile) == {l \in db.links : l.card \in CardsOf(u)
                                                  /\ (l.vis # Unshown) = profile} IN
       IF holder # NoClerk THEN Ends(t)
       ELSE /\ db' = CASE task[t].op = "props" -> Without(db, linked(FALSE))
                       [] task[t].op = "profile" -> Without(db, linked(TRUE))
                       [] task[t].op = "cards" ->
                            [db EXCEPT !.cards = [n \in DOMAIN @ \ CardsOf(u) |-> @[n]]]
                       [] task[t].op = "prune" -> Pruned(db)
                       [] task[t].op = "shares" -> db
            /\ task' = [task EXCEPT ![t].op = NextTable(@)]
            /\ saved' = [n \in DOMAIN saved \ CardsOf(u) |-> saved[n]]
            /\ UNCHANGED <<work, holder, clerkPc, card, spent, shown, result, users, contactsUp>>

\* The host removes the user, and lets its users be used again.
EndErasing(t) ==
    /\ AtDesk(t, "erase") /\ task[t].op = "over"
    /\ accounts' = accounts \ {erasing}
    /\ gone' = gone \cup {erasing}
    /\ erasing' = Anonymous
    /\ task' = [task EXCEPT ![t] = NoTask]
    /\ GoesTo(t, "idle")
    /\ UNCHANGED <<store, card, spent, shown, result, overlapped, saved, contactsUp>>

\* The journal takes back what was not committed.
ContactsRestart ==
    /\ ~contactsUp
    /\ work' = EmptyDb /\ holder' = NoClerk
    /\ task' = [t \in Clerk |-> NoTask]
    /\ clerkPc' = [t \in Clerk |-> "idle"]
    /\ card' = [t \in Clerk |-> NoCard]
    /\ spent' = [t \in Clerk |-> {}]
    /\ shown' = [t \in Clerk |-> {}]
    /\ result' = [t \in Clerk |-> NoResult]
    /\ erasing' = Anonymous
    /\ contactsUp' = TRUE
    /\ UNCHANGED <<db, accounts, overlapped, gone, saved>>

ContactsNext ==
    \/ ContactsRestart
    \/ \E t \in Clerk :
          \/ AskProfile(t) \/ AskAbroad(t) \/ PeerReplies(t) \/ AskOwn(t) \/ AskSave(t)
          \/ AskOther(t) \/ ClerkIsFree(t)
          \/ SaveThrows(t) \/ CreateCard(t) \/ UpdateCard(t) \/ FillCard(t) \/ SaveFails(t)
          \/ BeginCommit(t) \/ EndCommit(t)
          \/ ReadThrows(t) \/ ProfileBase(t) \/ ReadProfile(t) \/ ReadPicture(t)
          \/ ReadAll(t) \/ ReadCard(t)
          \/ EraseTable(t) \/ EndErasing(t)
          \/ \E u \in Account : StartErasing(t, u)

ContactsSpec == ContactsInit /\ [][ContactsNext]_contactsVars

-----------------------------------------------------------------------------

\* Whom the url of a request names.
Named(t) == IF task[t].op = "namesake" THEN Abroad ELSE {task[t].about}

\* Whatever ids were used again, and however cards change between profile and
\* contact, an answer holds only what its requester wrote, and what the user it was
\* looked for under shares with those like the requester.  That this is the user the
\* url names, it does not say: see OwnPictureOrTheirs.
ShownToWhomMeant ==
    \A t \in Clerk : \A v \in shown[t] :
        \/ v.writer = task[t].who
        \/ v.writer = task[t].about /\ v.vis >= Trust(task[t].about, task[t].who)

\* "Remote user, with no locally overridden profile picture" is asked for there, get_pfp
\* says: a card answered here is of the user the url names, or the requester's own.
OwnPictureOrTheirs ==
    \A t \in Clerk : \A v \in shown[t] : v.writer \in Named(t) \cup {task[t].who}

\* A card has all the properties of the last save of it that was committed and
\* nothing of one that failed, unless its owner is deleted meanwhile.
CardIsWhole ==
    /\ ContactsTypeOK
    /\ \A n \in DOMAIN db.cards :
           db.cards[n].owner \in accounts /\ db.cards[n].owner # erasing /\ n \in DOMAIN saved
           => Values(db, {l \in db.links : l.card = n}) = saved[n]

NothingOf(u) ==
    /\ \A n \in DOMAIN db.cards : db.cards[n].owner # u
    /\ \A p \in DOMAIN db.props : db.props[p].writer # u

\* Nothing of a deleted user stays: no card, no property; unless a save for the user
\* was under way when the deletion began.
DeletedUserGone == \A u \in gone \ overlapped : NothingOf(u)

\* "Called by host to delete all data associated with a deleted user": all, whatever is
\* saved meanwhile.
AllDataDeleted == \A u \in gone : NothingOf(u)
=============================================================================
