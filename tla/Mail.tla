-------------------------------- MODULE Mail --------------------------------
(***************************************************************************)
(* The mail mod (mods/mail) on instances that know each other.  A mail is  *)
(* stored where it is sent from and, for each other instance it names, the *)
(* same request is to be made there; names without a domain are completed  *)
(* where they are read.                                                    *)
(***************************************************************************)
EXTENDS Integers, Sequences, FiniteSets, SequencesExt

CONSTANTS
    Instance_,      \* domains
    Poster,         \* threads of the instances' pools
    MailUser,       \* names, used on every instance
    MaxMails        \* mails sent

Bare == "bare"      \* the domain a name is written without
Name == [user : MailUser, at : Instance_ \cup {Bare}]

ASSUME MailAssumption == Bare \notin Instance_ /\ MaxMails \in Nat

VARIABLES
    mailbox,        \* instance -> the mails it stores
    posting,        \* poster -> the mail it handles
    copies,         \* requests to other instances on their way
    mails,          \* mails sent
    erasedUsers     \* users whose deletion is done

mailVars == <<mailbox, posting, copies, mails, erasedUsers>>

NoPost == [id |-> 0, on |-> Bare, away |-> {}]

MailTypeOK ==
    /\ \A i \in Instance_ : \A m \in Range(mailbox[i]) :
          /\ m.id \in 1..MaxMails /\ m.from \in Name /\ m.to \subseteq Name
          /\ m.index \in Nat
    /\ \A p \in Poster : posting[p].id \in 0..mails
    /\ mails \in 0..MaxMails
    /\ erasedUsers \subseteq [user : MailUser, on : Instance_]

MailInit ==
    /\ mailbox = [i \in Instance_ |-> <<>>]
    /\ posting = [p \in Poster |-> NoPost]
    /\ copies = {} /\ mails = 0
    /\ erasedUsers = {}

-----------------------------------------------------------------------------

\* What names mean on instance i.
Completed(i, to) == {IF n.at = Bare THEN [n EXCEPT !.at = i] ELSE n : n \in to}

\* Mutant: what came from a peer is distributed too.
Distributed_Always(i, to, local) == {n.at : n \in Completed(i, to)} \ {i}

\* The instances a mail is sent on to: those it names, if it is of a local user.
Distributed(i, to, local) == IF local THEN {n.at : n \in Completed(i, to)} \ {i} ELSE {}

\* MailBox::push: the index is the place.
Pushed(i, id, from, to) ==
    mailbox' = [mailbox EXCEPT ![i] = Append(@,
        [id |-> id, from |-> from, to |-> Completed(i, to), index |-> Len(@)])]

\* send_mail of a local user, until the mail is stored.
Post(p) ==
    /\ posting[p] = NoPost /\ mails < MaxMails
    /\ \E i \in Instance_, u \in MailUser, to \in (SUBSET Name) \ {{}} :
          /\ [user |-> u, on |-> i] \notin erasedUsers
          /\ Pushed(i, mails + 1, [user |-> u, at |-> i], to)
          /\ posting' = [posting EXCEPT ![p] =
                [id |-> mails + 1, on |-> i,
                 away |-> Distributed(i, to, TRUE),
                 from |-> [user |-> u, at |-> i], to |-> to]]
    /\ mails' = mails + 1
    /\ UNCHANGED <<copies, erasedUsers>>

\* Nobody elsewhere is named: answered.
PostEnds(p) ==
    /\ posting[p].id # 0 /\ posting[p].away = {}
    /\ posting' = [posting EXCEPT ![p] = NoPost]
    /\ UNCHANGED <<mailbox, copies, mails, erasedUsers>>

\* The process ends, with the mails, which are in its memory, and is started again.
MailEnds(i) ==
    /\ mailbox' = [mailbox EXCEPT ![i] = <<>>]
    /\ posting' = [p \in Poster |-> IF posting[p].on = i THEN NoPost ELSE posting[p]]

\* The request to the first instance; then the mod requests itself without a domain,
\* which the host makes a string of: the process ends.  A request may be lost.
PostAway(p) ==
    /\ posting[p].away # {}
    /\ \E d \in posting[p].away, lost \in BOOLEAN :
          copies' = IF lost THEN copies
                    ELSE copies \cup {[id |-> posting[p].id, for |-> d,
                                       from |-> posting[p].from, to |-> posting[p].to]}
    /\ MailEnds(posting[p].on)
    /\ UNCHANGED <<mails, erasedUsers>>

\* The request of a peer is stored and goes no further.
CopyArrives ==
    /\ \E c \in copies :
          /\ Pushed(c.for, c.id, c.from, c.to)
          /\ copies' = (copies \ {c}) \cup
                {[c EXCEPT !.for = d] : d \in Distributed(c.for, c.to, FALSE)}
    /\ UNCHANGED <<posting, mails, erasedUsers>>

\* delete_user_mail is given the name without a domain.
Deleted(i, u) == [user |-> u, at |-> Bare]

\* The elements of a sequence at the places kept, in their order.
At(seq, kept) ==
    LET nth(j) == CHOOSE k \in kept : Cardinality({l \in kept : l <= k}) = j IN
    [j \in 1..Cardinality(kept) |-> seq[nth(j)]]

DeleteUserMail ==
    /\ \E i \in Instance_, u \in MailUser :
          LET name == Deleted(i, u)
              stripped == [k \in DOMAIN mailbox[i] |->
                             [mailbox[i][k] EXCEPT !.to = @ \ {name}]]
              kept == {k \in DOMAIN stripped :
                          stripped[k].to # {} /\ stripped[k].from # name} IN
          /\ [user |-> u, on |-> i] \notin erasedUsers
          /\ mailbox' = [mailbox EXCEPT ![i] = At(stripped, kept)]
          /\ erasedUsers' = erasedUsers \cup {[user |-> u, on |-> i]}
    /\ UNCHANGED <<posting, copies, mails>>

MailNext ==
    \/ \E p \in Poster : Post(p) \/ PostEnds(p) \/ PostAway(p)
    \/ CopyArrives \/ DeleteUserMail

MailSpec == MailInit /\ [][MailNext]_mailVars

-----------------------------------------------------------------------------

\* However mails, copies, losses, deletions and restarts interleave, a mail is stored
\* once on an instance, and on none but its sender's and those it names: copies do not
\* wander between instances that name each other.
StoredOnce ==
    /\ MailTypeOK
    /\ \A i \in Instance_ :
          /\ \A k, l \in DOMAIN mailbox[i] : mailbox[i][k].id = mailbox[i][l].id => k = l
          /\ \A m \in Range(mailbox[i]) : m.from.at = i \/ \E n \in m.to : n.at = i

\* As MailBox.hpp says of the deletion of a user: no mail is left that the user sent
\* or was the sole recipient of.
DeletedMailGone ==
    [][\A e \in erasedUsers' \ erasedUsers : \A m \in Range(mailbox'[e.on]) :
          LET name == [user |-> e.user, at |-> e.on] IN m.from # name /\ m.to # {name}]_mailVars
=============================================================================
