------------------------------- MODULE MCMods -------------------------------
(***************************************************************************)
(* Four mods for TLC in one run: a behaviour exercises the one its focus  *)
(* names, over a small instance.                                           *)
(***************************************************************************)
EXTENDS Contacts, Cdn, Mail, Static

CONSTANTS t1, t2, alice, bob, carol

VARIABLES focus, taken

modsVars == <<focus, taken, contactsVars, cdnVars, mailVars, staticVars>>

MCTexts == {<<1>>, <<0, 2>>}

\* At most this many requests come to the contacts mod, and fewer to the CDN.
MaxTaken == 4

Fresh(t) == clerkPc[t] = "idle" /\ clerkPc'[t] # "idle"

\* The second clerk handles requests of alice about herself, and she alone is
\* deleted.  Cards are of her or of nobody, new ones have a property; the first
\* request has more choices than those after it.
SmallContacts ==
    /\ taken' = taken + Cardinality({t \in Clerk : Fresh(t)}) /\ taken' <= MaxTaken
    /\ erasing' # bob
    /\ \A t \in Clerk : Fresh(t) =>
         /\ t = t2 => task'[t].who = alice /\ task'[t].op \in {"save", "profile"}
         /\ task'[t].op = "save" =>
              /\ card'[t].user \in {alice, Anonymous}
              /\ card'[t].props # <<>> \/ ~card'[t].new
              /\ \A i \in DOMAIN card'[t].props : card'[t].props[i].vis \in {1, 3} => taken = 0
              /\ task'[t].who = bob => card'[t].user = alice /\ card'[t].props # <<>>
              /\ task'[t].who = alice /\ card'[t].user = Anonymous => card'[t].props = <<>>
         /\ task'[t].op \in {"profile", "pfp", "namesake"} => task'[t].about = alice
         /\ task'[t].op \in {"abroad", "id", "page", "delete", "unknown"} => taken = 0
         /\ task'[t].who = AnonymousPeer => taken = 0

\* A request has one of the ids its statement does not look at.  What needs no
\* database comes first or not at all, and a worker alone is the first.
SmallCdn ==
    /\ taken' = taken + Cardinality({w \in Worker : at[w] = "idle" /\ at'[w] # "idle"})
    /\ taken' < MaxTaken
    /\ t2 \in crew' => t1 \in crew'
    /\ \A w \in Worker : outcome'[w] \in {400, 401, 404} /\ outcome[w] = -1 /\ at[w] = "idle" =>
        taken = 0 /\ w = t1
    /\ \A w \in Worker : at[w] = "idle" /\ at'[w] # "idle" =>
        /\ at'[w] = "post" => taken = 0
        /\ at'[w] \in {"make", "rows", "post"} => asked'[w].token = 16
        /\ at'[w] \in {"token", "post"} => asked'[w].asset = 16

\* Mails are of bob, to one or two names of whom one is alice.
SmallMail ==
    \A p \in Poster : posting[p] # posting'[p] /\ posting'[p] # NoPost =>
         /\ Cardinality(posting'[p].to) <= 2
         /\ posting'[p].from.user = bob
         /\ \E n \in posting'[p].to : n.user = alice

\* A tree with a directory, a pipe, a file without an extension, and links to the
\* directory and out of the root.  One url has ".." after a name that may be
\* missing and after a link, one is too long.
MCRoot == <<"www">>
MCPlace == {<<>>, <<"etc">>, MCRoot, <<"www", "x">>, <<"www", "LICENSE">>, <<"www", "d">>,
            <<"www", "d", "index.html">>, <<"www", "d", "index.htm">>}
MCLinkTo == [p \in MCPlace |-> IF p = <<"www", "LICENSE">> THEN <<"www", "d">> ELSE <<"etc">>]
MCUrls == {<<>>, <<"x">>, <<"LICENSE">>, <<"d">>, <<"x", "?", "d">>, <<"d", "..", "x">>,
           <<"..", "etc">>, <<"d", "index.html">>, <<"d", "..", "x", "..", "d">>,
           <<"d", "d", "d", "d", "d", "d">>}

SmallTree ==
    /\ \A p \in {<<>>, MCRoot} : disk[p] = "dir"
    /\ disk[<<"etc">>] = "file"
    /\ disk[<<"www", "d">>] \in {"none", "dir"}
    /\ disk[<<"www", "x">>] \in {"link", "pipe"}
    /\ disk[<<"www", "LICENSE">>] \in {"file", "link"}
    /\ \A n \in {"index.html", "index.htm"} : disk[<<"www", "d", n>>] \in {"none", "file"}

ModsInit ==
    /\ StaticInit /\ SmallTree
    /\ focus \in {"contacts", "cdn", "mail", "static"} /\ taken = 0
    /\ focus # "static" => disk[<<"www", "d">>] = "none" /\ disk[<<"www", "x">>] = "pipe"
                             /\ disk[<<"www", "LICENSE">>] = "file"
    /\ ContactsInit /\ MailInit
    /\ CdnInit
    /\ focus # "cdn" => assets = {} /\ hasTokens

ModsNext ==
    \/ /\ focus = "contacts" /\ ContactsNext /\ SmallContacts
       /\ UNCHANGED <<focus, cdnVars, mailVars, staticVars>>
    \/ /\ focus = "cdn" /\ CdnNext /\ SmallCdn
       /\ UNCHANGED <<focus, contactsVars, mailVars, staticVars>>
    \/ /\ focus = "mail" /\ MailNext /\ SmallMail
       /\ UNCHANGED <<focus, taken, contactsVars, cdnVars, staticVars>>
    \/ /\ focus = "static" /\ StaticNext /\ (settings'.slash => changes' = 0)
       /\ UNCHANGED <<focus, taken, contactsVars, cdnVars, mailVars>>

ModsSpec == ModsInit /\ [][ModsNext]_modsVars
=============================================================================
