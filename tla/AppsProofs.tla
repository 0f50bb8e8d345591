----------------------------- MODULE AppsProofs -----------------------------
(***************************************************************************)
(* The server of files (Cdn), the mail mod (Mail) and the static mod       *)
(* (Static) for every number of workers, users, mails, instances and       *)
(* visitors, and every tree of files.                                      *)
(***************************************************************************)
EXTENDS Cdn, Mail, Static, FiniteSetTheorems, SequenceTheorems, TLAPS

(***************************************************************************)
(* The server of files (Cdn).                                              *)
(***************************************************************************)

TokenIds == {FromRhex(t) : t \in Texts}

AskedSet == [asset : {0} \cup TokenIds, token : {0} \cup TokenIds, late : BOOLEAN]

\* What a worker is asked for, and where the token of an INSERT comes from.
AskedTypeOK ==
    /\ CdnTypeOK
    /\ asked \in [Worker -> AskedSet]
    /\ used \in [Worker -> SUBSET StatementNames]
    /\ \A w \in Worker : at[w] = "grant" => asked[w].token \in TokenIds

\* Who handles a request, or has a statement to reset, is of the running server.
CrewAtWork ==
    /\ cdnUp # "serving" => crew = {}
    /\ \A w \in Worker \ crew : at[w] = "idle" /\ used[w] = {}

\* A revoked token has no row, and a request that came too late names one that is
\* still revoked; a row was found for none of those.
RevokedHasNoRow ==
    /\ revoked \cap DOMAIN tokens = {}
    /\ \A w \in Worker : asked[w].late => asked[w].token \in revoked /\ at[w] # "open"

CdnIInv == AskedTypeOK /\ CrewAtWork /\ RevokedHasNoRow

\* A request that an insertion takes the lateness from stays a request.
LEMMA LateUpdated ==
    ASSUME NEW r \in AskedSet, NEW token
    PROVE  LET s == [r EXCEPT !.late = @ /\ r.token # token] IN
           s \in AskedSet /\ s.token = r.token /\ (s.late <=> r.late /\ r.token # token)
<1> DEFINE b == r.late /\ r.token # token
<1>1. b \in BOOLEAN
  OBVIOUS
<1> HIDE DEF b
<1>2. /\ [r EXCEPT !.late = b] \in AskedSet
      /\ [r EXCEPT !.late = b].token = r.token
      /\ [r EXCEPT !.late = b].late = b
  BY <1>1 DEF AskedSet
<1> QED BY <1>2 DEF b

\* A server that is not started has no worker, and none who waits for a row.
LEMMA CdnInitIInv == CdnInit => CdnIInv
  BY CdnAssumption DEF CdnInit, CdnIInv, AskedSet, AskedTypeOK, CdnTypeOK, CrewAtWork, RevokedHasNoRow,
     NoRequest, StatementNames, Statuses, Dropped

\* No worker, at whatever statement of his, breaks it for another.
LEMMA CdnStepIInv == CdnIInv /\ [CdnNext]_cdnVars => CdnIInv'
<1> SUFFICES ASSUME CdnIInv, [CdnNext]_cdnVars PROVE CdnIInv'
  OBVIOUS
<1> USE CdnAssumption DEF CdnIInv, AskedTypeOK, AskedSet, CdnTypeOK, CrewAtWork, RevokedHasNoRow,
     TokenIds, NoRequest, StatementNames, Statuses, Dropped, cdnTables,
     Finishes, Responds, Steps, Others, Needs, Ready, Executes, Spends, Inserted
<1>1. CASE CdnStart
  <2>1. /\ UNCHANGED <<cdnTables, at, asked, used, open, revoked, outcome>>
        /\ cdnUp = "off" /\ crew' \subseteq Worker
        /\ cdnUp' \in {"serving", "refused", "crashed"}
        /\ cdnUp' # "serving" => crew' = crew
    BY <1>1 DEF CdnStart
  <2>2. crew = {} /\ open = {} /\ \A w \in Worker : at[w] = "idle" /\ used[w] = {}
    BY <2>1
  <2>3. AskedTypeOK'
    BY <2>1, <2>2
  <2>4. CrewAtWork'
    BY <2>1, <2>2
  <2>5. RevokedHasNoRow'
    BY <2>1, <2>2
  <2> QED BY <2>3, <2>4, <2>5
<1>2. CASE CdnStop
  BY <1>2 DEF CdnStop
<1>3. ASSUME NEW w \in Worker, RequestComes(w) PROVE CdnIInv'
  <2>1. PICK place \in {"file", "make", "grant", "token", "rows", "post"}, a \in Texts, t \in Texts :
          /\ at' = [at EXCEPT ![w] = place]
          /\ asked' = [asked EXCEPT ![w] =
                [asset |-> FromRhex(a), token |-> FromRhex(t),
                 late |-> FromRhex(t) \in revoked]]
    BY <1>3 DEF RequestComes
  <2>2. /\ w \in crew /\ at[w] = "idle" /\ outcome' = [outcome EXCEPT ![w] = -1]
        /\ UNCHANGED <<cdnUp, crew, cdnTables, used, open, revoked>>
    BY <1>3 DEF RequestComes
  <2>3. FromRhex(a) \in TokenIds /\ FromRhex(t) \in TokenIds
    OBVIOUS
  <2> HIDE DEF TokenIds
  <2>4. CdnTypeOK'
    BY <2>1, <2>2 DEF TokenIds
  <2>5. AskedTypeOK'
    BY <2>1, <2>2, <2>3, <2>4
  <2>6. CrewAtWork'
    BY <2>1, <2>2
  <2>7. RevokedHasNoRow'
    <3>1. asked'[w].late = (FromRhex(t) \in revoked) /\ asked'[w].token = FromRhex(t)
      BY <2>1
    <3>2. at'[w] # "open" /\ \A v \in Worker \ {w} : asked'[v] = asked[v] /\ at'[v] = at[v]
      BY <2>1
    <3>3. UNCHANGED <<revoked, tokens>>
      BY <2>2
    <3> HIDE DEF AskedTypeOK, CrewAtWork
    <3>4. ASSUME NEW v \in Worker
          PROVE  asked'[v].late => asked'[v].token \in revoked /\ at'[v] # "open"
      <4>1. CASE v = w
        BY <3>1, <3>2, <4>1
      <4>2. CASE v # w
        BY <3>2, <4>2
      <4> QED BY <4>1, <4>2
    <3> QED BY <3>3, <3>4
  <2> QED BY <2>5, <2>6, <2>7
<1>4. ASSUME NEW w \in Worker, RequestRefused(w) PROVE CdnIInv'
  BY <1>4 DEF RequestRefused
<1>5. ASSUME NEW w \in Worker, StatementThrows(w) PROVE CdnIInv'
  <2>1. AskedTypeOK'
    BY <1>5 DEF StatementThrows
  <2>2. CrewAtWork'
    BY <1>5 DEF StatementThrows
  <2>3. RevokedHasNoRow'
    BY <1>5 DEF StatementThrows
  <2> QED BY <2>1, <2>2, <2>3
<1>6. ASSUME NEW w \in Worker, PostThrows(w) PROVE CdnIInv'
  BY <1>6 DEF PostThrows
<1>7. ASSUME NEW w \in Worker, FindFile(w) PROVE CdnIInv'
  <2>1. AskedTypeOK'
    <3>1. CASE at' = [at EXCEPT ![w] = "open"] /\ open' = open \cup {w} /\ asked' = asked
               /\ used' = [used EXCEPT ![w] = @ \cup {"file"}] /\ outcome' = outcome
      BY <1>7, <3>1 DEF FindFile
    <3>2. CASE Finishes(w, 404) /\ UNCHANGED <<used, open>>
      BY <1>7, <3>2 DEF FindFile
    <3> QED BY <1>7, <3>1, <3>2 DEF FindFile
  <2>2. CrewAtWork'
    BY <1>7 DEF FindFile
  <2>3. RevokedHasNoRow'
    BY <1>7 DEF FindFile, Granted
  <2> QED BY <2>1, <2>2, <2>3
<1>8. ASSUME NEW w \in Worker, SendFile(w) PROVE CdnIInv'
  BY <1>8 DEF SendFile
<1>9. ASSUME NEW w \in Worker, NewToken(w) PROVE CdnIInv'
  <2> DEFINE Insert(token) ==
               /\ token \notin DOMAIN tokens
               /\ tokens' = [t \in DOMAIN tokens \cup {token} |->
                                IF t = token THEN asked[w].asset ELSE tokens[t]]
               /\ revoked' = revoked \ {token}
               /\ asked' = [v \in Worker |->
                     IF v = w THEN NoRequest
                     ELSE [asked[v] EXCEPT !.late = @ /\ asked[v].token # token]]
             Refused == /\ asked' = [asked EXCEPT ![w] = NoRequest]
                        /\ UNCHANGED <<tokens, revoked>>
  <2>1. /\ at[w] \in {"make", "grant"} /\ w \in crew
        /\ used' = [used EXCEPT ![w] = @ \cup {at[w]}]
        /\ outcome' = [outcome EXCEPT ![w] = 200] /\ at' = [at EXCEPT ![w] = "idle"]
        /\ UNCHANGED <<cdnUp, crew, assets, hasTokens, open>>
    BY <1>9 DEF NewToken
  <2>2. PICK token \in Made \cup TokenIds : Refused \/ Insert(token)
    <3>1. ASSUME NEW token, Inserted(w, token) PROVE Refused \/ Insert(token)
      <4>1. CASE token \in DOMAIN tokens
        BY <3>1, <4>1
      <4>2. CASE token \notin DOMAIN tokens
        BY <3>1, <4>2 DEF Insert
      <4> QED BY <4>1, <4>2
    <3>2. \E token \in Made \cup TokenIds : Inserted(w, token)
      <4>1. CASE at[w] = "grant" /\ Inserted(w, asked[w].token)
        <5>1. asked[w].token \in TokenIds
          BY <4>1
        <5> HIDE DEF Inserted, TokenIds
        <5> QED BY <4>1, <5>1
      <4>2. CASE \E token \in Made : Inserted(w, token)
        <5> HIDE DEF Inserted, TokenIds
        <5> QED BY <4>2
      <4> QED BY <1>9, <4>1, <4>2 DEF NewToken
    <3> HIDE DEF Inserted, Insert, Refused
    <3> QED BY <3>1, <3>2
  <2> HIDE DEF TokenIds
  <2>3. CdnTypeOK'
    BY <2>1, <2>2 DEF TokenIds
  <2>4. ASSUME Insert(token) PROVE CdnIInv'
    <3> HIDE DEF AskedSet
    <3>0. NoRequest \in AskedSet /\ NoRequest.late = FALSE
      BY DEF AskedSet
    <3> DEFINE Later(v) == [asked[v] EXCEPT !.late = @ /\ asked[v].token # token]
    <3>6. \A v \in Worker : /\ Later(v) \in AskedSet /\ Later(v).token = asked[v].token
                            /\ Later(v).late => asked[v].late /\ asked[v].token # token
      <4> TAKE v \in Worker
      <4>1. asked[v] \in AskedSet
        OBVIOUS
      <4> QED BY <4>1, LateUpdated
    <3>7. asked' = [v \in Worker |-> IF v = w THEN NoRequest ELSE Later(v)]
      BY <2>4
    <3> HIDE DEF Later
    <3>1. asked' \in [Worker -> AskedSet]
      BY <3>0, <3>6, <3>7
    <3>2. /\ asked'[w].late = FALSE
          /\ \A v \in Worker \ {w} :
                /\ asked'[v].late => asked[v].late /\ asked[v].token # token
                /\ asked'[v].token = asked[v].token
      BY <3>0, <3>6, <3>7
    <3>3. AskedTypeOK'
      BY <2>1, <2>3, <3>1, <3>2
    <3>4. CrewAtWork'
      BY <2>1
    <3>5. revoked' \cap DOMAIN tokens' = {}
      BY <2>4
    <3>8. \A v \in Worker : asked'[v].late => asked'[v].token \in revoked' /\ at'[v] # "open"
      <4> TAKE v \in Worker
      <4>1. CASE v = w
        BY <3>2, <4>1
      <4>2. CASE v # w
        <5>1. at'[v] = at[v] /\ revoked' = revoked \ {token}
          BY <2>1, <2>4, <4>2
        <5>2. asked[v].late => asked[v].token \in revoked /\ at[v] # "open"
          OBVIOUS
        <5> QED BY <3>2, <4>2, <5>1, <5>2
      <4> QED BY <4>1, <4>2
    <3>9. RevokedHasNoRow'
      BY <3>5, <3>8
    <3> QED BY <3>3, <3>4, <3>9
  <2>5. ASSUME Refused PROVE CdnIInv'
    <3>1. AskedTypeOK'
      BY <2>1, <2>3, <2>5
    <3>2. CrewAtWork'
      BY <2>1
    <3>3. RevokedHasNoRow'
      BY <2>1, <2>5
    <3> QED BY <3>1, <3>2, <3>3
  <2> QED BY <2>2, <2>4, <2>5
<1>10. ASSUME NEW w \in Worker, DeleteToken(w) PROVE CdnIInv'
  <2>1. AskedTypeOK'
    BY <1>10 DEF DeleteToken, RowsOfToken, Restrict
  <2>2. CrewAtWork'
    BY <1>10 DEF DeleteToken, RowsOfToken, Restrict
  <2>3. RevokedHasNoRow'
    BY <1>10 DEF DeleteToken, RowsOfToken, Restrict
  <2> QED BY <2>1, <2>2, <2>3
<1>11. ASSUME NEW w \in Worker, DeleteRows(w) PROVE CdnIInv'
  <2>1. AskedTypeOK'
    BY <1>11 DEF DeleteRows, Restrict
  <2>2. CrewAtWork'
    BY <1>11 DEF DeleteRows, Restrict
  <2>3. RevokedHasNoRow'
    BY <1>11 DEF DeleteRows, Restrict
  <2> QED BY <2>1, <2>2, <2>3
<1>12. ASSUME NEW w \in Worker, DeleteAsset(w) PROVE CdnIInv'
  <2>1. AskedTypeOK'
    <3>1. assets' \subseteq AssetIds
      BY <1>12 DEF DeleteAsset
    <3>2. CdnTypeOK'
      BY <1>12, <3>1 DEF DeleteAsset
    <3> QED BY <1>12, <3>2 DEF DeleteAsset
  <2>2. CrewAtWork'
    BY <1>12 DEF DeleteAsset
  <2>3. RevokedHasNoRow'
    BY <1>12 DEF DeleteAsset
  <2> QED BY <2>1, <2>2, <2>3
<1>13. CASE UNCHANGED cdnVars
  <2>1. AskedTypeOK'
    BY <1>13 DEF cdnVars
  <2>2. CrewAtWork' /\ RevokedHasNoRow'
    BY <1>13 DEF cdnVars
  <2> QED BY <2>1, <2>2
<1> HIDE DEF CdnIInv
<1> QED BY <1>1, <1>2, <1>3, <1>4, <1>5, <1>6, <1>7, <1>8, <1>9, <1>10, <1>11, <1>12, <1>13
     DEF CdnNext

\* So it holds of every state of the server.
LEMMA CdnInvariant == CdnSpec => []CdnIInv
  BY CdnInitIInv, CdnStepIInv, PTL DEF CdnSpec

\* No file for a revoked token.
THEOREM CdnRevokedNotSent == CdnSpec => []RevokedNotSent
<1>1. CdnIInv => RevokedNotSent
  BY DEF CdnIInv, AskedTypeOK, CdnTypeOK, RevokedHasNoRow, RevokedNotSent
<1> QED BY <1>1, CdnInvariant, PTL

-----------------------------------------------------------------------------
(***************************************************************************)
(* The mail mod (Mail).                                                    *)
(***************************************************************************)

Sent == [user : MailUser, at : Instance_]
Recipients == (SUBSET Name) \ {{}}

\* A stored mail is of and to people with a domain, and its index is its place.
Stored(n) == [id : 1..n, from : Sent, to : (SUBSET Sent) \ {{}}, index : Nat]

InOrder(box, n) ==
    /\ box \in Seq(Stored(n))
    /\ \A k \in 1..Len(box) : box[k].index = k - 1

BoxesInOrder ==
    /\ mailbox = [i \in Instance_ |-> mailbox[i]]
    /\ \A i \in Instance_ : InOrder(mailbox[i], mails)

Posted(n) == [id : 1..n, on : Instance_, away : SUBSET Instance_, from : Sent,
              to : Recipients]
Copy(n) == [id : 1..n, for : Instance_, from : Sent, to : Recipients]

\* So are the mails on their way.
OnTheirWay ==
    /\ posting = [p \in Poster |-> posting[p]]
    /\ \A p \in Poster : posting[p] # NoPost => posting[p] \in Posted(mails)
    /\ copies \subseteq Copy(mails)

StoredOn(i, id) == \E k \in DOMAIN mailbox[i] : mailbox[i][k].id = id

EachOnce ==
    \A i \in Instance_ : \A k, l \in DOMAIN mailbox[i] :
        mailbox[i][k].id = mailbox[i][l].id => k = l

ForSomeone ==
    \A i \in Instance_ : \A k \in DOMAIN mailbox[i] :
        mailbox[i][k].from.at = i \/ \E n \in mailbox[i][k].to : n.at = i

\* A copy is the only one of its mail, and goes where the mail is not but has a reader.
CopiesAhead ==
    /\ \A c \in copies : ~StoredOn(c.for, c.id) /\ \E n \in c.to : n.at = c.for
    /\ \A c, d \in copies : c.id = d.id => c = d

\* A mail under way is one poster's, and no copy of it is made yet.
PostsAhead ==
    /\ \A p \in Poster : \A d \in posting[p].away :
          ~StoredOn(d, posting[p].id) /\ \E n \in posting[p].to : n.at = d
    /\ \A p \in Poster : \A c \in copies : c.id # posting[p].id
    /\ \A p, q \in Poster : posting[p].id = posting[q].id /\ posting[p].id # 0 => p = q

MailIInv ==
    /\ mails \in 0..MaxMails
    /\ erasedUsers \subseteq [user : MailUser, on : Instance_]
    /\ BoxesInOrder /\ OnTheirWay /\ EachOnce /\ ForSomeone /\ CopiesAhead /\ PostsAhead

\* A sequence of which all places are kept stays as it is.
LEMMA AllKept ==
    ASSUME NEW S, NEW seq \in Seq(S)
    PROVE  At(seq, 1..Len(seq)) = seq
<1> DEFINE n == Len(seq)
           upTo(k) == {l \in 1..n : l <= k}
           nth(j) == CHOOSE k \in 1..n : Cardinality(upTo(k)) = j
<1>0. n \in Nat
  OBVIOUS
<1> HIDE DEF n
<1>5. \A k \in 0..n : Cardinality(1..k) = k
  <2> TAKE k \in 0..n
  <2>1. k \in Int /\ 1 \in Int
    BY <1>0
  <2>2. Cardinality(1..k) = IF 1 > k THEN 0 ELSE k - 1 + 1
    BY <2>1, FS_Interval
  <2> QED BY <1>0, <2>1, <2>2
<1>1. n \in Nat /\ Cardinality(1..n) = n
  BY <1>0, <1>5
<1>2. \A k \in 1..n : Cardinality(upTo(k)) = k
  <2> TAKE k \in 1..n
  <2>1. upTo(k) = 1..k /\ k \in 0..n
    BY <1>1
  <2> QED BY <1>5, <2>1
<1>3. \A j \in 1..n : nth(j) = j
  <2> HIDE DEF upTo
  <2> QED BY <1>2
<1>4. At(seq, 1..n) = [j \in 1..n |-> seq[nth(j)]]
  BY <1>1 DEF At
<1>6. seq = [j \in 1..n |-> seq[j]]
  BY DEF n
<1> QED BY <1>3, <1>4, <1>6 DEF n

\* One more mail at the end of a mailbox is in its place.
LEMMA PushedInOrder ==
    ASSUME NEW n \in Nat, NEW box, InOrder(box, n), NEW i \in Instance_,
           NEW id \in 1..n, NEW from \in Sent, NEW to \in Recipients
    PROVE  InOrder(Append(box, [id |-> id, from |-> from, to |-> Completed(i, to),
                                index |-> Len(box)]), n)
<1> DEFINE mail == [id |-> id, from |-> from, to |-> Completed(i, to), index |-> Len(box)]
<1>1. box \in Seq(Stored(n)) /\ Len(box) \in Nat
  BY DEF InOrder
<1>2. Completed(i, to) \in (SUBSET Sent) \ {{}}
  <2>1. ASSUME NEW m \in to
        PROVE  (IF m.at = Bare THEN [m EXCEPT !.at = i] ELSE m) \in Sent
    <3>1. m \in Name
      BY DEF Recipients
    <3>2. CASE m.at = Bare
      BY <3>1, <3>2 DEF Sent, Name
    <3>3. CASE m.at # Bare
      BY <3>1, <3>3 DEF Sent, Name
    <3> QED BY <3>2, <3>3
  <2>2. to # {}
    BY DEF Recipients
  <2> HIDE DEF Sent, Recipients
  <2> QED BY <2>1, <2>2 DEF Completed
<1>3. mail \in Stored(n)
  BY <1>1, <1>2 DEF Stored
<1> HIDE DEF mail
<1>4. Append(box, mail) \in Seq(Stored(n)) /\ Len(Append(box, mail)) = Len(box) + 1
  BY <1>1, <1>3
<1>5. ASSUME NEW k \in 1..(Len(box) + 1) PROVE Append(box, mail)[k].index = k - 1
  <2>1. CASE k = Len(box) + 1
    BY <1>1, <2>1 DEF mail
  <2>2. CASE k \in 1..Len(box)
    BY <1>1, <2>2 DEF InOrder
  <2> QED BY <1>1, <2>1, <2>2
<1> QED BY <1>4, <1>5 DEF InOrder, mail

\* What is in order stays so while more mails are sent.
LEMMA StillInOrder ==
    ASSUME NEW n \in Nat, NEW box, InOrder(box, n)
    PROVE  InOrder(box, n + 1)
<1>1. Stored(n) \subseteq Stored(n + 1)
  BY DEF Stored
<1> HIDE DEF Stored
<1> QED BY <1>1 DEF InOrder

\* A mail pushed where it was not is there once, and nowhere else than before.
LEMMA PushedOnce ==
    ASSUME BoxesInOrder, EachOnce, ForSomeone,
           NEW i \in Instance_, NEW id \in Nat, NEW from, NEW to,
           Pushed(i, id, from, to), ~StoredOn(i, id),
           from.at = i \/ \E n \in Completed(i, to) : n.at = i
    PROVE  /\ EachOnce' /\ ForSomeone'
           /\ \A d \in Instance_, e \in Nat :
                 StoredOn(d, e)' => StoredOn(d, e) \/ (d = i /\ e = id)
<1>1. PICK mail : mail = [id |-> id, from |-> from, to |-> Completed(i, to),
                          index |-> Len(mailbox[i])]
  OBVIOUS
<1>2. /\ mail.id = id /\ mail.from = from /\ mail.to = Completed(i, to)
      /\ mailbox' = [mailbox EXCEPT ![i] = Append(@, mail)]
  BY <1>1 DEF Pushed
<1>3. /\ \A d \in Instance_ \ {i} : mailbox'[d] = mailbox[d]
      /\ mailbox'[i] = Append(mailbox[i], mail)
  BY <1>2 DEF BoxesInOrder
<1>4. PICK n \in Nat : n = Len(mailbox[i]) /\ DOMAIN mailbox[i] = 1..n
  BY DEF BoxesInOrder, InOrder
<1>5. /\ DOMAIN mailbox'[i] = 1..(n + 1) /\ mailbox'[i][n + 1] = mail
      /\ \A k \in 1..n : mailbox'[i][k] = mailbox[i][k]
  BY <1>3, <1>4 DEF BoxesInOrder, InOrder
<1>6. \A k \in 1..n : mailbox[i][k].id # id
  BY <1>4 DEF StoredOn
<1>7. EachOnce'
  <2> SUFFICES ASSUME NEW d \in Instance_, NEW k \in DOMAIN mailbox'[d],
                      NEW l \in DOMAIN mailbox'[d], mailbox'[d][k].id = mailbox'[d][l].id
               PROVE  k = l
    BY DEF EachOnce
  <2>1. CASE d # i
    BY <1>3, <2>1 DEF EachOnce
  <2>2. CASE d = i
    BY <1>2, <1>4, <1>5, <1>6, <2>2 DEF EachOnce
  <2> QED BY <2>1, <2>2
<1>8. ForSomeone'
  <2> SUFFICES ASSUME NEW d \in Instance_, NEW k \in DOMAIN mailbox'[d]
               PROVE  mailbox'[d][k].from.at = d \/ \E m \in mailbox'[d][k].to : m.at = d
    BY DEF ForSomeone
  <2>1. CASE d # i
    BY <1>3, <2>1 DEF ForSomeone
  <2>2. CASE d = i /\ k = n + 1
    BY <1>2, <1>5, <2>2
  <2>3. CASE d = i /\ k \in 1..n
    BY <1>4, <1>5, <2>3 DEF ForSomeone
  <2> QED BY <1>4, <1>5, <2>1, <2>2, <2>3
<1>9. ASSUME NEW d \in Instance_, NEW e \in Nat, StoredOn(d, e)'
      PROVE  StoredOn(d, e) \/ (d = i /\ e = id)
  <2>1. PICK k \in DOMAIN mailbox'[d] : mailbox'[d][k].id = e
    BY <1>9 DEF StoredOn
  <2>2. CASE d # i
    BY <1>3, <2>1, <2>2 DEF StoredOn
  <2>3. CASE d = i
    BY <1>2, <1>4, <1>5, <2>1, <2>3 DEF StoredOn
  <2> QED BY <2>2, <2>3
<1> QED BY <1>7, <1>8, <1>9

\* A mail with a new id is on no instance.
LEMMA NewIsNowhere ==
    ASSUME MailIInv, NEW i \in Instance_
    PROVE  ~StoredOn(i, mails + 1)
<1>1. ASSUME NEW k \in DOMAIN mailbox[i] PROVE mailbox[i][k].id \in 1..mails
  <2>1. mailbox[i] \in Seq(Stored(mails))
    BY DEF MailIInv, BoxesInOrder, InOrder
  <2>2. mailbox[i][k] \in Stored(mails)
    BY <2>1
  <2> QED BY <2>2 DEF Stored
<1> QED BY <1>1, MailAssumption DEF StoredOn, MailIInv

\* At first there is no mail.
LEMMA MailInitIInv == MailInit => MailIInv
  BY MailAssumption DEF MailInit, MailIInv, BoxesInOrder, InOrder, OnTheirWay, EachOnce, ForSomeone,
     CopiesAhead, PostsAhead, NoPost

\* The deletion of a user's mail deletes nothing: no stored mail is to or from
\* a name without a domain, and such a name is what it is given.
LEMMA DeletionDeletesNothing == MailIInv /\ DeleteUserMail => mailbox' = mailbox
<1> SUFFICES ASSUME MailIInv, DeleteUserMail PROVE mailbox' = mailbox
  OBVIOUS
<1>1. PICK i \in Instance_, u \in MailUser :
         LET name == Deleted(i, u)
             stripped == [k \in DOMAIN mailbox[i] |->
                            [mailbox[i][k] EXCEPT !.to = @ \ {name}]]
             kept == {k \in DOMAIN stripped :
                         stripped[k].to # {} /\ stripped[k].from # name} IN
         mailbox' = [mailbox EXCEPT ![i] = At(stripped, kept)]
  BY DEF DeleteUserMail
<1> DEFINE box == mailbox[i]
           name == Deleted(i, u)
           stripped == [k \in DOMAIN box |-> [box[k] EXCEPT !.to = @ \ {name}]]
           kept == {k \in DOMAIN stripped : stripped[k].to # {} /\ stripped[k].from # name}
<1>2. mailbox' = [mailbox EXCEPT ![i] = At(stripped, kept)]
  BY <1>1
<1>3. box \in Seq(Stored(mails))
  BY DEF MailIInv, BoxesInOrder, InOrder
<1>4. name \notin Sent
  BY MailAssumption DEF Deleted, Sent
<1>5. ASSUME NEW k \in DOMAIN box
      PROVE  [box[k] EXCEPT !.to = @ \ {name}] = box[k] /\ box[k].to # {} /\ box[k].from # name
  <2>1. box[k] \in Stored(mails)
    BY <1>3
  <2>2. box[k].to \ {name} = box[k].to /\ box[k].to # {} /\ box[k].from # name
    BY <1>4, <2>1 DEF Stored
  <2> HIDE DEF box, name
  <2> QED BY <2>1, <2>2 DEF Stored
<1> HIDE DEF name
<1>6. DOMAIN box = 1..Len(box) /\ box = [k \in DOMAIN box |-> box[k]]
  BY <1>3
<1>7. stripped = box
  BY <1>5, <1>6
<1>8. kept = 1..Len(box)
  <2> HIDE DEF box, stripped
  <2>1. \A k \in DOMAIN box : box[k].to # {} /\ box[k].from # name
    BY <1>5
  <2> QED BY <1>6, <1>7, <2>1
<1> HIDE DEF stripped, kept
<1>9. At(stripped, kept) = box
  BY <1>3, <1>7, <1>8, AllKept
<1> QED BY <1>2, <1>9 DEF MailIInv, BoxesInOrder

\* Mail that is posted, copied or deleted is where it should be, once.
LEMMA MailStepIInv == MailIInv /\ [MailNext]_mailVars => MailIInv'
<1> SUFFICES ASSUME MailIInv, [MailNext]_mailVars PROVE MailIInv'
  OBVIOUS
<1> USE MailAssumption DEF MailIInv
<1>1. ASSUME NEW p \in Poster, Post(p) PROVE MailIInv'
  <2>1. PICK i \in Instance_, u \in MailUser, to \in Recipients :
          /\ Pushed(i, mails + 1, [user |-> u, at |-> i], to)
          /\ posting' = [posting EXCEPT ![p] =
                [id |-> mails + 1, on |-> i, away |-> Distributed(i, to, TRUE),
                 from |-> [user |-> u, at |-> i], to |-> to]]
    BY <1>1 DEF Post, Recipients
  <2>2. /\ mails \in Nat /\ mails < MaxMails /\ mails' = mails + 1 /\ mails + 1 \in 1..mails'
        /\ mails' \in 0..MaxMails
        /\ UNCHANGED <<copies, erasedUsers>>
    BY <1>1 DEF Post
  <2>3. [user |-> u, at |-> i] \in Sent
    BY DEF Sent
  <2>4. BoxesInOrder'
    <3> DEFINE mail == [id |-> mails + 1, from |-> [user |-> u, at |-> i],
                        to |-> Completed(i, to), index |-> Len(mailbox[i])]
    <3>1. mailbox' = [mailbox EXCEPT ![i] = Append(@, mail)]
      BY <2>1 DEF Pushed
    <3>2. \A d \in Instance_ : InOrder(mailbox[d], mails')
      BY <2>2, StillInOrder DEF BoxesInOrder
    <3>3. InOrder(Append(mailbox[i], mail), mails')
      BY <2>2, <2>3, <3>2, PushedInOrder
    <3> HIDE DEF mail
    <3> QED BY <3>1, <3>2, <3>3 DEF BoxesInOrder
  <2>0. PICK away : away = Distributed(i, to, TRUE)
    OBVIOUS
  <2>5. PICK posted : posted = [id |-> mails + 1, on |-> i, away |-> away,
                                from |-> [user |-> u, at |-> i], to |-> to]
    OBVIOUS
  <2>6. /\ posting' = [posting EXCEPT ![p] = posted]
        /\ posted.id = mails + 1 /\ posted.to = to /\ posted.away = away
    <3>1. posting' = [posting EXCEPT ![p] =
                [id |-> mails + 1, on |-> i, away |-> away,
                 from |-> [user |-> u, at |-> i], to |-> to]]
      BY <2>0, <2>1, Zenon
    <3> QED BY <2>5, <3>1
  <2>7. /\ posting'[p] = posted
        /\ \A q \in Poster \ {p} : posting'[q] = posting[q]
    BY <2>6 DEF OnTheirWay
  <2>8. away \subseteq Instance_ \ {i} /\ \A d \in away : \E n \in to : n.at = d
    <3>1. \A n \in to : n \in Name
      BY DEF Recipients
    <3>2. ASSUME NEW d \in away
          PROVE  d \in Instance_ \ {i} /\ \E n \in to : n.at = d
      <4>1. PICK n \in to : d = (IF n.at = Bare THEN [n EXCEPT !.at = i] ELSE n).at /\ d # i
        BY <2>0 DEF Distributed, Completed
      <4>2. n \in Name /\ n.at # Bare
        BY <3>1, <4>1 DEF Name
      <4> QED BY <4>1, <4>2 DEF Name
    <3> QED BY <3>2
  <2>9. OnTheirWay'
    <3>1. posted \in Posted(mails')
      BY <2>2, <2>3, <2>5, <2>8 DEF Posted
    <3>2. Posted(mails) \subseteq Posted(mails') /\ Copy(mails) \subseteq Copy(mails')
      BY <2>2 DEF Posted, Copy
    <3> QED BY <2>2, <2>6, <3>1, <3>2 DEF OnTheirWay
  <2>10. /\ EachOnce' /\ ForSomeone'
         /\ \A d \in Instance_, e \in Nat :
               StoredOn(d, e)' => StoredOn(d, e) \/ (d = i /\ e = mails + 1)
    <3>1. ~StoredOn(i, mails + 1) /\ mails + 1 \in Nat
      BY <2>2, NewIsNowhere
    <3> QED BY <2>1, <3>1, PushedOnce
  <2>11. CopiesAhead'
    <3>1. \A c \in copies : c.for \in Instance_ /\ c.id \in Nat /\ c.id # mails + 1
      BY <2>2 DEF OnTheirWay, Copy
    <3> QED BY <2>2, <2>10, <3>1 DEF CopiesAhead
  <2>12. PostsAhead'
    <3>1. \A q \in Poster : posting[q].id \in Nat /\ posting[q].id # mails + 1
                            /\ posting[q].away \subseteq Instance_
      BY <2>2 DEF OnTheirWay, Posted, NoPost
    <3>2. \A c \in copies : c.id # mails + 1
      BY <2>2 DEF OnTheirWay, Copy
    <3>3. \A q \in Poster : \A d \in posting'[q].away :
             /\ \A e : e = posting'[q].id => ~StoredOn(d, e)'
             /\ \E n \in posting'[q].to : n.at = d
      <4> TAKE q \in Poster
      <4>1. CASE q = p
        <5>1. \A d \in away : \A e : e = mails + 1 => ~StoredOn(d, e)'
          <6> TAKE d \in away
          <6>1. d \in Instance_ /\ d # i /\ mails + 1 \in Nat
            BY <2>2, <2>8
          <6>2. ~StoredOn(d, mails + 1)
            BY <6>1, NewIsNowhere
          <6> QED BY <2>10, <6>1, <6>2
        <5> QED BY <2>6, <2>7, <2>8, <4>1, <5>1
      <4>2. CASE q # p
        <5>1. posting'[q] = posting[q]
          BY <2>7, <4>2
        <5>2. \A d \in posting[q].away :
                 d \in Instance_ /\ ~StoredOn(d, posting[q].id) /\ \E n \in posting[q].to : n.at = d
          BY <3>1 DEF PostsAhead
        <5>3. \A d \in posting[q].away : \A e : e = posting[q].id => ~StoredOn(d, e)'
          BY <2>10, <3>1, <5>2
        <5> QED BY <5>1, <5>2, <5>3
      <4> QED BY <4>1, <4>2
    <3>4. \A q \in Poster : \A c \in copies' : c.id # posting'[q].id
      BY <2>2, <2>6, <2>7, <3>2 DEF PostsAhead
    <3>5. \A q, r \in Poster : posting'[q].id = posting'[r].id /\ posting'[q].id # 0 => q = r
      BY <2>6, <2>7, <3>1 DEF PostsAhead
    <3> QED BY <3>3, <3>4, <3>5 DEF PostsAhead
  <2> QED BY <2>2, <2>4, <2>9, <2>10, <2>11, <2>12
<1>2. ASSUME NEW p \in Poster, PostEnds(p) PROVE MailIInv'
  <2>1. /\ posting' = [posting EXCEPT ![p] = NoPost]
        /\ UNCHANGED <<mailbox, copies, mails, erasedUsers>>
    BY <1>2 DEF PostEnds
  <2>2. \A q \in Poster : posting'[q] = posting[q] \/ posting'[q] = NoPost
    BY <2>1 DEF OnTheirWay
  <2>3. PostsAhead'
    <3>1. \A c \in copies : c.id # 0
      BY DEF OnTheirWay, Copy
    <3> QED BY <2>1, <2>2, <3>1 DEF PostsAhead, StoredOn, NoPost
  <2>4. BoxesInOrder' /\ OnTheirWay'
    BY <2>1 DEF BoxesInOrder, OnTheirWay
  <2>5. EachOnce' /\ ForSomeone' /\ CopiesAhead'
    BY <2>1 DEF EachOnce, ForSomeone, CopiesAhead, StoredOn
  <2> QED BY <2>1, <2>3, <2>4, <2>5
<1>3. ASSUME NEW p \in Poster, PostAway(p) PROVE MailIInv'
  <2>1. posting[p] \in Posted(mails)
    BY <1>3 DEF PostAway, OnTheirWay, NoPost
  <2>2. PICK i \in Instance_ : i = posting[p].on
    BY <2>1 DEF Posted
  <2>3. /\ mailbox' = [mailbox EXCEPT ![i] = <<>>]
        /\ posting' = [q \in Poster |-> IF posting[q].on = i THEN NoPost ELSE posting[q]]
        /\ UNCHANGED <<mails, erasedUsers>>
    BY <1>3, <2>2 DEF PostAway, MailEnds
  <2>4. PICK d \in posting[p].away :
           copies' \subseteq copies \cup {[id |-> posting[p].id, for |-> d,
                                           from |-> posting[p].from, to |-> posting[p].to]}
    BY <1>3 DEF PostAway
  <2>5. PICK copy : copy = [id |-> posting[p].id, for |-> d,
                            from |-> posting[p].from, to |-> posting[p].to]
    OBVIOUS
  <2>6. /\ copies' \subseteq copies \cup {copy}
        /\ copy.id = posting[p].id /\ copy.for = d /\ copy.to = posting[p].to
        /\ copy \in Copy(mails)
    BY <2>1, <2>4, <2>5 DEF Posted, Copy
  <2>7. BoxesInOrder'
    <3>1. InOrder(<<>>, mails)
      BY DEF InOrder
    <3> QED BY <2>3, <3>1 DEF BoxesInOrder
  <2>8. OnTheirWay'
    BY <2>3, <2>6 DEF OnTheirWay
  <2>9. /\ \A e \in Instance_ \ {i} : mailbox'[e] = mailbox[e]
        /\ mailbox'[i] = <<>>
    BY <2>3 DEF BoxesInOrder
  <2>10. EachOnce' /\ ForSomeone'
    <3>1. EachOnce'
      BY <2>9 DEF EachOnce
    <3>2. ForSomeone'
      BY <2>9 DEF ForSomeone
    <3> QED BY <3>1, <3>2
  <2>11. \A e \in Instance_ : \A id : StoredOn(e, id)' => StoredOn(e, id)
    BY <2>9 DEF StoredOn
  <2>12. CopiesAhead'
    <3>1. ~StoredOn(d, posting[p].id) /\ \E n \in posting[p].to : n.at = d
      BY DEF PostsAhead
    <3>2. \A c \in copies : c.for \in Instance_ /\ c.id # copy.id
      BY <2>6 DEF OnTheirWay, Copy, PostsAhead
    <3>3. \A c \in copies' : c = copy \/ c \in copies
      BY <2>6
    <3>4. copy.for \in Instance_
      BY <2>6 DEF Copy
    <3>5. ASSUME NEW c \in copies' PROVE ~StoredOn(c.for, c.id)' /\ \E n \in c.to : n.at = c.for
      <4>1. CASE c = copy
        BY <2>6, <2>11, <3>1, <3>4, <4>1
      <4>2. CASE c \in copies
        BY <2>11, <3>2, <4>2 DEF CopiesAhead
      <4> QED BY <3>3, <4>1, <4>2
    <3>6. \A c, e \in copies' : c.id = e.id => c = e
      BY <3>2, <3>3 DEF CopiesAhead
    <3> QED BY <3>5, <3>6 DEF CopiesAhead
  <2>13. PostsAhead'
    <3>1. \A q \in Poster : posting'[q] = NoPost \/ (posting'[q] = posting[q] /\ q # p)
      BY <2>2, <2>3
    <3>2. posting[p].id # 0
      BY <2>1 DEF Posted
    <3>3. \A q \in Poster : posting[q].away \subseteq Instance_
      BY DEF OnTheirWay, Posted, NoPost
    <3>4. \A c \in copies' : c.id # 0
      BY <2>6, <3>2 DEF OnTheirWay, Copy
    <3>5. \A q \in Poster : \A e \in posting'[q].away :
             /\ \A id : id = posting'[q].id => ~StoredOn(e, id)'
             /\ \E n \in posting'[q].to : n.at = e
      BY <2>11, <3>1, <3>3 DEF PostsAhead, NoPost
    <3>6. \A q \in Poster : \A c \in copies' : c.id # posting'[q].id
      <4> TAKE q \in Poster
      <4> TAKE c \in copies'
      <4>1. CASE posting'[q] = NoPost
        BY <3>4, <4>1 DEF NoPost
      <4>2. CASE posting'[q] = posting[q] /\ q # p
        BY <2>6, <3>2, <4>2 DEF PostsAhead
      <4> QED BY <3>1, <4>1, <4>2
    <3>7. \A q, r \in Poster : posting'[q].id = posting'[r].id /\ posting'[q].id # 0 => q = r
      BY <3>1 DEF PostsAhead, NoPost
    <3> QED BY <3>5, <3>6, <3>7 DEF PostsAhead
  <2> QED BY <2>3, <2>7, <2>8, <2>10, <2>12, <2>13
<1>4. CASE CopyArrives
  <2>1. PICK c \in copies : Pushed(c.for, c.id, c.from, c.to) /\ copies' = copies \ {c}
    BY <1>4 DEF CopyArrives, Distributed
  <2>2. /\ c.for \in Instance_ /\ c.id \in 1..mails /\ c.from \in Sent /\ c.to \in Recipients
        /\ mails \in Nat /\ UNCHANGED <<posting, mails, erasedUsers>>
    BY <1>4, <2>1 DEF CopyArrives, OnTheirWay, Copy
  <2>3. BoxesInOrder'
    <3> DEFINE mail == [id |-> c.id, from |-> c.from,
                        to |-> Completed(c.for, c.to), index |-> Len(mailbox[c.for])]
    <3>1. mailbox' = [mailbox EXCEPT ![c.for] = Append(@, mail)]
      BY <2>1 DEF Pushed
    <3>2. InOrder(Append(mailbox[c.for], mail), mails)
      BY <2>2, PushedInOrder DEF BoxesInOrder
    <3> HIDE DEF mail
    <3> QED BY <2>2, <3>1, <3>2 DEF BoxesInOrder
  <2>4. OnTheirWay'
    BY <2>1, <2>2 DEF OnTheirWay
  <2>5. \E n \in Completed(c.for, c.to) : n.at = c.for
    <3>1. PICK n \in c.to : n.at = c.for
      BY DEF CopiesAhead
    <3>2. n.at # Bare
      BY <2>2, <3>1
    <3> QED BY <3>1, <3>2 DEF Completed
  <2>6. /\ EachOnce' /\ ForSomeone'
        /\ \A d \in Instance_, e \in Nat :
              StoredOn(d, e)' => StoredOn(d, e) \/ (d = c.for /\ e = c.id)
    <3>1. ~StoredOn(c.for, c.id) /\ c.id \in Nat
      BY <2>2 DEF CopiesAhead
    <3> QED BY <2>1, <2>2, <2>5, <3>1, PushedOnce
  <2>7. CopiesAhead'
    <3>1. \A b \in copies' : b \in copies /\ b.id # c.id /\ b.for \in Instance_ /\ b.id \in Nat
      BY <2>1 DEF CopiesAhead, OnTheirWay, Copy
    <3> QED BY <2>6, <3>1 DEF CopiesAhead
  <2>8. PostsAhead'
    <3>1. \A q \in Poster : posting[q].id # c.id /\ posting[q].id \in Nat
                            /\ posting[q].away \subseteq Instance_
      BY <2>2 DEF PostsAhead, OnTheirWay, Posted, NoPost
    <3> QED BY <2>1, <2>2, <2>6, <3>1 DEF PostsAhead
  <2> QED BY <2>2, <2>3, <2>4, <2>6, <2>7, <2>8
<1>5. CASE DeleteUserMail
  <2>1. mailbox' = mailbox
    BY <1>5, DeletionDeletesNothing
  <2>2. /\ UNCHANGED <<posting, copies, mails>>
        /\ erasedUsers' \subseteq [user : MailUser, on : Instance_]
    BY <1>5 DEF DeleteUserMail
  <2>3. BoxesInOrder' /\ OnTheirWay'
    BY <2>1, <2>2 DEF BoxesInOrder, OnTheirWay
  <2> QED BY <2>1, <2>2, <2>3 DEF EachOnce, ForSomeone, CopiesAhead, PostsAhead, StoredOn
<1>6. CASE UNCHANGED mailVars
  <2>1. UNCHANGED <<mailbox, posting, copies, mails, erasedUsers>>
    BY <1>6 DEF mailVars
  <2>2. BoxesInOrder' /\ OnTheirWay'
    BY <2>1 DEF BoxesInOrder, OnTheirWay
  <2> QED BY <2>1, <2>2 DEF EachOnce, ForSomeone, CopiesAhead, PostsAhead, StoredOn
<1> QED BY <1>1, <1>2, <1>3, <1>4, <1>5, <1>6 DEF MailNext

\* So it holds of every state of the mailboxes.
LEMMA MailInvariant == MailSpec => []MailIInv
  BY MailInitIInv, MailStepIInv, PTL DEF MailSpec

\* No mail is stored twice on an instance, or on one that has neither its sender nor
\* anybody it names.
THEOREM MailStoredOnce == MailSpec => []StoredOnce
<1>1. MailIInv => StoredOnce
  <2> SUFFICES ASSUME MailIInv PROVE StoredOnce
    OBVIOUS
  <2>1. ASSUME NEW i \in Instance_, NEW m \in Range(mailbox[i])
        PROVE  /\ m.id \in 1..MaxMails /\ m.from \in Name /\ m.to \subseteq Name /\ m.index \in Nat
               /\ m.from.at = i \/ \E n \in m.to : n.at = i
    <3>1. PICK k \in DOMAIN mailbox[i] : m = mailbox[i][k]
      BY DEF Range
    <3>2. m \in Stored(mails)
      BY <3>1 DEF MailIInv, BoxesInOrder, InOrder
    <3>3. m.from.at = i \/ \E n \in m.to : n.at = i
      BY <3>1 DEF MailIInv, ForSomeone
    <3> QED BY <3>2, <3>3, MailAssumption DEF Stored, MailIInv, Sent, Name
  <2>2. \A p \in Poster : posting[p].id \in 0..mails
    BY DEF MailIInv, OnTheirWay, Posted, NoPost
  <2> QED BY <2>1, <2>2 DEF StoredOnce, MailTypeOK, MailIInv, EachOnce
<1> QED BY <1>1, MailInvariant, PTL

(***************************************************************************)
(* The static mod (Static).                                                *)
(***************************************************************************)

\* What is there is in a directory.
TreeOK(tree) ==
    /\ tree \in [Place -> Kinds]
    /\ \A p \in Place : p # <<>> /\ tree[p] # "none" => Node(tree, Front(p)) = "dir"

IsFile(tree, place, i) == Node(tree, IndexAt(tree, place, i)) = "file"

Led(v) == \E a, b \in v.led : a.path # b.path
Gives(v, status, file) == \E a \in v.led : a.status = status /\ a.file = file

\* A visit that has found where its path leads.
Looked(v) ==
    /\ \A a \in v.led : a.path = v.path
    /\ ~(Len(v.url) >= MaxPath) /\ IsPrefix(StaticRoot, v.path)
    /\ v.place = Follow(Links(disk), v.path)

InTree(place) == place = <<>> \/ place \in Place

\* A tree of one moment of the visit had the directory, with none of the names tried; the
\* names still to try are in it as they are now.
Before(v, T) ==
    /\ Links(T) = Links(disk) /\ LedTo(T, v.url) \in v.led
    /\ Node(T, v.place) = "dir"
    /\ \A j \in 1..(v.index - 1) : ~IsFile(T, v.place, j)
    /\ T = disk \/ /\ changes > v.since
                   /\ \A j \in v.index..Len(settings.index) :
                         IsFile(T, v.place, j) <=> IsFile(disk, v.place, j)

Raced(v) == changes - v.since > 1 /\ settings.index # <<>>

InDirectory(v) ==
    /\ InTree(v.place)
    /\ Node(disk, v.place) # "dir" => Gives(v, 404, Nowhere)
    /\ Raced(v) \/ \E T \in [Place -> Kinds] : Before(v, T)

Answered(v) ==
    \/ Gives(v, v.status, v.file)
    \/ v.status = 500 /\ \E a, b \in v.led : a # b
    \/ changes - v.since > 1 /\ v.index > 1
    \/ Led(v)

VisitOK(v) ==
    /\ v.pc \notin {"idle", "done"} => LedTo(disk, v.url) \in v.led
    /\ v.pc \notin {"index", "list", "open", "done"} => v.index = 1
    /\ v.pc = "resolve" => ~(Len(v.url) >= MaxPath)
    /\ v.pc \in {"exists", "kind", "regular", "index", "list"} => Led(v) \/ Looked(v)
    /\ v.pc = "regular" => Led(v) \/ Node(disk, v.place) # "dir" \/ Gives(v, 404, Nowhere)
    /\ v.pc \in {"index", "list"} => Led(v) \/ InDirectory(v)
    /\ v.pc = "list" => settings.list /\ v.index = Len(settings.index) + 1
    /\ v.pc = "open" => Led(v) \/ Gives(v, 200, v.place) \/ (changes - v.since > 1 /\ v.index > 1)
    /\ v.pc = "done" /\ ~settings.slash => Answered(v)

VisitStep == {"idle", "missing", "decode", "resolve", "exists", "kind", "index", "list", "regular",
         "open", "done"}

\* The fields of a visit.
IsVisit(v) ==
    /\ v = [pc |-> v.pc, url |-> v.url, path |-> v.path, place |-> v.place, index |-> v.index,
            status |-> v.status, file |-> v.file, led |-> v.led, since |-> v.since]
    /\ v.pc \in VisitStep /\ v.status \in {0, 200, 400, 403, 404, 500}
    /\ v.index \in 1..(Len(settings.index) + 1)
    /\ v.since \in 0..changes

SettingsOK ==
    /\ settings.index \in {<<>>, DefaultIndex}
    /\ settings.list \in BOOLEAN /\ settings.slash \in BOOLEAN

StaticIInv ==
    /\ StaticTypeOK /\ TreeOK(disk) /\ SettingsOK
    /\ staticUp = "down" => visit = [t \in Visitor |-> NoVisit]
    /\ visit = [t \in Visitor |-> visit[t]]
    /\ \A t \in Visitor : IsVisit(visit[t]) /\ VisitOK(visit[t])

-----------------------------------------------------------------------------

\* The names for an index are not "..", and no two are the same.
LEMMA IndexNames ==
    ASSUME SettingsOK
    PROVE  /\ Len(settings.index) \in Nat
           /\ settings.index # <<>> => Len(settings.index) >= 1
           /\ settings.index = <<>> => Len(settings.index) = 0
           /\ \A i \in 1..Len(settings.index) :
                 settings.index[i] # ".."
           /\ \A i, j \in 1..Len(settings.index) :
                 i # j => settings.index[i] # settings.index[j]
<1>1. CASE settings.index = <<>>
  BY <1>1
<1>2. CASE settings.index = DefaultIndex
  <2>1. Len(settings.index) = 3 /\ settings.index # <<>>
    BY <1>2 DEF DefaultIndex
  <2>2. /\ settings.index[1] = "index.html" /\ settings.index[2] = "index.htm"
        /\ settings.index[3] = "index.xhtml"
    BY <1>2 DEF DefaultIndex
  <2>3. \A i \in 1..Len(settings.index) : i = 1 \/ i = 2 \/ i = 3
    BY <2>1
  <2> DEFINE names == settings.index
  <2>5. \A i \in 1..Len(names) : names[i] \in {"index.html", "index.htm", "index.xhtml"}
    BY <2>2, <2>3
  <2>6. \A i \in 1..Len(names) : names[i] # ".."
    BY <2>5
  <2>7. \A i, j \in 1..Len(names) : i # j => names[i] # names[j]
    BY <2>2, <2>3
  <2>8. Len(names) \in Nat /\ Len(names) >= 1 /\ names # <<>>
    BY <2>1
  <2> QED BY <2>6, <2>7, <2>8
<1> QED BY <1>1, <1>2 DEF SettingsOK

\* A name in a directory.
LEMMA NameIn ==
    ASSUME NEW S, NEW s \in Seq(S), NEW e
    PROVE  /\ Append(s, e) # <<>> /\ Front(Append(s, e)) = s
           /\ \A d : d # e => Append(s, d) # Append(s, e)
<1>1. \A d : /\ Append(s, d) # <<>> /\ Len(Append(s, d)) = Len(s) + 1
             /\ Append(s, d)[Len(s) + 1] = d
  <2> TAKE d
  <2>1. s \in Seq(S \cup {d})
    OBVIOUS
  <2> QED BY <2>1, AppendProperties
<1>2. SubSeq(Append(s, e), 1, Len(s)) = s
  OBVIOUS
<1>3. Len(s) \in Nat
  BY LenProperties
<1>4. Len(s) + 1 - 1 = Len(s)
  BY <1>3
<1>5. Append(s, e) # <<>> /\ Front(Append(s, e)) = s
  BY <1>1, <1>2, <1>4 DEF Front
<1> QED BY <1>1, <1>5

\* The place of an index: the name in the directory, or where a link of that name leads.
LEMMA IndexPlace ==
    ASSUME SettingsOK, NEW tree, NEW place, InTree(place), NEW i \in 1..Len(settings.index)
    PROVE  /\ Front(Append(place, settings.index[i])) = place
           /\ Append(place, settings.index[i]) # <<>>
           /\ \A j \in 1..Len(settings.index) :
                 j # i => Append(place, settings.index[j]) # Append(place, settings.index[i])
           /\ Append(place, settings.index[i]) \in Links(tree) =>
                 IndexAt(tree, place, i) = LinkTo[Append(place, settings.index[i])]
           /\ Append(place, settings.index[i]) \notin Links(tree) =>
                 IndexAt(tree, place, i) = Append(place, settings.index[i])
<1>1. place \in Seq(STRING)
  <2>1. <<>> \in Seq(STRING) /\ Place \subseteq Seq(STRING)
    BY StaticAssumption, EmptySeq
  <2> QED BY <2>1 DEF InTree
<1>2. settings.index[i] # ".."
  BY IndexNames
<1>3. /\ Front(Append(place, settings.index[i])) = place
      /\ Append(place, settings.index[i]) # <<>>
      /\ \A j \in 1..Len(settings.index) :
            j # i => Append(place, settings.index[j]) # Append(place, settings.index[i])
  BY <1>1, NameIn, IndexNames
<1>4. /\ Append(place, settings.index[i]) \in Links(tree) =>
            IndexAt(tree, place, i) = LinkTo[Append(place, settings.index[i])]
      /\ Append(place, settings.index[i]) \notin Links(tree) =>
            IndexAt(tree, place, i) = Append(place, settings.index[i])
  BY <1>2 DEF IndexAt, Enter_
<1> QED BY <1>3, <1>4

\* An index is in a directory.
LEMMA IndexIsIn ==
    ASSUME SettingsOK, NEW tree, TreeOK(tree), NEW place, InTree(place),
           NEW i \in 1..Len(settings.index), IsFile(tree, place, i)
    PROVE  Node(tree, place) = "dir"
<1> DEFINE p == Append(place, settings.index[i])
<1>1. p # <<>> /\ Front(p) = place
  BY IndexPlace
<1>2. CASE p \in Links(tree)
  <2>1. p \in Place /\ tree[p] # "none"
    BY <1>2 DEF Links
  <2> HIDE DEF p
  <2> QED BY <1>1, <2>1 DEF TreeOK
<1>3. CASE p \notin Links(tree)
  <2>1. IndexAt(tree, place, i) = p
    BY <1>3, IndexPlace
  <2> HIDE DEF p
  <2>2. p \in Place /\ tree[p] # "none"
    BY <2>1, <1>1 DEF IsFile, Node
  <2> QED BY <1>1, <2>2 DEF TreeOK
<1> QED BY <1>2, <1>3

\* What LedTo gives for a url whose path leads to a place.
LEMMA AnswerFor ==
    ASSUME SettingsOK, NEW tree, NEW url, NEW p, NEW place, ~(Len(url) >= MaxPath),
           LedTo(tree, url).path = p, IsPrefix(StaticRoot, p),
           place = Follow(Links(tree), p)
    PROVE  LET a == LedTo(tree, url) IN
           /\ Node(tree, place) = "file" => a.status = 200 /\ a.file = place
           /\ Node(tree, place) \notin {"file", "dir"} => a.status = 404 /\ a.file = Nowhere
           /\ Node(tree, place) = "dir"
              /\ (\A i \in 1..Len(settings.index) : ~IsFile(tree, place, i)) =>
                 /\ settings.list => a.status = 200 /\ a.file = place
                 /\ ~settings.list => a.status = 404 /\ a.file = Nowhere
           /\ \A i \in 1..Len(settings.index) :
                 Node(tree, place) = "dir" /\ IsFile(tree, place, i)
                 /\ (\A j \in 1..(i - 1) : ~IsFile(tree, place, j)) =>
                    a.status = 200 /\ a.file = IndexAt(tree, place, i)
<1> DEFINE q == WeaklyCanonical(tree, StaticRoot \o Decoded(url))
           spot == Follow(Links(tree), q)
           found == {i \in DOMAIN settings.index : Node(tree, IndexAt(tree, spot, i)) = "file"}
           first == CHOOSE i \in found : \A j \in found : i <= j
           a == LedTo(tree, url)
<1>1. a = IF Len(url) >= MaxPath THEN Answer_(q, 400, Nowhere)
          ELSE IF ~IsPrefix(StaticRoot, q) THEN Answer_(q, 403, Nowhere)
          ELSE IF Node(tree, spot) = "file" THEN Answer_(q, 200, spot)
          ELSE IF Node(tree, spot) # "dir" THEN Answer_(q, 404, Nowhere)
          ELSE IF found # {} THEN Answer_(q, 200, IndexAt(tree, spot, first))
          ELSE IF settings.list THEN Answer_(q, 200, spot)
          ELSE Answer_(q, 404, Nowhere)
  BY DEF LedTo
<1>2. \A x, s, f : /\ Answer_(x, s, f).path = x /\ Answer_(x, s, f).status = s
                   /\ Answer_(x, s, f).file = f
  BY DEF Answer_
<1> HIDE DEF q, first, found, spot, a
<1>3. a.path = q
  BY <1>1, <1>2
<1>4. q = p
  BY <1>3 DEF a
<1>5. spot = place
  BY <1>4 DEF spot
<1>6. /\ Node(tree, place) = "file" => a.status = 200 /\ a.file = place
      /\ Node(tree, place) \notin {"file", "dir"} => a.status = 404 /\ a.file = Nowhere
  BY <1>1, <1>2, <1>4, <1>5
<1>7. DOMAIN settings.index = 1..Len(settings.index)
  BY DEF SettingsOK, DefaultIndex
<1>8. found = {i \in 1..Len(settings.index) : IsFile(tree, place, i)}
  BY <1>5, <1>7 DEF found, IsFile
<1>9. ASSUME Node(tree, place) = "dir",
             \A i \in 1..Len(settings.index) : ~IsFile(tree, place, i)
      PROVE  /\ settings.list => a.status = 200 /\ a.file = place
             /\ ~settings.list => a.status = 404 /\ a.file = Nowhere
  <2>1. found = {}
    BY <1>8, <1>9
  <2> QED BY <1>1, <1>2, <1>4, <1>5, <1>9, <2>1
<1>10. ASSUME NEW i \in 1..Len(settings.index), Node(tree, place) = "dir",
              IsFile(tree, place, i), \A j \in 1..(i - 1) : ~IsFile(tree, place, j)
       PROVE  a.status = 200 /\ a.file = IndexAt(tree, place, i)
  <2>1. i \in found /\ found # {}
    BY <1>8, <1>10
  <2>2. Len(settings.index) \in Nat
    BY IndexNames
  <2>3. \A j \in found : i <= j
    BY <1>8, <1>10, <2>2
  <2>4. first \in found /\ \A j \in found : first <= j
    BY <2>1, <2>3 DEF first
  <2>5. found \subseteq Int
    BY <1>8
  <2>6. first = i
    BY <2>1, <2>3, <2>4, <2>5
  <2> QED BY <1>1, <1>2, <1>4, <1>5, <1>10, <2>1, <2>6
<1> QED BY <1>6, <1>9, <1>10 DEF a

\* The path of what LedTo gives, also where there is no place to look at.
LEMMA AnswerPath ==
    ASSUME NEW tree, NEW url
    PROVE  LET a == LedTo(tree, url)
               p == WeaklyCanonical(tree, StaticRoot \o Decoded(url)) IN
           /\ a.path = p
           /\ Len(url) >= MaxPath => a.status = 400 /\ a.file = Nowhere
           /\ ~(Len(url) >= MaxPath) /\ ~IsPrefix(StaticRoot, p) =>
                 a.status = 403 /\ a.file = Nowhere
<1> DEFINE q == WeaklyCanonical(tree, StaticRoot \o Decoded(url))
           spot == Follow(Links(tree), q)
           found == {i \in DOMAIN settings.index : Node(tree, IndexAt(tree, spot, i)) = "file"}
           first == CHOOSE i \in found : \A j \in found : i <= j
           a == LedTo(tree, url)
<1>1. a = IF Len(url) >= MaxPath THEN Answer_(q, 400, Nowhere)
          ELSE IF ~IsPrefix(StaticRoot, q) THEN Answer_(q, 403, Nowhere)
          ELSE IF Node(tree, spot) = "file" THEN Answer_(q, 200, spot)
          ELSE IF Node(tree, spot) # "dir" THEN Answer_(q, 404, Nowhere)
          ELSE IF found # {} THEN Answer_(q, 200, IndexAt(tree, spot, first))
          ELSE IF settings.list THEN Answer_(q, 200, spot)
          ELSE Answer_(q, 404, Nowhere)
  BY DEF LedTo
<1>2. \A x, s, f : /\ Answer_(x, s, f).path = x /\ Answer_(x, s, f).status = s
                   /\ Answer_(x, s, f).file = f
  BY DEF Answer_
<1> HIDE DEF q, first, found, spot, a
<1>3. /\ a.path = q
      /\ Len(url) >= MaxPath => a.status = 400 /\ a.file = Nowhere
      /\ ~(Len(url) >= MaxPath) /\ ~IsPrefix(StaticRoot, q) => a.status = 403 /\ a.file = Nowhere
  BY <1>1, <1>2
<1> QED BY <1>3 DEF a, q

\* What is sent is there.
LEMMA AnswerThere ==
    ASSUME SettingsOK, NEW tree, NEW url, LedTo(tree, url).status = 200
    PROVE  Node(tree, LedTo(tree, url).file) \in {"file", "dir"}
<1> DEFINE q == WeaklyCanonical(tree, StaticRoot \o Decoded(url))
           spot == Follow(Links(tree), q)
           found == {i \in DOMAIN settings.index : Node(tree, IndexAt(tree, spot, i)) = "file"}
           first == CHOOSE i \in found : \A j \in found : i <= j
           a == LedTo(tree, url)
<1>1. a = IF Len(url) >= MaxPath THEN Answer_(q, 400, Nowhere)
          ELSE IF ~IsPrefix(StaticRoot, q) THEN Answer_(q, 403, Nowhere)
          ELSE IF Node(tree, spot) = "file" THEN Answer_(q, 200, spot)
          ELSE IF Node(tree, spot) # "dir" THEN Answer_(q, 404, Nowhere)
          ELSE IF found # {} THEN Answer_(q, 200, IndexAt(tree, spot, first))
          ELSE IF settings.list THEN Answer_(q, 200, spot)
          ELSE Answer_(q, 404, Nowhere)
  BY DEF LedTo
<1>2. \A x, s, f : /\ Answer_(x, s, f).path = x /\ Answer_(x, s, f).status = s
                   /\ Answer_(x, s, f).file = f
  BY DEF Answer_
<1>3. found \subseteq {1, 2, 3}
  BY DEF SettingsOK, DefaultIndex
<1>4. \A i \in found : Node(tree, IndexAt(tree, spot, i)) = "file"
  OBVIOUS
<1>5. ASSUME found # {} PROVE first \in found
  <2> HIDE DEF found
  <2>1. \E i \in found : \A j \in found : i <= j
    <3>1. CASE 1 \in found
      BY <1>3, <3>1
    <3>2. CASE 1 \notin found /\ 2 \in found
      BY <1>3, <3>2
    <3>3. CASE 1 \notin found /\ 2 \notin found
      <4>1. \A i \in found : i = 3
        BY <1>3, <3>3
      <4>2. PICK i : i \in found
        BY <1>5
      <4>3. \A j \in found : i <= j
        BY <4>1, <4>2
      <4> QED BY <4>2, <4>3
    <3> QED BY <3>1, <3>2, <3>3
  <2> QED BY <2>1
<1>6. a.status = 200
  OBVIOUS
<1> HIDE DEF q, first, found, spot, a
<1> QED BY <1>1, <1>2, <1>4, <1>5, <1>6 DEF a

-----------------------------------------------------------------------------
(* A visitor's own steps: the visit becomes w.                             *)

\* What a step to another line leaves alone.
SameView(w, v) ==
    /\ w.url = v.url /\ w.path = v.path /\ w.place = v.place /\ w.index = v.index
    /\ w.led = v.led /\ w.since = v.since

\* What is seen so far is the same.
LEMMA SeenSame ==
    ASSUME NEW v, NEW w, SameView(w, v)
    PROVE  /\ Led(w) <=> Led(v)
           /\ \A status, file : Gives(w, status, file) <=> Gives(v, status, file)
           /\ Looked(w) <=> Looked(v)
           /\ Raced(w) <=> Raced(v)
           /\ InDirectory(w) <=> InDirectory(v)
<1>1. Led(w) <=> Led(v)
  BY DEF SameView, Led
<1>2. \A status, file : Gives(w, status, file) <=> Gives(v, status, file)
  BY DEF SameView, Gives
<1>3. Looked(w) <=> Looked(v)
  BY DEF SameView, Looked
<1>4. Raced(w) <=> Raced(v)
  BY DEF SameView, Raced
<1>5. \A T : Before(w, T) <=> Before(v, T)
  BY DEF SameView, Before
<1>6. InDirectory(w) <=> InDirectory(v)
  BY <1>2, <1>4, <1>5 DEF SameView, InDirectory
<1> QED BY <1>1, <1>2, <1>3, <1>4, <1>6

\* A step to another line.
LEMMA Moved ==
    ASSUME NEW v, IsVisit(v), NEW pc \in VisitStep, NEW w, w = [v EXCEPT !.pc = pc]
    PROVE  IsVisit(w) /\ w.pc = pc /\ SameView(w, v)
<1>1. /\ w.pc = pc /\ w.status = v.status /\ w.file = v.file /\ w.url = v.url
      /\ w.path = v.path /\ w.place = v.place /\ w.index = v.index
      /\ w.led = v.led /\ w.since = v.since
      /\ w = [pc |-> w.pc, url |-> w.url, path |-> w.path, place |-> w.place, index |-> w.index,
              status |-> w.status, file |-> w.file, led |-> w.led, since |-> w.since]
  BY DEF IsVisit
<1>2. SameView(w, v)
  BY <1>1 DEF SameView
<1>3. IsVisit(w)
  <2> USE <1>1
  <2>1. w.pc \in VisitStep /\ w.status \in {0, 200, 400, 403, 404, 500}
    BY DEF IsVisit
  <2>2. w.index \in 1..(Len(settings.index) + 1) /\ w.since \in 0..changes
    BY DEF IsVisit
  <2> QED BY <2>1, <2>2 DEF IsVisit
<1> QED BY <1>1, <1>2, <1>3

Replies(v, status, file) == [v EXCEPT !.pc = "done", !.status = status, !.file = file]

\* The end of a request.
LEMMA Replied ==
    ASSUME NEW v, IsVisit(v), NEW status \in {200, 400, 403, 404, 500}, NEW file,
           NEW w, w = Replies(v, status, file)
    PROVE  IsVisit(w) /\ w.pc = "done" /\ w.status = status /\ w.file = file /\ SameView(w, v)
<1>1. /\ w.pc = "done" /\ w.status = status /\ w.file = file /\ w.url = v.url
      /\ w.path = v.path /\ w.place = v.place /\ w.index = v.index
      /\ w.led = v.led /\ w.since = v.since
      /\ w = [pc |-> w.pc, url |-> w.url, path |-> w.path, place |-> w.place, index |-> w.index,
              status |-> w.status, file |-> w.file, led |-> w.led, since |-> w.since]
  BY DEF IsVisit, Replies
<1>2. SameView(w, v)
  BY <1>1 DEF SameView
<1>3. IsVisit(w)
  <2> USE <1>1
  <2>1. w.pc \in VisitStep /\ w.status \in {0, 200, 400, 403, 404, 500}
    BY DEF IsVisit, VisitStep
  <2>2. w.index \in 1..(Len(settings.index) + 1) /\ w.since \in 0..changes
    BY DEF IsVisit
  <2> QED BY <2>1, <2>2 DEF IsVisit
<1> QED BY <1>1, <1>2, <1>3

\* What holds when a visitor takes a step.
Visiting(v) == SettingsOK /\ TreeOK(disk) /\ IsVisit(v) /\ VisitOK(v)

\* The tree as it is now has an answer that is right.
LEMMA NowRight ==
    ASSUME NEW v, VisitOK(v), v.pc \notin {"idle", "done"}
    PROVE  LedTo(disk, v.url) \in v.led
BY DEF VisitOK

\* What is right for the tree as it is now, once the path is known.
LEMMA LookedRight ==
    ASSUME NEW v, Visiting(v), v.pc \notin {"idle", "done"}, Looked(v), ~Led(v)
    PROVE  /\ Node(disk, v.place) = "file" => Gives(v, 200, v.place)
           /\ Node(disk, v.place) \notin {"file", "dir"} => Gives(v, 404, Nowhere)
<1> DEFINE a == LedTo(disk, v.url)
<1>1. a \in v.led
  BY NowRight DEF Visiting
<1>2. /\ a.path = v.path /\ IsPrefix(StaticRoot, v.path) /\ ~(Len(v.url) >= MaxPath)
      /\ v.place = Follow(Links(disk), v.path)
  BY <1>1 DEF Looked
<1>3. /\ Node(disk, v.place) = "file" => a.status = 200 /\ a.file = v.place
      /\ Node(disk, v.place) \notin {"file", "dir"} => a.status = 404 /\ a.file = Nowhere
  BY <1>2, AnswerFor DEF Visiting
<1> QED BY <1>1, <1>3 DEF Gives

\* What is right for a tree that had the directory and none of the names tried so far.
LEMMA BeforeRight ==
    ASSUME NEW v, Visiting(v), v.pc \in {"index", "list"}, Looked(v),
           NEW T, Before(v, T)
    PROVE  /\ v.index = Len(settings.index) + 1 =>
                 /\ settings.list => Gives(v, 200, v.place)
                 /\ ~settings.list => Gives(v, 404, Nowhere)
           /\ v.index \in 1..Len(settings.index) /\ IsFile(T, v.place, v.index) =>
                 Gives(v, 200, IndexAt(disk, v.place, v.index))
<1> DEFINE a == LedTo(T, v.url)
<1>1. a \in v.led /\ Node(T, v.place) = "dir" /\ Links(T) = Links(disk)
  BY DEF Before
<1>2. /\ a.path = v.path /\ IsPrefix(StaticRoot, v.path) /\ ~(Len(v.url) >= MaxPath)
      /\ v.place = Follow(Links(T), v.path)
  BY <1>1 DEF Looked
<1>3. \A j \in 1..(v.index - 1) : ~IsFile(T, v.place, j)
  BY DEF Before
<1>4. ASSUME v.index = Len(settings.index) + 1
      PROVE  /\ settings.list => Gives(v, 200, v.place)
             /\ ~settings.list => Gives(v, 404, Nowhere)
  <2>1. Len(settings.index) \in Nat
    BY IndexNames DEF Visiting
  <2>2. v.index - 1 = Len(settings.index)
    BY <1>4, <2>1
  <2>3. \A j \in 1..Len(settings.index) : ~IsFile(T, v.place, j)
    BY <1>3, <2>2
  <2>4. /\ settings.list => a.status = 200 /\ a.file = v.place
        /\ ~settings.list => a.status = 404 /\ a.file = Nowhere
    BY <1>1, <1>2, <2>3, AnswerFor DEF Visiting
  <2> QED BY <1>1, <2>4 DEF Gives
<1>5. ASSUME v.index \in 1..Len(settings.index), IsFile(T, v.place, v.index)
      PROVE  Gives(v, 200, IndexAt(disk, v.place, v.index))
  <2>1. a.status = 200 /\ a.file = IndexAt(T, v.place, v.index)
    BY <1>1, <1>2, <1>3, <1>5, AnswerFor DEF Visiting
  <2>2. IndexAt(T, v.place, v.index) = IndexAt(disk, v.place, v.index)
    BY <1>1 DEF IndexAt
  <2> QED BY <1>1, <2>1, <2>2 DEF Gives
<1> QED BY <1>4, <1>5

\* After all the names for an index.
LEMMA NamesTried ==
    ASSUME NEW v, Visiting(v), v.pc \in {"index", "list"}, v.index = Len(settings.index) + 1
    PROVE  \/ Led(v)
           \/ changes - v.since > 1 /\ v.index > 1
           \/ /\ settings.list => Gives(v, 200, v.place)
              /\ ~settings.list => Gives(v, 404, Nowhere)
<1> SUFFICES ASSUME ~Led(v)
             PROVE  \/ changes - v.since > 1 /\ v.index > 1
                    \/ /\ settings.list => Gives(v, 200, v.place)
                       /\ ~settings.list => Gives(v, 404, Nowhere)
  OBVIOUS
<1>1. Looked(v) /\ InDirectory(v)
  BY DEF Visiting, VisitOK
<1>2. CASE Raced(v)
  <2>1. settings.index # <<>> => Len(settings.index) >= 1 /\ Len(settings.index) \in Nat
    BY IndexNames DEF Visiting
  <2> QED BY <1>2, <2>1 DEF Raced
<1>3. CASE ~Raced(v)
  <2>1. PICK T : Before(v, T)
    BY <1>1, <1>3 DEF InDirectory
  <2> QED BY <1>1, <2>1, BeforeRight
<1> QED BY <1>2, <1>3

\* A visit that is answered.
LEMMA AnsweredOK ==
    ASSUME NEW w, w.pc = "done", ~settings.slash => Answered(w)
    PROVE  VisitOK(w)
BY DEF VisitOK

\* Decode.
LEMMA DecodeKeeps ==
    ASSUME NEW v, Visiting(v), v.pc = "decode", NEW w,
           IF Len(v.url) >= MaxPath
           THEN w = Replies(v, 400, Nowhere)
           ELSE w = [v EXCEPT !.pc = "resolve"]
    PROVE  IsVisit(w) /\ VisitOK(w)
<1>1. LedTo(disk, v.url) \in v.led
  BY NowRight DEF Visiting
<1>2. CASE Len(v.url) >= MaxPath
  <2>1. IsVisit(w) /\ w.pc = "done" /\ w.status = 400 /\ w.file = Nowhere /\ SameView(w, v)
    <3>1. w = Replies(v, 400, Nowhere)
      BY <1>2
    <3> QED BY <3>1, Replied DEF Visiting
  <2>2. Gives(v, 400, Nowhere)
    BY <1>1, <1>2, AnswerPath DEF Gives
  <2>3. Answered(w)
    BY <2>1, <2>2, SeenSame DEF Answered
  <2> QED BY <2>1, <2>3, AnsweredOK
<1>3. CASE ~(Len(v.url) >= MaxPath)
  <2>1. IsVisit(w) /\ w.pc = "resolve" /\ SameView(w, v)
    <3>1. w = [v EXCEPT !.pc = "resolve"] /\ "resolve" \in VisitStep
      BY <1>3 DEF VisitStep
    <3> QED BY <3>1, Moved DEF Visiting
  <2>2. v.index = 1
    BY DEF Visiting, VisitOK
  <2>3. VisitOK(w)
    BY <1>1, <1>3, <2>1, <2>2 DEF VisitOK, SameView
  <2> QED BY <2>1, <2>3
<1> QED BY <1>2, <1>3

\* MissingPage.
LEMMA MissingKeeps ==
    ASSUME NEW v, Visiting(v), v.pc = "missing", NEW w, w = [v EXCEPT !.pc = "decode"]
    PROVE  IsVisit(w) /\ VisitOK(w)
<1>1. IsVisit(w) /\ w.pc = "decode" /\ SameView(w, v)
  <2>1. "decode" \in VisitStep
    BY DEF VisitStep
  <2> QED BY <2>1, Moved DEF Visiting
<1>2. LedTo(disk, v.url) \in v.led /\ v.index = 1
  BY DEF Visiting, VisitOK
<1>3. VisitOK(w)
  BY <1>1, <1>2 DEF VisitOK, SameView
<1> QED BY <1>1, <1>3

\* A request that is answered, by what is right or after it went wrong.
LEMMA ReplyKeeps ==
    ASSUME NEW v, Visiting(v), NEW status \in {200, 400, 403, 404, 500}, NEW file,
           NEW w, w = Replies(v, status, file),
           \/ settings.slash
           \/ Gives(v, status, file)
           \/ status = 500 /\ \E a, b \in v.led : a # b
           \/ changes - v.since > 1 /\ v.index > 1
           \/ Led(v)
    PROVE  IsVisit(w) /\ VisitOK(w)
<1>1. IsVisit(w) /\ w.pc = "done" /\ w.status = status /\ w.file = file /\ SameView(w, v)
  BY Replied DEF Visiting
<1>2. (Gives(w, status, file) <=> Gives(v, status, file)) /\ (Led(w) <=> Led(v))
  BY <1>1, SeenSame
<1>3. w.index = v.index /\ w.led = v.led /\ w.since = v.since
  BY <1>1 DEF SameView
<1>4. ~settings.slash => Answered(w)
  BY <1>1, <1>2, <1>3 DEF Answered
<1> QED BY <1>1, <1>4, AnsweredOK

\* ResolvePath.
LEMMA ResolveKeeps ==
    ASSUME NEW v, Visiting(v), v.pc = "resolve", NEW p,
           p = Checked(StaticRoot \o Decoded(v.url)), NEW w,
           IF Inside(p)
           THEN w = [v EXCEPT !.pc = "exists", !.path = p, !.place = Follow(Links(disk), p)]
           ELSE w = Replies(v, 403, Nowhere)
    PROVE  IsVisit(w) /\ VisitOK(w)
<1>1. LedTo(disk, v.url) \in v.led
  BY NowRight DEF Visiting
<1>2. LedTo(disk, v.url).path = p
  BY AnswerPath DEF Checked
<1>3. ~(Len(v.url) >= MaxPath) /\ v.index = 1
  BY DEF Visiting, VisitOK
<1>4. CASE Inside(p)
  <2> DEFINE place == Follow(Links(disk), p)
  <2>1. w = [v EXCEPT !.pc = "exists", !.path = p, !.place = place]
    BY <1>4
  <2> HIDE DEF place
  <2>a. v = [pc |-> v.pc, url |-> v.url, path |-> v.path, place |-> v.place,
             index |-> v.index, status |-> v.status, file |-> v.file, led |-> v.led,
             since |-> v.since]
    BY DEF Visiting, IsVisit
  <2>2. /\ w.pc = "exists" /\ w.path = p /\ w.place = place
        /\ w.status = v.status /\ w.file = v.file /\ w.url = v.url /\ w.index = v.index
        /\ w.led = v.led /\ w.since = v.since
        /\ w = [pc |-> w.pc, url |-> w.url, path |-> w.path, place |-> w.place,
                index |-> w.index, status |-> w.status, file |-> w.file, led |-> w.led,
                since |-> w.since]
    BY <2>1, <2>a
  <2>3. /\ w.pc \in VisitStep /\ w.status \in {0, 200, 400, 403, 404, 500}
        /\ w.index \in 1..(Len(settings.index) + 1) /\ w.since \in 0..changes
    BY <2>2 DEF Visiting, IsVisit, VisitStep
  <2>4. IsVisit(w)
    BY <2>2, <2>3 DEF IsVisit
  <2>5. IsPrefix(StaticRoot, p)
    BY <1>4 DEF Inside
  <2>6. Led(w) \/ \A a \in w.led : a.path = w.path
    BY <1>1, <1>2, <2>2 DEF Led
  <2>7. Led(w) \/ Looked(w)
    BY <1>3, <2>2, <2>5, <2>6 DEF Looked, place
  <2>8. VisitOK(w)
    BY <1>1, <1>3, <2>2, <2>7 DEF VisitOK
  <2> QED BY <2>4, <2>8
<1>5. CASE ~Inside(p)
  <2>1. w = Replies(v, 403, Nowhere)
    BY <1>5
  <2>2. settings.slash \/ ~IsPrefix(StaticRoot, p)
    BY <1>5 DEF Inside
  <2>3. ~IsPrefix(StaticRoot, p) => Gives(v, 403, Nowhere)
    BY <1>1, <1>2, <1>3, AnswerPath DEF Gives
  <2> QED BY <2>1, <2>2, <2>3, ReplyKeeps
<1> QED BY <1>4, <1>5

\* PathExists.
LEMMA ExistsKeeps ==
    ASSUME NEW v, Visiting(v), v.pc = "exists", NEW w,
           IF Node(disk, v.place) = "none" THEN w = Replies(v, 404, Nowhere)
           ELSE w = [v EXCEPT !.pc = "kind"]
    PROVE  IsVisit(w) /\ VisitOK(w)
<1>1. (Led(v) \/ Looked(v)) /\ v.index = 1 /\ LedTo(disk, v.url) \in v.led
  BY DEF Visiting, VisitOK
<1>2. CASE Node(disk, v.place) = "none"
  <2>1. w = Replies(v, 404, Nowhere)
    BY <1>2
  <2>2. Led(v) \/ Gives(v, 404, Nowhere)
    BY <1>1, <1>2, LookedRight
  <2> QED BY <2>1, <2>2, ReplyKeeps
<1>3. CASE Node(disk, v.place) # "none"
  <2>1. IsVisit(w) /\ w.pc = "kind" /\ SameView(w, v)
    <3>1. w = [v EXCEPT !.pc = "kind"] /\ "kind" \in VisitStep
      BY <1>3 DEF VisitStep
    <3> QED BY <3>1, Moved DEF Visiting
  <2>2. Led(w) \/ Looked(w)
    BY <1>1, <2>1, SeenSame
  <2>3. VisitOK(w)
    BY <1>1, <2>1, <2>2 DEF VisitOK, SameView
  <2> QED BY <2>1, <2>3
<1> QED BY <1>2, <1>3

\* IsDirectory.
LEMMA KindKeeps ==
    ASSUME NEW v, Visiting(v), v.pc = "kind", NEW w,
           w = [v EXCEPT !.pc = IF Node(disk, v.place) = "dir" THEN "index" ELSE "regular"]
    PROVE  IsVisit(w) /\ VisitOK(w)
<1>1. (Led(v) \/ Looked(v)) /\ v.index = 1 /\ LedTo(disk, v.url) \in v.led
  BY DEF Visiting, VisitOK
<1>2. CASE Node(disk, v.place) = "dir"
  <2>1. IsVisit(w) /\ w.pc = "index" /\ SameView(w, v)
    <3>1. w = [v EXCEPT !.pc = "index"] /\ "index" \in VisitStep
      BY <1>2 DEF VisitStep
    <3> QED BY <3>1, Moved DEF Visiting
  <2>2. Led(w) \/ Looked(w)
    BY <1>1, <2>1, SeenSame
  <2>3. Before(v, disk)
    <3>1. \A j \in 1..(v.index - 1) : FALSE
      BY <1>1
    <3> QED BY <1>1, <1>2, <3>1 DEF Before
  <2>4. disk \in [Place -> Kinds]
    BY DEF Visiting, TreeOK
  <2>5. InTree(v.place)
    BY <1>2 DEF InTree, Node
  <2>6. InDirectory(v)
    BY <1>2, <2>3, <2>4, <2>5 DEF InDirectory
  <2>7. InDirectory(w)
    BY <2>1, <2>6, SeenSame
  <2>8. VisitOK(w)
    BY <1>1, <2>1, <2>2, <2>7 DEF VisitOK, SameView
  <2> QED BY <2>1, <2>8
<1>3. CASE Node(disk, v.place) # "dir"
  <2>1. IsVisit(w) /\ w.pc = "regular" /\ SameView(w, v)
    <3>1. w = [v EXCEPT !.pc = "regular"] /\ "regular" \in VisitStep
      BY <1>3 DEF VisitStep
    <3> QED BY <3>1, Moved DEF Visiting
  <2>2. Led(w) \/ Looked(w)
    BY <1>1, <2>1, SeenSame
  <2>3. VisitOK(w)
    BY <1>1, <1>3, <2>1, <2>2 DEF VisitOK, SameView
  <2> QED BY <2>1, <2>3
<1> QED BY <1>2, <1>3

\* IsRegular.
LEMMA RegularKeeps ==
    ASSUME NEW v, Visiting(v), v.pc = "regular", NEW w,
           IF Node(disk, v.place) = "file" THEN w = [v EXCEPT !.pc = "open"]
           ELSE w = Replies(v, 404, Nowhere)
    PROVE  IsVisit(w) /\ VisitOK(w)
<1>1. /\ Led(v) \/ Looked(v)
      /\ LedTo(disk, v.url) \in v.led
      /\ Led(v) \/ Node(disk, v.place) # "dir" \/ Gives(v, 404, Nowhere)
  BY DEF Visiting, VisitOK
<1>2. CASE Node(disk, v.place) = "file"
  <2>1. IsVisit(w) /\ w.pc = "open" /\ SameView(w, v)
    <3>1. w = [v EXCEPT !.pc = "open"] /\ "open" \in VisitStep
      BY <1>2 DEF VisitStep
    <3> QED BY <3>1, Moved DEF Visiting
  <2>2. Led(w) \/ Gives(w, 200, w.place)
    <3>1. Led(v) \/ Gives(v, 200, v.place)
      BY <1>1, <1>2, LookedRight
    <3> QED BY <2>1, <3>1, SeenSame DEF SameView
  <2>3. VisitOK(w)
    BY <1>1, <2>1, <2>2 DEF VisitOK, SameView
  <2> QED BY <2>1, <2>3
<1>3. CASE Node(disk, v.place) # "file"
  <2>1. w = Replies(v, 404, Nowhere)
    BY <1>3
  <2>2. Led(v) \/ Gives(v, 404, Nowhere)
    BY <1>1, <1>3, LookedRight
  <2> QED BY <2>1, <2>2, ReplyKeeps
<1> QED BY <1>2, <1>3

\* ListDirectory.
LEMMA ListKeeps ==
    ASSUME NEW v, Visiting(v), v.pc = "list", NEW w,
           IF Node(disk, v.place) = "dir" THEN w = Replies(v, 200, v.place)
           ELSE w = Replies(v, 500, Nowhere)
    PROVE  IsVisit(w) /\ VisitOK(w)
<1>1. settings.list /\ v.index = Len(settings.index) + 1 /\ (Led(v) \/ InDirectory(v))
  BY DEF Visiting, VisitOK
<1>2. Led(v) \/ (changes - v.since > 1 /\ v.index > 1) \/ Gives(v, 200, v.place)
  BY <1>1, NamesTried
<1>3. CASE Node(disk, v.place) = "dir"
  <2>1. w = Replies(v, 200, v.place)
    BY <1>3
  <2> QED BY <1>2, <2>1, ReplyKeeps
<1>4. CASE Node(disk, v.place) # "dir"
  <2>1. w = Replies(v, 500, Nowhere)
    BY <1>4
  <2>2. Led(v) \/ Gives(v, 404, Nowhere)
    BY <1>1, <1>4 DEF InDirectory
  <2>3. ASSUME Gives(v, 200, v.place), Gives(v, 404, Nowhere)
        PROVE  \E a, b \in v.led : a # b
    <3>1. PICK a \in v.led : a.status = 200
      BY <2>3 DEF Gives
    <3>2. PICK b \in v.led : b.status = 404
      BY <2>3 DEF Gives
    <3> QED BY <3>1, <3>2
  <2> QED BY <1>2, <2>1, <2>2, <2>3, ReplyKeeps
<1> QED BY <1>3, <1>4

\* OpenFile.
LEMMA OpenKeeps ==
    ASSUME NEW v, Visiting(v), v.pc = "open", NEW w,
           IF Node(disk, v.place) = "none" THEN w = Replies(v, 500, Nowhere)
           ELSE w = Replies(v, 200, v.place)
    PROVE  IsVisit(w) /\ VisitOK(w)
<1>1. /\ Led(v) \/ Gives(v, 200, v.place) \/ (changes - v.since > 1 /\ v.index > 1)
      /\ LedTo(disk, v.url) \in v.led
  BY DEF Visiting, VisitOK
<1>2. CASE Node(disk, v.place) = "none"
  <2>1. w = Replies(v, 500, Nowhere)
    BY <1>2
  <2>2. ASSUME Gives(v, 200, v.place) PROVE \E a, b \in v.led : a # b
    <3>1. PICK a \in v.led : a.status = 200 /\ a.file = v.place
      BY <2>2 DEF Gives
    <3>2. a # LedTo(disk, v.url)
      <4>1. LedTo(disk, v.url).status = 200 =>
               Node(disk, LedTo(disk, v.url).file) \in {"file", "dir"}
        BY AnswerThere DEF Visiting
      <4> QED BY <1>2, <3>1, <4>1
    <3> QED BY <1>1, <3>2
  <2> QED BY <1>1, <2>1, <2>2, ReplyKeeps
<1>3. CASE Node(disk, v.place) # "none"
  <2>1. w = Replies(v, 200, v.place)
    BY <1>3
  <2> QED BY <1>1, <2>1, ReplyKeeps
<1> QED BY <1>2, <1>3

\* TryIndex: the next name.
LEMMA NextName ==
    ASSUME NEW v, Visiting(v), v.pc = "index", v.index \in 1..Len(settings.index),
           ~IsFile(disk, v.place, v.index), NEW w, w = [v EXCEPT !.index = v.index + 1]
    PROVE  IsVisit(w) /\ VisitOK(w)
<1>1. /\ w.pc = "index" /\ w.index = v.index + 1 /\ w.status = v.status /\ w.file = v.file
      /\ w.url = v.url /\ w.path = v.path /\ w.place = v.place
      /\ w.led = v.led /\ w.since = v.since
      /\ w = [pc |-> w.pc, url |-> w.url, path |-> w.path, place |-> w.place, index |-> w.index,
              status |-> w.status, file |-> w.file, led |-> w.led, since |-> w.since]
  BY DEF Visiting, IsVisit
<1>2. Len(settings.index) \in Nat
  BY IndexNames DEF Visiting
<1>3. IsVisit(w)
  <2>1. w.index \in 1..(Len(settings.index) + 1)
    BY <1>1, <1>2
  <2>2. /\ w.pc \in VisitStep /\ w.status \in {0, 200, 400, 403, 404, 500}
        /\ w.since \in 0..changes
    BY <1>1 DEF Visiting, IsVisit
  <2> QED BY <1>1, <2>1, <2>2 DEF IsVisit
<1>4. /\ LedTo(disk, v.url) \in v.led
      /\ Led(v) \/ (Looked(v) /\ InDirectory(v))
  BY DEF Visiting, VisitOK
<1>5. /\ Led(w) <=> Led(v)
      /\ Looked(w) <=> Looked(v)
      /\ Raced(w) <=> Raced(v)
      /\ Gives(w, 404, Nowhere) <=> Gives(v, 404, Nowhere)
  BY <1>1 DEF Led, Looked, Raced, Gives
<1>6. ASSUME NEW T, Before(v, T) PROVE Before(w, T)
  <2>1. /\ Links(T) = Links(disk) /\ LedTo(T, w.url) \in w.led
        /\ Node(T, w.place) = "dir"
    BY <1>1, <1>6 DEF Before
  <2>2. ~IsFile(T, v.place, v.index)
    BY <1>2, <1>6 DEF Before
  <2>3. \A j \in 1..(w.index - 1) : ~IsFile(T, w.place, j)
    <3> SUFFICES ASSUME NEW j \in 1..v.index PROVE ~IsFile(T, v.place, j)
      BY <1>1
    <3>1. CASE j = v.index
      BY <2>2, <3>1
    <3>2. CASE j # v.index
      <4>1. j \in 1..(v.index - 1)
        BY <3>2
      <4> QED BY <1>6, <4>1 DEF Before
    <3> QED BY <3>1, <3>2
  <2>4. \A j \in w.index..Len(settings.index) : j \in v.index..Len(settings.index)
    BY <1>1, <1>2
  <2>5. T = disk \/ /\ changes > w.since
                    /\ \A j \in w.index..Len(settings.index) :
                          IsFile(T, w.place, j) <=> IsFile(disk, w.place, j)
    BY <1>1, <1>6, <2>4 DEF Before
  <2> QED BY <2>1, <2>3, <2>5 DEF Before
<1>7. InDirectory(v) => InDirectory(w)
  BY <1>1, <1>5, <1>6 DEF InDirectory
<1>8. VisitOK(w)
  BY <1>1, <1>4, <1>5, <1>7 DEF VisitOK
<1> QED BY <1>3, <1>8

\* TryIndex: a file is found.
LEMMA FileFound ==
    ASSUME NEW v, Visiting(v), v.pc = "index", v.index \in 1..Len(settings.index),
           IsFile(disk, v.place, v.index), NEW w, NEW path,
           w = [v EXCEPT !.pc = "open", !.place = IndexAt(disk, v.place, v.index),
                         !.path = path]
    PROVE  IsVisit(w) /\ VisitOK(w)
<1> DEFINE place == IndexAt(disk, v.place, v.index)
<1>0. v = [pc |-> v.pc, url |-> v.url, path |-> v.path, place |-> v.place, index |-> v.index,
           status |-> v.status, file |-> v.file, led |-> v.led, since |-> v.since]
  BY DEF Visiting, IsVisit
<1>1. w = [v EXCEPT !.pc = "open", !.place = place, !.path = path]
  OBVIOUS
<1> HIDE DEF place
<1>2. /\ w.pc = "open" /\ w.index = v.index /\ w.status = v.status /\ w.file = v.file
      /\ w.url = v.url /\ w.path = path /\ w.place = place
      /\ w.led = v.led /\ w.since = v.since
      /\ w = [pc |-> w.pc, url |-> w.url, path |-> w.path, place |-> w.place, index |-> w.index,
              status |-> w.status, file |-> w.file, led |-> w.led, since |-> w.since]
  BY <1>0, <1>1
<1>3. IsVisit(w)
  <2>1. /\ w.pc \in VisitStep /\ w.status \in {0, 200, 400, 403, 404, 500}
        /\ w.index \in 1..(Len(settings.index) + 1) /\ w.since \in 0..changes
    BY <1>2 DEF Visiting, IsVisit, VisitStep
  <2> QED BY <1>2, <2>1 DEF IsVisit
<1>4. /\ LedTo(disk, v.url) \in v.led
      /\ Led(v) \/ (Looked(v) /\ InDirectory(v))
  BY DEF Visiting, VisitOK
<1>5. Led(v) \/ Gives(v, 200, place) \/ (changes - v.since > 1 /\ v.index > 1)
  <2> SUFFICES ASSUME ~Led(v), ~(changes - v.since > 1 /\ v.index > 1)
               PROVE  Gives(v, 200, place)
    OBVIOUS
  <2>1. Looked(v) /\ InDirectory(v)
    BY <1>4
  <2>2. ASSUME NEW T, Before(v, T) PROVE Gives(v, 200, place)
    <3>1. Len(settings.index) \in Nat
      BY IndexNames DEF Visiting
    <3>2. v.index \in v.index..Len(settings.index)
      BY <3>1
    <3>3. IsFile(T, v.place, v.index)
      BY <2>2, <3>2 DEF Before
    <3> QED BY <2>1, <2>2, <3>3, BeforeRight DEF place
  <2>3. CASE ~Raced(v)
    BY <2>1, <2>2, <2>3 DEF InDirectory
  <2>4. CASE Raced(v)
    <3>1. ~(v.index > 1)
      BY <2>4 DEF Raced
    <3>2. v.index = 1
      BY <3>1
    <3>3. Node(disk, v.place) = "dir"
      BY <2>1, IndexIsIn DEF InDirectory, Visiting
    <3>4. Before(v, disk)
      <4>1. \A j \in 1..(v.index - 1) : FALSE
        BY <3>2
      <4> QED BY <1>4, <3>3, <4>1 DEF Before
    <3> QED BY <2>2, <3>4
  <2> QED BY <2>3, <2>4
<1>6. Led(w) \/ Gives(w, 200, w.place) \/ (changes - w.since > 1 /\ w.index > 1)
  BY <1>2, <1>5 DEF Led, Gives
<1>7. VisitOK(w)
  BY <1>2, <1>4, <1>6 DEF VisitOK
<1> QED BY <1>3, <1>7

\* TryIndex: all the names were tried.
LEMMA NoName ==
    ASSUME NEW v, Visiting(v), v.pc = "index", v.index > Len(settings.index), NEW w,
           IF settings.list THEN w = [v EXCEPT !.pc = "list"]
           ELSE w = Replies(v, 404, Nowhere)
    PROVE  IsVisit(w) /\ VisitOK(w)
<1>1. v.index = Len(settings.index) + 1
  <2>1. Len(settings.index) \in Nat /\ v.index \in 1..(Len(settings.index) + 1)
    BY IndexNames DEF Visiting, IsVisit
  <2> QED BY <2>1
<1>2. CASE settings.list
  <2>1. IsVisit(w) /\ w.pc = "list" /\ SameView(w, v)
    <3>1. w = [v EXCEPT !.pc = "list"] /\ "list" \in VisitStep
      BY <1>2 DEF VisitStep
    <3> QED BY <3>1, Moved DEF Visiting
  <2>2. /\ LedTo(disk, v.url) \in v.led
        /\ Led(v) \/ Looked(v)
        /\ Led(v) \/ InDirectory(v)
    BY DEF Visiting, VisitOK
  <2>3. (Led(w) \/ Looked(w)) /\ (Led(w) \/ InDirectory(w))
    BY <2>1, <2>2, SeenSame
  <2>4. VisitOK(w)
    BY <1>1, <1>2, <2>1, <2>2, <2>3 DEF VisitOK, SameView
  <2> QED BY <2>1, <2>4
<1>3. CASE ~settings.list
  <2>1. w = Replies(v, 404, Nowhere)
    BY <1>3
  <2>2. Led(v) \/ (changes - v.since > 1 /\ v.index > 1) \/ Gives(v, 404, Nowhere)
    BY <1>1, <1>3, NamesTried
  <2> QED BY <2>1, <2>2, ReplyKeeps
<1> QED BY <1>2, <1>3

\* Visit.
LEMMA VisitStarts ==
    ASSUME SettingsOK, changes \in Nat, NEW url, NEW pc \in {"missing", "decode"}, NEW w,
           w = [NoVisit EXCEPT !.url = url, !.since = changes,
                               !.led = {LedTo(disk, url)}, !.pc = pc]
    PROVE  IsVisit(w) /\ VisitOK(w)
<1> DEFINE right == {LedTo(disk, url)}
<1>1. w = [NoVisit EXCEPT !.url = url, !.since = changes, !.led = right, !.pc = pc]
  OBVIOUS
<1> HIDE DEF right
<1>2. /\ w.pc = pc /\ w.index = 1 /\ w.status = 0 /\ w.url = url
      /\ w.led = right /\ w.since = changes
      /\ w = [pc |-> w.pc, url |-> w.url, path |-> w.path, place |-> w.place, index |-> w.index,
              status |-> w.status, file |-> w.file, led |-> w.led, since |-> w.since]
  BY <1>1 DEF NoVisit
<1>3. Len(settings.index) \in Nat
  BY IndexNames
<1>4. IsVisit(w)
  <2>1. w.pc \in VisitStep /\ w.index \in 1..(Len(settings.index) + 1) /\ w.since \in 0..changes
    BY <1>2, <1>3 DEF VisitStep
  <2> QED BY <1>2, <2>1 DEF IsVisit
<1>5. VisitOK(w)
  <2>1. LedTo(disk, w.url) \in w.led
    BY <1>2 DEF right
  <2> QED BY <1>2, <2>1 DEF VisitOK
<1> QED BY <1>4, <1>5

-----------------------------------------------------------------------------
(* Steps of others.                                                        *)

\* The settings stand still while the mod is up, and so does what is right for a tree.
LEMMA RightStill ==
    ASSUME settings' = settings
    PROVE  /\ \A T, url : LedTo(T, url)' = LedTo(T, url)
           /\ \A T, place, i : IndexAt(T, place, i)' = IndexAt(T, place, i)
           /\ \A T, place, i : IsFile(T, place, i)' <=> IsFile(T, place, i)
<1>1. \A T, place, i : IndexAt(T, place, i)' = IndexAt(T, place, i)
  BY DEF IndexAt
<1>2. \A T, place, i : IsFile(T, place, i)' <=> IsFile(T, place, i)
  BY <1>1 DEF IsFile
<1>3. \A T, url : LedTo(T, url)' = LedTo(T, url)
  BY DEF LedTo, IndexAt
<1> QED BY <1>1, <1>2, <1>3

\* A visit that does not change, while nothing it depends on does.
LEMMA VisitStill ==
    ASSUME NEW v, disk' = disk, changes' = changes, settings' = settings
    PROVE  /\ IsVisit(v) => IsVisit(v)'
           /\ VisitOK(v) => VisitOK(v)'
<1>1. IsVisit(v) => IsVisit(v)'
  BY DEF IsVisit, VisitStep
<1>2. \A T, url : LedTo(T, url)' = LedTo(T, url)
  BY RightStill
<1>3. \A T, place, i : IsFile(T, place, i)' <=> IsFile(T, place, i)
  BY RightStill
<1>4. Looked(v) => Looked(v)'
  BY DEF Looked
<1>5. \A T : Before(v, T) => Before(v, T)'
  BY <1>2, <1>3 DEF Before
<1>6. InDirectory(v) => InDirectory(v)'
  BY <1>5 DEF InDirectory, Raced, Gives, InTree
<1>7. Answered(v) => Answered(v)'
  BY DEF Answered, Gives, Led
<1>8. (Led(v) => Led(v)') /\ \A status, file : Gives(v, status, file) => Gives(v, status, file)'
  BY DEF Gives, Led
<1>9. VisitOK(v) => VisitOK(v)'
  BY <1>2, <1>4, <1>6, <1>7, <1>8 DEF VisitOK
<1> QED BY <1>1, <1>9

\* What TreeChanges does to the tree at p.
Changed(p, kind) ==
    /\ p \in Place \ {<<>>} /\ kind \in Kinds \ {"link"}
    /\ disk[p] # "link" /\ (disk[p] = "none" \/ kind = "none")
    /\ Node(disk, Front(p)) = "dir"
    /\ \A q \in Place : q # <<>> /\ Front(q) = p => disk[q] = "none"
    /\ \A q \in Place : disk[q] = "link" => LinkTo[q] # p
    /\ disk' = [disk EXCEPT ![p] = kind]

\* The tree after a change.
LEMMA TreeAfter ==
    ASSUME TreeOK(disk), NEW p, NEW kind, Changed(p, kind)
    PROVE  /\ disk' \in [Place -> Kinds] /\ TreeOK(disk')
           /\ \A q : q # p => Node(disk', q) = Node(disk, q)
           /\ Links(disk') = Links(disk)
           /\ Node(disk, p) = "none" \/ Node(disk', p) = "none"
<1>1. disk \in [Place -> Kinds] /\ p \in Place /\ p # <<>>
  BY DEF TreeOK, Changed
<1>2. disk' = [disk EXCEPT ![p] = kind] /\ kind \in Kinds /\ kind # "link" /\ disk[p] # "link"
  BY DEF Changed
<1>3. disk' \in [Place -> Kinds]
  BY <1>1, <1>2
<1>4. disk'[p] = kind /\ \A q \in Place : q # p => disk'[q] = disk[q]
  BY <1>1, <1>2
<1>5. \A q : q # p => Node(disk', q) = Node(disk, q)
  BY <1>4 DEF Node
<1>6. Links(disk') = Links(disk)
  <2>1. \A q \in Place : disk'[q] = "link" <=> disk[q] = "link"
    BY <1>2, <1>4
  <2> QED BY <2>1 DEF Links
<1>7. Node(disk, p) = "none" \/ Node(disk', p) = "none"
  BY <1>1, <1>4 DEF Node, Changed
<1>8. TreeOK(disk')
  <2> SUFFICES ASSUME NEW q \in Place, q # <<>>, disk'[q] # "none"
               PROVE  Node(disk', Front(q)) = "dir"
    BY <1>3 DEF TreeOK
  <2>1. CASE q = p
    <3>1. Front(p) # p
      <4>1. p \in Seq(STRING)
        BY <1>1, StaticAssumption
      <4>2. Len(p) \in Nat /\ Len(p) # 0
        BY <1>1, <4>1
      <4>3. Len(SubSeq(p, 1, Len(p) - 1)) = Len(p) - 1
        <5>1. Len(p) - 1 \in Int /\ \A i \in 1..(Len(p) - 1) : p[i] \in STRING
          BY <4>1, <4>2
        <5>2. Len(SubSeq(p, 1, Len(p) - 1)) = IF 1 <= Len(p) - 1 THEN Len(p) - 1 - 1 + 1 ELSE 0
          BY <5>1, SubSeqProperties
        <5>3. PICK n \in Nat \ {0} : n = Len(p)
          BY <4>2
        <5>4. n - 1 = IF 1 <= n - 1 THEN n - 1 - 1 + 1 ELSE 0
          OBVIOUS
        <5> QED BY <5>2, <5>3, <5>4
      <4> QED BY <4>2, <4>3 DEF Front
    <3>2. Node(disk, Front(p)) = "dir"
      BY DEF Changed
    <3> QED BY <1>5, <2>1, <3>1, <3>2
  <2>2. CASE q # p
    <3>1. disk[q] # "none"
      BY <1>4, <2>2
    <3>2. Front(q) # p
      BY <3>1 DEF Changed
    <3>3. Node(disk, Front(q)) = "dir"
      BY <3>1 DEF TreeOK
    <3> QED BY <1>5, <3>2, <3>3
  <2> QED BY <2>1, <2>2
<1> QED BY <1>3, <1>5, <1>6, <1>7, <1>8

\* What a name for an index leads to changes only where the name itself is put or taken.
LEMMA IndexChanged ==
    ASSUME SettingsOK, TreeOK(disk), NEW p, NEW kind, Changed(p, kind), NEW place,
           InTree(place), NEW i \in 1..Len(settings.index),
           ~(IsFile(disk', place, i) <=> IsFile(disk, place, i))
    PROVE  p = Append(place, settings.index[i]) /\ Front(p) = place
<1>1. Links(disk') = Links(disk) /\ \A q : q # p => Node(disk', q) = Node(disk, q)
  BY TreeAfter
<1>2. IndexAt(disk', place, i) = IndexAt(disk, place, i)
  BY <1>1 DEF IndexAt
<1>3. IndexAt(disk, place, i) = p
  BY <1>1, <1>2 DEF IsFile
<1>4. Append(place, settings.index[i]) \notin Links(disk)
  <2> SUFFICES ASSUME Append(place, settings.index[i]) \in Links(disk) PROVE FALSE
    OBVIOUS
  <2>1. LinkTo[Append(place, settings.index[i])] = p
    BY <1>3, IndexPlace
  <2> QED BY <2>1 DEF Links, Changed
<1>5. IndexAt(disk, place, i) = Append(place, settings.index[i])
  BY <1>4, IndexPlace
<1> QED BY <1>3, <1>5, IndexPlace

\* The tree that had the directory, after a change of the tree.
LEMMA BeforeAfter ==
    ASSUME SettingsOK, TreeOK(disk), changes \in Nat, NEW p, NEW kind, Changed(p, kind),
           settings' = settings, changes' = changes + 1, NEW v, NEW w,
           v.since \in Int, v.index \in Nat \ {0},
           w.url = v.url, w.path = v.path, w.place = v.place, w.index = v.index,
           w.since = v.since, v.since <= changes,
           w.led = v.led \cup {LedTo(disk', v.url)},
           InTree(v.place), NEW T \in [Place -> Kinds], Before(v, T)
    PROVE  Raced(w)' \/ \E U \in [Place -> Kinds] : Before(w, U)'
<1>1. /\ disk' \in [Place -> Kinds] /\ Links(disk') = Links(disk)
      /\ \A q : q # p => Node(disk', q) = Node(disk, q)
  BY TreeAfter
<1>2. /\ \A U, url : LedTo(U, url)' = LedTo(U, url)
      /\ \A U, place, i : IsFile(U, place, i)' <=> IsFile(U, place, i)
  BY RightStill
<1>3. /\ Links(T) = Links(disk') /\ LedTo(T, w.url) \in w.led
      /\ Node(T, w.place) = "dir"
      /\ \A j \in 1..(w.index - 1) : ~IsFile(T, w.place, j)
      /\ T = disk \/ changes > v.since
  BY <1>1 DEF Before
<1>4. Len(settings.index) \in Nat
  BY IndexNames
<1>5. CASE \A j \in w.index..Len(settings.index) :
              IsFile(T, w.place, j) <=> IsFile(disk', w.place, j)
  <2>1. changes + 1 > w.since
    OBVIOUS
  <2>2. changes' > w.since
    BY <2>1
  <2>3. LedTo(T, w.url)' \in w.led
    BY <1>2, <1>3
  <2>4. \A j \in 1..(w.index - 1) : ~IsFile(T, w.place, j)'
    BY <1>2, <1>3
  <2>5. \A j \in w.index..Len(settings.index) :
           IsFile(T, w.place, j)' <=> IsFile(disk', w.place, j)
    BY <1>2, <1>5
  <2>6. \A j : IsFile(disk, w.place, j)' <=> IsFile(disk', w.place, j)
    BY <1>2
  <2>7. Before(w, T)'
    BY <1>3, <2>2, <2>3, <2>4, <2>5, <2>6 DEF Before
  <2> QED BY <2>7
<1>6. CASE T # disk /\ settings.index # <<>>
  <2>1. changes > v.since
    BY <1>3, <1>6
  <2>2. changes + 1 - w.since > 1
    BY <2>1
  <2>3. changes' - w.since > 1
    BY <2>2
  <2> QED BY <1>6, <2>3 DEF Raced
<1>7. CASE settings.index = <<>>
  <2>1. Len(settings.index) = 0
    BY <1>7, IndexNames
  <2>2. \A j \in w.index..Len(settings.index) : FALSE
    BY <2>1
  <2> QED BY <1>5, <2>2
<1>8. CASE T = disk /\ \E j \in w.index..Len(settings.index) :
                          ~(IsFile(disk, w.place, j) <=> IsFile(disk', w.place, j))
  <2>1. PICK i \in w.index..Len(settings.index) :
                ~(IsFile(disk', v.place, i) <=> IsFile(disk, v.place, i))
    BY <1>8
  <2>2. i \in 1..Len(settings.index)
    BY <1>4
  <2>3. p = Append(v.place, settings.index[i]) /\ Front(p) = v.place
    BY <2>1, <2>2, IndexChanged
  <2>4. Node(disk', v.place) = "dir"
    <3>1. v.place # p
      <4>1. v.place \in Seq(STRING)
        BY StaticAssumption, EmptySeq DEF InTree
      <4>2. Len(v.place) \in Nat /\ Len(Append(v.place, settings.index[i])) = Len(v.place) + 1
        BY <4>1
      <4> QED BY <2>3, <4>2
    <3> QED BY <1>1, <1>3, <1>8, <3>1
  <2>5. \A j \in 1..(w.index - 1) : ~IsFile(disk', v.place, j)
    <3> SUFFICES ASSUME NEW j \in 1..(w.index - 1) PROVE ~IsFile(disk', v.place, j)
      OBVIOUS
    <3>1. j \in 1..Len(settings.index) /\ j # i
      BY <1>4, <2>1
    <3>2. Append(v.place, settings.index[j]) # Append(v.place, settings.index[i])
      BY <2>2, <3>1, IndexPlace
    <3>3. IsFile(disk', v.place, j) <=> IsFile(disk, v.place, j)
      BY <2>3, <3>1, <3>2, IndexChanged
    <3> QED BY <1>3, <1>8, <3>3
  <2>6. PICK U : U = disk'
    OBVIOUS
  <2>7. /\ Links(U) = Links(disk)' /\ LedTo(U, w.url)' \in w.led
        /\ Node(U, w.place) = "dir"
    BY <1>2, <2>4, <2>6
  <2>8. \A j \in 1..(w.index - 1) : ~IsFile(U, w.place, j)'
    BY <1>2, <2>5, <2>6
  <2>9. Before(w, U)'
    BY <2>6, <2>7, <2>8 DEF Before
  <2> QED BY <1>1, <2>6, <2>9
<1> QED BY <1>5, <1>6, <1>7, <1>8

\* A request under way, after a change of the tree.
LEMMA ChangeKeeps ==
    ASSUME NEW v, Visiting(v), changes \in Nat, NEW p, NEW kind, Changed(p, kind),
           settings' = settings, changes' = changes + 1, v.pc \notin {"idle", "done"}, NEW w,
           w = [v EXCEPT !.led = v.led \cup {LedTo(disk', v.url)}]
    PROVE  IsVisit(w)' /\ VisitOK(w)'
<1> DEFINE right == v.led \cup {LedTo(disk', v.url)}
<1>0. v = [pc |-> v.pc, url |-> v.url, path |-> v.path, place |-> v.place, index |-> v.index,
           status |-> v.status, file |-> v.file, led |-> v.led, since |-> v.since]
  BY DEF Visiting, IsVisit
<1>1. w = [v EXCEPT !.led = right]
  OBVIOUS
<1> HIDE DEF right
<1>2. /\ w.pc = v.pc /\ w.index = v.index /\ w.status = v.status /\ w.file = v.file
      /\ w.url = v.url /\ w.path = v.path /\ w.place = v.place
      /\ w.led = right /\ w.since = v.since
      /\ w = [pc |-> w.pc, url |-> w.url, path |-> w.path, place |-> w.place, index |-> w.index,
              status |-> w.status, file |-> w.file, led |-> w.led, since |-> w.since]
  BY <1>0, <1>1
<1>3. /\ w.pc \in VisitStep /\ w.status \in {0, 200, 400, 403, 404, 500}
      /\ w.index \in 1..(Len(settings.index) + 1) /\ w.since \in 0..changes
  BY <1>2 DEF Visiting, IsVisit
<1>4. IsVisit(w)'
  <2>1. w.since \in 0..changes'
    BY <1>3
  <2>2. w.index \in 1..(Len(settings'.index) + 1)
    BY <1>3
  <2> QED BY <1>2, <1>3, <2>1, <2>2 DEF IsVisit, VisitStep
<1>5. LedTo(disk', v.url) \in w.led /\ v.led \subseteq w.led
  BY <1>2 DEF right
<1>6. /\ disk' \in [Place -> Kinds] /\ Links(disk') = Links(disk)
      /\ \A q : q # p => Node(disk', q) = Node(disk, q)
      /\ Node(disk, p) = "none" \/ Node(disk', p) = "none"
  BY TreeAfter DEF Visiting
<1>7. LedTo(disk, w.url)' \in w.led
  <2>1. \A U, url : LedTo(U, url)' = LedTo(U, url)
    BY RightStill
  <2> QED BY <1>2, <1>5, <2>1
<1>8. /\ Led(v) => Led(w)
      /\ \A status, file : Gives(v, status, file) => Gives(w, status, file)
  BY <1>5 DEF Led, Gives
<1>9. /\ Led(w)' <=> Led(w)
      /\ \A status, file : Gives(w, status, file)' <=> Gives(w, status, file)
  BY DEF Led, Gives
<1>10. ~Led(w) /\ Looked(v) => Looked(w)'
  <2> SUFFICES ASSUME ~Led(w), Looked(v) PROVE Looked(w)'
    OBVIOUS
  <2>1. LedTo(disk, v.url) \in v.led
    BY NowRight DEF Visiting
  <2>2. \A a \in w.led : a.path = w.path
    BY <1>2, <1>5, <2>1 DEF Led, Looked
  <2>3. w.place = Follow(Links(disk'), w.path)
    BY <1>2, <1>6 DEF Looked
  <2>4. ~(Len(w.url) >= MaxPath) /\ IsPrefix(StaticRoot, w.path)
    BY <1>2 DEF Looked
  <2> QED BY <2>2, <2>3, <2>4 DEF Looked
\* What is not a directory any more is nothing: no file, so 404 is right.
<1>11. ~Led(w) /\ Looked(v) /\ Node(disk, v.place) = "dir" /\ Node(disk', v.place) # "dir" =>
          Gives(w, 404, Nowhere)
  <2> SUFFICES ASSUME ~Led(w), Looked(v), Node(disk, v.place) = "dir",
                      Node(disk', v.place) # "dir"
               PROVE  Gives(w, 404, Nowhere)
    OBVIOUS
  <2>1. Node(disk', v.place) = "none"
    BY <1>6
  <2> DEFINE a == LedTo(disk', v.url)
  <2>2. a.path = v.path
    <3>1. LedTo(disk, v.url) \in v.led
      BY NowRight DEF Visiting
    <3> QED BY <1>5, <3>1 DEF Led, Looked
  <2>3. /\ IsPrefix(StaticRoot, v.path) /\ ~(Len(v.url) >= MaxPath)
        /\ v.place = Follow(Links(disk'), v.path)
    BY <1>6 DEF Looked
  <2>4. a.status = 404 /\ a.file = Nowhere
    BY <2>1, <2>2, <2>3, AnswerFor DEF Visiting
  <2> QED BY <1>5, <2>4 DEF Gives
<1>12. ~Led(w) /\ Looked(v) /\ InDirectory(v) => InDirectory(w)'
  <2> SUFFICES ASSUME ~Led(w), Looked(v), InDirectory(v) PROVE InDirectory(w)'
    OBVIOUS
  <2>1. InTree(w.place)
    BY <1>2 DEF InDirectory
  <2>2. Node(disk', w.place) # "dir" => Gives(w, 404, Nowhere)
    BY <1>2, <1>8, <1>11 DEF InDirectory
  <2>3. Raced(w)' \/ \E U \in [Place -> Kinds] : Before(w, U)'
    <3>1. CASE Raced(v)
      <4>1. changes - v.since > 1 /\ settings'.index # <<>>
        BY <3>1 DEF Raced
      <4>2. changes' - w.since > 1
        BY <1>2, <1>3, <4>1
      <4> QED BY <4>1, <4>2 DEF Raced
    <3>2. CASE ~Raced(v)
      <4>1. PICK T \in [Place -> Kinds] : Before(v, T)
        BY <3>2 DEF InDirectory
      <4>2. v.since \in Int /\ v.since <= changes /\ v.index \in Nat \ {0}
        BY DEF Visiting, IsVisit
      <4>3. w.led = v.led \cup {LedTo(disk', v.url)}
        BY <1>2 DEF right
      <4>4. InTree(v.place) /\ SettingsOK /\ TreeOK(disk)
        BY DEF InDirectory, Visiting
      <4> QED BY <1>2, <4>1, <4>2, <4>3, <4>4, BeforeAfter
    <3> QED BY <3>1, <3>2
  <2> QED BY <1>9, <2>1, <2>2, <2>3 DEF InDirectory, InTree
<1>13. /\ w.pc \notin {"index", "list", "open", "done"} => w.index = 1
       /\ w.pc = "resolve" => ~(Len(w.url) >= MaxPath)
       /\ w.pc = "list" => settings'.list /\ w.index = Len(settings'.index) + 1
  BY <1>2 DEF Visiting, VisitOK
<1>14. w.pc \in {"exists", "kind", "regular", "index", "list"} => Led(w) \/ Looked(w)'
  BY <1>2, <1>8, <1>10 DEF Visiting, VisitOK
<1>15. w.pc = "regular" => Led(w) \/ Node(disk', w.place) # "dir" \/ Gives(w, 404, Nowhere)
  <2> SUFFICES ASSUME w.pc = "regular", ~Led(w), Node(disk', w.place) = "dir"
               PROVE  Gives(w, 404, Nowhere)
    OBVIOUS
  <2>1. v.pc = "regular" /\ ~Led(v)
    BY <1>2, <1>8
  <2>2. Looked(v) /\ (Node(disk, v.place) # "dir" \/ Gives(v, 404, Nowhere))
    BY <2>1 DEF Visiting, VisitOK
  <2>3. CASE Node(disk, v.place) # "dir"
    <3>1. Node(disk, v.place) = "none"
      BY <1>2, <1>6, <2>3
    <3>2. Gives(v, 404, Nowhere)
      BY <2>1, <2>2, <3>1, LookedRight
    <3> QED BY <1>8, <3>2
  <2> QED BY <1>8, <2>2, <2>3
<1>16. w.pc \in {"index", "list"} => Led(w) \/ InDirectory(w)'
  BY <1>2, <1>8, <1>12 DEF Visiting, VisitOK
<1>17. w.pc = "open" => Led(w) \/ Gives(w, 200, w.place) \/ (changes' - w.since > 1 /\ w.index > 1)
  <2>1. changes - v.since > 1 => changes' - v.since > 1
    BY <1>2, <1>3
  <2> QED BY <1>2, <1>8, <2>1 DEF Visiting, VisitOK
<1>18. w.pc # "done"
  BY <1>2
<1> QED BY <1>4, <1>7, <1>9, <1>13, <1>14, <1>15, <1>16, <1>17, <1>18 DEF VisitOK

-----------------------------------------------------------------------------

\* The initial states satisfy the invariant.
LEMMA StaticInitIInv ==
    ASSUME StaticInit
    PROVE  StaticIInv
<1>1. SettingsOK
  BY DEF StaticInit, SettingsOK
<1>2. changes = 0 /\ changes \in 0..MaxChanges /\ changes \in Nat
  BY StaticAssumption DEF StaticInit
<1>3. TreeOK(disk)
  BY DEF StaticInit, TreeOK
<1>4. visit = [t \in Visitor |-> NoVisit] /\ visit = [t \in Visitor |-> visit[t]]
  BY DEF StaticInit
<1>5. Len(settings.index) \in Nat
  BY <1>1, IndexNames
<1>6. IsVisit(NoVisit) /\ VisitOK(NoVisit)
  <2>1. /\ NoVisit.pc = "idle" /\ NoVisit.index = 1 /\ NoVisit.status = 0 /\ NoVisit.since = 0
        /\ NoVisit = [pc |-> NoVisit.pc, url |-> NoVisit.url, path |-> NoVisit.path,
                      place |-> NoVisit.place, index |-> NoVisit.index,
                      status |-> NoVisit.status, file |-> NoVisit.file,
                      led |-> NoVisit.led, since |-> NoVisit.since]
    BY DEF NoVisit
  <2>2. NoVisit.index \in 1..(Len(settings.index) + 1) /\ NoVisit.since \in 0..changes
    BY <1>2, <1>5, <2>1
  <2>3. IsVisit(NoVisit)
    BY <2>1, <2>2 DEF IsVisit, VisitStep
  <2>4. VisitOK(NoVisit)
    BY <2>1 DEF VisitOK
  <2> QED BY <2>3, <2>4
<1>7. \A t \in Visitor : IsVisit(visit[t]) /\ VisitOK(visit[t])
  BY <1>4, <1>6
<1>8. /\ disk \in [Place -> Kinds] /\ staticUp = "down" /\ response_404 = "unset"
  BY DEF StaticInit
<1> QED BY <1>1, <1>2, <1>3, <1>4, <1>7, <1>8 DEF StaticIInv, StaticTypeOK, IsVisit, VisitStep

\* The types after a step are in the visits' own part of the invariant.
LEMMA TypeAfterVisits ==
    ASSUME disk' \in [Place -> Kinds], changes' \in 0..MaxChanges,
           staticUp' \in {"down", "up", "refused", "ended"},
           response_404' \in {"unset", "custom", "plain"},
           \A t \in Visitor : IsVisit(visit[t])'
    PROVE  StaticTypeOK'
<1>1. \A t \in Visitor :
         /\ visit'[t].pc \in VisitStep /\ visit'[t].status \in {0, 200, 400, 403, 404, 500}
         /\ visit'[t].index \in 1..(Len(settings'.index) + 1)
  <2> TAKE t \in Visitor
  <2>1. IsVisit(visit[t])'
    OBVIOUS
  <2>2. PICK v : v = visit'[t]
    OBVIOUS
  <2>3. IsVisit(v)'
    BY <2>1, <2>2
  <2>4. /\ v.pc \in VisitStep /\ v.status \in {0, 200, 400, 403, 404, 500}
        /\ v.index \in 1..(Len(settings'.index) + 1)
    BY <2>3 DEF IsVisit, VisitStep
  <2> QED BY <2>2, <2>4
<1> QED BY <1>1 DEF StaticTypeOK, VisitStep

\* A visitor's step: the tree, the changes and the settings stand still.
LEMMA VisitorKeeps ==
    ASSUME StaticIInv, NEW t \in Visitor, NEW w,
           visit' = [visit EXCEPT ![t] = w], IsVisit(w), VisitOK(w),
           disk' = disk, changes' = changes, settings' = settings, staticUp # "down",
           staticUp' \in {"up", "ended"}, response_404' \in {"unset", "custom", "plain"}
    PROVE  StaticIInv'
<1>1. visit = [s \in Visitor |-> visit[s]]
  BY DEF StaticIInv
<1>2. visit' = [s \in Visitor |-> visit'[s]] /\ visit'[t] = w
      /\ \A s \in Visitor : s # t => visit'[s] = visit[s]
  BY <1>1
<1>3. \A s \in Visitor : (IsVisit(visit[s]) /\ VisitOK(visit[s]))'
  <2> SUFFICES ASSUME NEW s \in Visitor PROVE IsVisit(visit[s])' /\ VisitOK(visit[s])'
    OBVIOUS
  <2>1. PICK v : v = visit'[s]
    OBVIOUS
  <2>2. IsVisit(v) /\ VisitOK(v)
    <3>1. CASE s = t
      BY <1>2, <2>1, <3>1
    <3>2. CASE s # t
      BY <1>2, <2>1, <3>2 DEF StaticIInv
    <3> QED BY <3>1, <3>2
  <2>3. IsVisit(v)' /\ VisitOK(v)'
    BY <2>2, VisitStill
  <2> QED BY <2>1, <2>3
<1>4. /\ disk' \in [Place -> Kinds] /\ TreeOK(disk)' /\ SettingsOK'
      /\ changes' \in 0..MaxChanges
  BY DEF StaticIInv, StaticTypeOK, TreeOK, SettingsOK
<1>5. staticUp' # "down" /\ staticUp' \in {"down", "up", "refused", "ended"}
  OBVIOUS
<1>6. \A s \in Visitor : IsVisit(visit[s])'
  BY <1>3
<1>7. StaticTypeOK'
  BY <1>4, <1>5, <1>6, TypeAfterVisits
<1> QED BY <1>2, <1>3, <1>4, <1>5, <1>7 DEF StaticIInv

\* start.
LEMMA StartKeeps ==
    ASSUME StaticIInv, StaticStart
    PROVE  StaticIInv'
<1>1. /\ staticUp = "down" /\ disk' = disk /\ changes' = changes
      /\ response_404' = response_404 /\ visit' = visit
  BY DEF StaticStart
<1>2. staticUp' \in {"up", "refused"}
  BY DEF StaticStart
<1>3. SettingsOK'
  <2>1. CASE settings' = settings
    BY <2>1 DEF StaticIInv, SettingsOK
  <2>2. CASE \E list, slash \in BOOLEAN, index \in {<<>>, DefaultIndex} :
                settings' = [index |-> index, list |-> list, slash |-> slash]
    BY <2>2 DEF SettingsOK
  <2> QED BY <2>1, <2>2 DEF StaticStart
<1>4. visit' = [t \in Visitor |-> NoVisit] /\ visit' = [t \in Visitor |-> visit'[t]]
  BY <1>1 DEF StaticIInv
<1>5. IsVisit(NoVisit)' /\ VisitOK(NoVisit)'
  <2>1. /\ NoVisit.pc = "idle" /\ NoVisit.index = 1 /\ NoVisit.status = 0 /\ NoVisit.since = 0
        /\ NoVisit = [pc |-> NoVisit.pc, url |-> NoVisit.url, path |-> NoVisit.path,
                      place |-> NoVisit.place, index |-> NoVisit.index,
                      status |-> NoVisit.status, file |-> NoVisit.file,
                      led |-> NoVisit.led, since |-> NoVisit.since]
    BY DEF NoVisit
  <2>2. Len(settings'.index) \in Nat
    <3>1. settings'.index = <<>> \/ settings'.index = DefaultIndex
      BY <1>3 DEF SettingsOK
    <3>2. Len(<<>>) = 0 /\ Len(DefaultIndex) = 3
      BY DEF DefaultIndex
    <3> QED BY <3>1, <3>2
  <2>3. changes \in Nat
    BY StaticAssumption DEF StaticIInv, StaticTypeOK
  <2>4. NoVisit.index \in 1..(Len(settings'.index) + 1) /\ NoVisit.since \in 0..changes'
    BY <1>1, <2>1, <2>2, <2>3
  <2>5. IsVisit(NoVisit)'
    BY <2>1, <2>4 DEF IsVisit, VisitStep
  <2>6. VisitOK(NoVisit)'
    BY <2>1 DEF VisitOK
  <2> QED BY <2>5, <2>6
<1>6. \A t \in Visitor : (IsVisit(visit[t]) /\ VisitOK(visit[t]))'
  <2> SUFFICES ASSUME NEW t \in Visitor PROVE IsVisit(visit[t])' /\ VisitOK(visit[t])'
    OBVIOUS
  <2>1. visit'[t] = NoVisit
    BY <1>4
  <2> QED BY <1>5, <2>1
<1>7. /\ disk' \in [Place -> Kinds] /\ TreeOK(disk)' /\ changes' \in 0..MaxChanges
      /\ response_404' \in {"unset", "custom", "plain"}
  BY <1>1 DEF StaticIInv, StaticTypeOK, TreeOK
<1>8. \A s \in Visitor : IsVisit(visit[s])'
  BY <1>6
<1>9. StaticTypeOK'
  BY <1>2, <1>7, <1>8, TypeAfterVisits
<1> QED BY <1>2, <1>3, <1>4, <1>6, <1>7, <1>9 DEF StaticIInv

\* Somebody changes the tree.
LEMMA TreeKeeps ==
    ASSUME StaticIInv, TreeChanges
    PROVE  StaticIInv'
<1>1. /\ staticUp' = "up" /\ settings' = settings /\ response_404' = response_404
      /\ changes < MaxChanges /\ changes' = changes + 1
  BY DEF TreeChanges
<1>2. PICK p \in Place \ {<<>>}, kind \in Kinds \ {"link"} :
        /\ Changed(p, kind)
        /\ visit' = [t \in Visitor |->
              IF visit[t].pc \in {"idle", "done"} THEN visit[t]
              ELSE [visit[t] EXCEPT !.led =
                       @ \cup {LedTo([disk EXCEPT ![p] = kind], visit[t].url)}]]
  BY DEF TreeChanges, Changed
<1>3. changes \in Nat /\ changes' \in 0..MaxChanges
  BY <1>1, StaticAssumption DEF StaticIInv, StaticTypeOK
<1>4. TreeOK(disk) /\ SettingsOK
  BY DEF StaticIInv
<1>5. disk' \in [Place -> Kinds] /\ TreeOK(disk')
  BY <1>2, <1>4, TreeAfter
<1>6. TreeOK(disk)' /\ SettingsOK'
  BY <1>1, <1>4, <1>5 DEF TreeOK, SettingsOK
<1>7. \A t \in Visitor : (IsVisit(visit[t]) /\ VisitOK(visit[t]))'
  <2> SUFFICES ASSUME NEW t \in Visitor PROVE IsVisit(visit[t])' /\ VisitOK(visit[t])'
    OBVIOUS
  <2>1. PICK v : v = visit[t]
    OBVIOUS
  <2>2. PICK w : w = visit'[t]
    OBVIOUS
  <2>3. Visiting(v)
    BY <1>4, <2>1 DEF StaticIInv, Visiting
  <2>4. CASE v.pc \in {"idle", "done"}
    <3>1. w = v
      BY <1>2, <2>1, <2>2, <2>4
    <3>2. v.since \in 0..changes' /\ v.since \in Int
      BY <1>1, <1>3, <2>3 DEF Visiting, IsVisit
    <3>3. IsVisit(v)'
      BY <1>1, <2>3, <3>2 DEF Visiting, IsVisit, VisitStep
    <3>4. changes - v.since > 1 => changes' - v.since > 1
      BY <1>1, <1>3, <3>2
    <3>5. Answered(v) => Answered(v)'
      BY <3>4 DEF Answered, Gives, Led
    <3>6. VisitOK(v)'
      BY <1>1, <2>3, <2>4, <3>5 DEF Visiting, VisitOK
    <3> QED BY <2>2, <3>1, <3>3, <3>6
  <2>5. CASE v.pc \notin {"idle", "done"}
    <3>1. disk' = [disk EXCEPT ![p] = kind]
      BY <1>2 DEF Changed
    <3>2. w = [v EXCEPT !.led = v.led \cup {LedTo(disk', v.url)}]
      BY <1>2, <2>1, <2>2, <2>5, <3>1
    <3>3. IsVisit(w)' /\ VisitOK(w)'
      BY <1>1, <1>2, <1>3, <2>3, <2>5, <3>2, ChangeKeeps
    <3> QED BY <2>2, <3>3
  <2> QED BY <2>4, <2>5
<1>8. visit' = [t \in Visitor |-> visit'[t]]
  BY <1>2
<1>9. StaticTypeOK'
  <2>1. \A s \in Visitor : IsVisit(visit[s])'
    BY <1>7
  <2>2. response_404' \in {"unset", "custom", "plain"}
    BY <1>1 DEF StaticIInv, StaticTypeOK
  <2> QED BY <1>1, <1>3, <1>5, <2>1, <2>2, TypeAfterVisits
<1> QED BY <1>1, <1>6, <1>7, <1>8, <1>9 DEF StaticIInv

\* The visit that Reply leaves.
LEMMA ReplyIs ==
    ASSUME NEW t, NEW status, NEW file, Reply(t, status, file)
    PROVE  visit' = [visit EXCEPT ![t] = Replies(visit[t], status, file)]
BY DEF Reply, Replies

\* The visit that GoOn leaves.
LEMMA GoOnIs ==
    ASSUME NEW t, NEW pc, GoOn(t, pc)
    PROVE  visit' = [visit EXCEPT ![t] = [visit[t] EXCEPT !.pc = pc]]
BY DEF GoOn

\* The invariant is kept by every step.
LEMMA StaticStepIInv ==
    ASSUME StaticIInv, [StaticNext]_staticVars
    PROVE  StaticIInv'
<1>1. ASSUME NEW t \in Visitor
      PROVE  /\ Visiting(visit[t])
             /\ AtStep(t, "index") => staticUp = "up"
  BY DEF Visiting, StaticIInv, AtStep
<1>2. response_404 \in {"unset", "custom", "plain"} /\ changes \in Nat
  BY StaticAssumption DEF StaticIInv, StaticTypeOK
<1>3. CASE StaticStart
  BY <1>3, StartKeeps
<1>4. CASE TreeChanges
  BY <1>4, TreeKeeps
<1>5. ASSUME NEW t \in Visitor, Visit(t) PROVE StaticIInv'
  <2>1. PICK url \in Urls :
          visit' = [visit EXCEPT ![t] = [NoVisit EXCEPT !.url = url, !.since = changes,
              !.led = {LedTo(disk, url)},
              !.pc = IF response_404 = "unset" THEN "missing" ELSE "decode"]]
    BY <1>5 DEF Visit
  <2> DEFINE pc == IF response_404 = "unset" THEN "missing" ELSE "decode"
             w == [NoVisit EXCEPT !.url = url, !.since = changes,
                                  !.led = {LedTo(disk, url)}, !.pc = pc]
  <2>2. visit' = [visit EXCEPT ![t] = w]
    BY <2>1
  <2>3. pc \in {"missing", "decode"}
    OBVIOUS
  <2> HIDE DEF pc
  <2>4. IsVisit(w) /\ VisitOK(w)
    BY <1>2, <2>3, VisitStarts DEF StaticIInv
  <2> HIDE DEF w
  <2>5. /\ disk' = disk /\ changes' = changes /\ settings' = settings /\ staticUp = "up"
        /\ staticUp' = "up" /\ response_404' = response_404
    BY <1>5 DEF Visit
  <2> QED BY <1>2, <2>2, <2>4, <2>5, VisitorKeeps
<1>6. ASSUME NEW t \in Visitor, MissingPage(t) PROVE StaticIInv'
  <2> DEFINE w == [visit[t] EXCEPT !.pc = "decode"]
  <2>1. visit' = [visit EXCEPT ![t] = w] /\ visit[t].pc = "missing"
    BY <1>6 DEF MissingPage, GoOn, AtStep
  <2>2. IsVisit(w) /\ VisitOK(w)
    BY <1>1, <2>1, MissingKeeps
  <2> HIDE DEF w
  <2>3. /\ disk' = disk /\ changes' = changes /\ settings' = settings /\ staticUp = "up"
        /\ staticUp' = "up"
    BY <1>6 DEF MissingPage, AtStep
  <2>4. response_404' \in {"unset", "custom", "plain"}
    BY <1>2, <1>6 DEF MissingPage
  <2> QED BY <2>1, <2>2, <2>3, <2>4, VisitorKeeps
<1>7. ASSUME NEW t \in Visitor, Looks(t) PROVE StaticIInv'
  <2>1. /\ disk' = disk /\ changes' = changes /\ settings' = settings
        /\ staticUp' = staticUp /\ response_404' = response_404
    BY <1>7 DEF Looks
  <2>2. staticUp = "up"
    BY <1>7 DEF Looks, AtStep, Decode, ResolvePath, PathExists, IsDirectory, TryIndex,
                ListDirectory, IsRegular
  <2>3. Visiting(visit[t])
    BY <1>1
  <2>4. SUFFICES \E w : visit' = [visit EXCEPT ![t] = w] /\ IsVisit(w) /\ VisitOK(w)
    BY <1>2, <2>1, <2>2, VisitorKeeps
  <2>5. CASE Decode(t)
    <3>1. PICK w : w = IF Len(visit[t].url) >= MaxPath THEN Replies(visit[t], 400, Nowhere)
                       ELSE [visit[t] EXCEPT !.pc = "resolve"]
      OBVIOUS
    <3>2. visit[t].pc = "decode"
          /\ IF Len(visit[t].url) >= MaxPath THEN Reply(t, 400, Nowhere) ELSE GoOn(t, "resolve")
      BY <2>5 DEF Decode, AtStep
    <3>3. visit' = [visit EXCEPT ![t] = w]
      BY <3>1, <3>2, ReplyIs, GoOnIs
    <3>4. IsVisit(w) /\ VisitOK(w)
      BY <2>3, <3>1, <3>2, DecodeKeeps
    <3> QED BY <3>3, <3>4
  <2>6. CASE ResolvePath(t)
    <3>1. PICK p : p = Checked(StaticRoot \o Decoded(visit[t].url))
      OBVIOUS
    <3>2. PICK w : w = IF Inside(p)
                       THEN [visit[t] EXCEPT !.pc = "exists", !.path = p,
                                             !.place = Follow(Links(disk), p)]
                       ELSE Replies(visit[t], 403, Nowhere)
      OBVIOUS
    <3>3. visit[t].pc = "resolve"
          /\ IF Inside(p) THEN visit' = [visit EXCEPT ![t].pc = "exists", ![t].path = p,
                                                     ![t].place = Follow(Links(disk), p)]
             ELSE Reply(t, 403, Nowhere)
      BY <2>6, <3>1 DEF ResolvePath, AtStep
    <3>4. visit' = [visit EXCEPT ![t] = w]
      <4>1. CASE Inside(p)
        BY <3>2, <3>3, <4>1
      <4>2. CASE ~Inside(p)
        BY <3>2, <3>3, <4>2, ReplyIs
      <4> QED BY <4>1, <4>2
    <3>5. IsVisit(w) /\ VisitOK(w)
      <4>1. IF Inside(p)
            THEN w = [visit[t] EXCEPT !.pc = "exists", !.path = p,
                                      !.place = Follow(Links(disk), p)]
            ELSE w = Replies(visit[t], 403, Nowhere)
        BY <3>2
      <4>2. visit[t].pc = "resolve"
        BY <3>3
      <4> QED BY <2>3, <3>1, <4>1, <4>2, ResolveKeeps
    <3> QED BY <3>4, <3>5
  <2>7. CASE PathExists(t)
    <3>1. PICK w : w = IF Node(disk, visit[t].place) = "none"
                       THEN Replies(visit[t], 404, Nowhere)
                       ELSE [visit[t] EXCEPT !.pc = "kind"]
      OBVIOUS
    <3>2. visit[t].pc = "exists"
          /\ IF Node(disk, visit[t].place) = "none" THEN Reply(t, 404, Nowhere)
             ELSE GoOn(t, "kind")
      BY <2>7 DEF PathExists, AtStep, Kind
    <3>3. visit' = [visit EXCEPT ![t] = w]
      BY <3>1, <3>2, ReplyIs, GoOnIs
    <3>4. IsVisit(w) /\ VisitOK(w)
      BY <2>3, <3>1, <3>2, ExistsKeeps
    <3> QED BY <3>3, <3>4
  <2>8. CASE IsDirectory(t)
    <3>1. PICK w : w = [visit[t] EXCEPT !.pc =
                           IF Node(disk, visit[t].place) = "dir" THEN "index" ELSE "regular"]
      OBVIOUS
    <3>2. visit[t].pc = "kind"
          /\ GoOn(t, IF Node(disk, visit[t].place) = "dir" THEN "index" ELSE "regular")
      BY <2>8 DEF IsDirectory, AtStep, Kind
    <3>3. visit' = [visit EXCEPT ![t] = w]
      BY <3>1, <3>2, GoOnIs
    <3>4. IsVisit(w) /\ VisitOK(w)
      BY <2>3, <3>1, <3>2, KindKeeps
    <3> QED BY <3>3, <3>4
  <2>9. CASE TryIndex(t)
    <3>1. PICK i : i = visit[t].index
      OBVIOUS
    <3>2. PICK p : p = IndexAt(disk, visit[t].place, i)
      OBVIOUS
    <3>3. visit[t].pc = "index"
          /\ IF i > Len(settings.index)
             THEN IF settings.list THEN GoOn(t, "list") ELSE Reply(t, 404, Nowhere)
             ELSE IF Node(disk, p) = "file"
             THEN visit' = [visit EXCEPT ![t].pc = "open", ![t].place = p,
                                         ![t].path = Append(@, settings.index[i])]
             ELSE visit' = [visit EXCEPT ![t].index = i + 1]
      BY <2>9, <3>1, <3>2 DEF TryIndex, AtStep
    <3>4. i \in 1..(Len(settings.index) + 1) /\ Len(settings.index) \in Nat
      BY <2>3, <3>1, IndexNames DEF Visiting, IsVisit
    <3>5. CASE i > Len(settings.index)
      <4>1. PICK w : w = IF settings.list THEN [visit[t] EXCEPT !.pc = "list"]
                         ELSE Replies(visit[t], 404, Nowhere)
        OBVIOUS
      <4>2. visit' = [visit EXCEPT ![t] = w]
        BY <3>3, <3>5, <4>1, ReplyIs, GoOnIs
      <4>3. IsVisit(w) /\ VisitOK(w)
        BY <2>3, <3>1, <3>3, <3>5, <4>1, NoName
      <4> QED BY <4>2, <4>3
    <3>6. CASE ~(i > Len(settings.index)) /\ Node(disk, p) = "file"
      <4>1. PICK w : w = [visit[t] EXCEPT !.pc = "open", !.place = p,
                                          !.path = Append(visit[t].path, settings.index[i])]
        OBVIOUS
      <4>2. visit' = [visit EXCEPT ![t] = w]
        BY <3>3, <3>6, <4>1
      <4>3. i \in 1..Len(settings.index) /\ IsFile(disk, visit[t].place, i)
        BY <3>2, <3>4, <3>6 DEF IsFile
      <4>4. IsVisit(w) /\ VisitOK(w)
        BY <2>3, <3>1, <3>2, <3>3, <4>1, <4>3, FileFound
      <4> QED BY <4>2, <4>4
    <3>7. CASE ~(i > Len(settings.index)) /\ Node(disk, p) # "file"
      <4>1. PICK w : w = [visit[t] EXCEPT !.index = i + 1]
        OBVIOUS
      <4>2. visit' = [visit EXCEPT ![t] = w]
        BY <3>3, <3>7, <4>1
      <4>3. i \in 1..Len(settings.index) /\ ~IsFile(disk, visit[t].place, i)
        BY <3>2, <3>4, <3>7 DEF IsFile
      <4>4. IsVisit(w) /\ VisitOK(w)
        BY <2>3, <3>1, <3>3, <4>1, <4>3, NextName
      <4> QED BY <4>2, <4>4
    <3> QED BY <3>5, <3>6, <3>7
  <2>10. CASE ListDirectory(t)
    <3>1. PICK w : w = IF Node(disk, visit[t].place) = "dir"
                       THEN Replies(visit[t], 200, visit[t].place)
                       ELSE Replies(visit[t], 500, Nowhere)
      OBVIOUS
    <3>2. visit[t].pc = "list"
          /\ IF Node(disk, visit[t].place) = "dir" THEN Reply(t, 200, visit[t].place)
             ELSE Reply(t, 500, Nowhere)
      BY <2>10 DEF ListDirectory, AtStep, Kind
    <3>3. visit' = [visit EXCEPT ![t] = w]
      BY <3>1, <3>2, ReplyIs
    <3>4. IsVisit(w) /\ VisitOK(w)
      BY <2>3, <3>1, <3>2, ListKeeps
    <3> QED BY <3>3, <3>4
  <2>11. CASE IsRegular(t)
    <3>1. PICK w : w = IF Node(disk, visit[t].place) = "file"
                       THEN [visit[t] EXCEPT !.pc = "open"]
                       ELSE Replies(visit[t], 404, Nowhere)
      OBVIOUS
    <3>2. visit[t].pc = "regular"
          /\ IF Node(disk, visit[t].place) = "file" THEN GoOn(t, "open")
             ELSE Reply(t, 404, Nowhere)
      BY <2>11 DEF IsRegular, AtStep, Kind
    <3>3. visit' = [visit EXCEPT ![t] = w]
      BY <3>1, <3>2, ReplyIs, GoOnIs
    <3>4. IsVisit(w) /\ VisitOK(w)
      BY <2>3, <3>1, <3>2, RegularKeeps
    <3> QED BY <3>3, <3>4
  <2> QED BY <1>7, <2>5, <2>6, <2>7, <2>8, <2>9, <2>10, <2>11 DEF Looks
<1>8. ASSUME NEW t \in Visitor, OpenFile(t) PROVE StaticIInv'
  <2>1. /\ disk' = disk /\ changes' = changes /\ settings' = settings
        /\ response_404' = response_404 /\ staticUp = "up" /\ visit[t].pc = "open"
    BY <1>8 DEF OpenFile, AtStep
  <2>2. CASE Node(disk, visit[t].place) = "none"
    <3>1. PICK w : w = Replies(visit[t], 500, Nowhere)
      OBVIOUS
    <3>2. visit' = [visit EXCEPT ![t] = w] /\ staticUp' = staticUp
      <4>1. Reply(t, 500, Nowhere) /\ staticUp' = staticUp
        BY <1>8, <2>2 DEF OpenFile, Kind
      <4> QED BY <3>1, <4>1, ReplyIs
    <3>3. IsVisit(w) /\ VisitOK(w)
      BY <1>1, <2>1, <2>2, <3>1, OpenKeeps
    <3> QED BY <1>2, <2>1, <3>2, <3>3, VisitorKeeps
  <2>3. CASE Node(disk, visit[t].place) # "none" /\ Last(visit[t].path) \in NoExtension
    <3>1. PICK w : w = visit[t]
      OBVIOUS
    <3>2. visit' = visit /\ staticUp' = "ended"
      BY <1>8, <2>3 DEF OpenFile, Kind
    <3>3. visit' = [visit EXCEPT ![t] = w]
      BY <3>1, <3>2 DEF StaticIInv
    <3>4. IsVisit(w) /\ VisitOK(w)
      BY <3>1 DEF StaticIInv
    <3> QED BY <1>2, <2>1, <3>2, <3>3, <3>4, VisitorKeeps
  <2>4. CASE Node(disk, visit[t].place) # "none" /\ Last(visit[t].path) \notin NoExtension
    <3>1. PICK w : w = Replies(visit[t], 200, visit[t].place)
      OBVIOUS
    <3>2. visit' = [visit EXCEPT ![t] = w] /\ staticUp' = staticUp
      BY <1>8, <2>4, <3>1 DEF OpenFile, Kind, Reply, Replies
    <3>3. IsVisit(w) /\ VisitOK(w)
      BY <1>1, <2>1, <2>4, <3>1, OpenKeeps
    <3> QED BY <1>2, <2>1, <3>2, <3>3, VisitorKeeps
  <2> QED BY <2>2, <2>3, <2>4
<1>9. CASE UNCHANGED staticVars
  <2>1. /\ disk' = disk /\ changes' = changes /\ settings' = settings /\ visit' = visit
        /\ staticUp' = staticUp /\ response_404' = response_404
    BY <1>9 DEF staticVars
  <2>2. \A t \in Visitor : (IsVisit(visit[t]) /\ VisitOK(visit[t]))'
    <3> SUFFICES ASSUME NEW t \in Visitor PROVE IsVisit(visit[t])' /\ VisitOK(visit[t])'
      OBVIOUS
    <3>1. PICK v : v = visit[t]
      OBVIOUS
    <3>2. IsVisit(v)' /\ VisitOK(v)'
      BY <2>1, <3>1, VisitStill DEF StaticIInv
    <3> QED BY <2>1, <3>1, <3>2
  <2>3. /\ disk' \in [Place -> Kinds] /\ TreeOK(disk)' /\ SettingsOK'
        /\ changes' \in 0..MaxChanges
    BY <2>1 DEF StaticIInv, StaticTypeOK, TreeOK, SettingsOK
  <2>4. /\ staticUp' \in {"down", "up", "refused", "ended"}
        /\ response_404' \in {"unset", "custom", "plain"}
        /\ staticUp' = "down" => visit' = [t \in Visitor |-> NoVisit]
        /\ visit' = [t \in Visitor |-> visit'[t]]
    BY <2>1 DEF StaticIInv, StaticTypeOK
  <2>5. \A s \in Visitor : IsVisit(visit[s])'
    BY <2>2
  <2>6. StaticTypeOK'
    BY <2>3, <2>4, <2>5, TypeAfterVisits
  <2> QED BY <2>2, <2>3, <2>4, <2>6 DEF StaticIInv
<1> QED BY <1>3, <1>4, <1>5, <1>6, <1>7, <1>8, <1>9 DEF StaticNext

\* Every request under way is in a state its answer can be right from.
LEMMA StaticInvariant == StaticSpec => []StaticIInv
<1>1. StaticInit => StaticIInv
  BY StaticInitIInv
<1>2. StaticIInv /\ [StaticNext]_staticVars => StaticIInv'
  BY StaticStepIInv
<1> QED BY <1>1, <1>2, PTL DEF StaticSpec

\* The static mod answers what is right for the tree at one moment of the request, or one
\* of the named cases applies, whatever the tree, the links, the urls and the changes
\* (RightAtOneMoment).
THEOREM StaticAnswersRight == StaticSpec => []RightAtOneMoment
<1>1. StaticIInv => RightAtOneMoment
  <2> SUFFICES ASSUME StaticIInv PROVE RightAtOneMoment
    OBVIOUS
  <2>1. ASSUME NEW t \in Visitor, visit[t].pc = "done" /\ ~settings.slash
        PROVE  Answered(visit[t])
    BY <2>1 DEF StaticIInv, VisitOK
  <2>2. StaticTypeOK
    BY DEF StaticIInv
  <2>3. ASSUME NEW t \in Visitor, Gives(visit[t], visit[t].status, visit[t].file), ~LedOut(t)
        PROVE  \E a \in visit[t].led : /\ RightAnswer(a).status = visit[t].status
                                       /\ RightAnswer(a).file = visit[t].file
    BY <2>3 DEF Gives, LedOut, RightAnswer
  <2> HIDE DEF RightAnswer
  <2> QED BY <2>1, <2>2, <2>3 DEF RightAtOneMoment, Answered, Led, LedElsewhere
<1> QED BY <1>1, StaticInvariant, PTL
=============================================================================
