-------------------------------- MODULE Cdn --------------------------------
(***************************************************************************)
(* The server of files of the storage mod (mods/storage/cdn).  Each worker *)
(* of its io_context has its own database connection and statements; a     *)
(* statement that was stepped and not reset refuses to be bound again, and *)
(* one that still has a row keeps the database from being written by       *)
(* others.  What leaves a handler ends its session, unanswered.            *)
(***************************************************************************)
EXTENDS Integers, Sequences, FiniteSets, Functions, SequencesExt

CONSTANTS
    Worker,
    AssetIds,       \* ids of rows of Assets
    Texts,          \* digits, as clients write them
    Made            \* tokens the server may make

ASSUME CdnAssumption ==
    IsFiniteSet(Worker) /\ AssetIds \subseteq Nat /\ Made \subseteq Nat

VARIABLES
    cdnUp,
    crew,       \* workers that run
    assets,     \* rows of Assets
    tokens,     \* token -> the asset of its row
    hasTokens,  \* the table Tokens exists
    at,         \* worker -> the statement it comes to
    asked,      \* worker -> the ids of the request
    used,       \* worker -> statements to reset
    open,       \* workers whose statement has a row
    revoked,    \* tokens whose deletion was answered
    outcome     \* worker -> what became of its last request

cdnVars == <<cdnUp, crew, assets, tokens, hasTokens, at, asked, used, open, revoked, outcome>>
cdnTables == <<assets, tokens, hasTokens>>

Base == 16
Dropped == 0
Statuses == {Dropped, 200, 400, 401, 404, 500}
NoRequest == [asset |-> 0, token |-> 0, late |-> FALSE]
StatementNames == {"file", "make", "grant", "token", "rows", "asset"}

\* to_rhex: the low digit first.
ToRhex[n \in Nat] == IF n < Base THEN <<n>> ELSE <<n % Base>> \o ToRhex[n \div Base]

\* from_rhex: E and F are not digits, and the last one is shifted too.
FromRhex(text) ==
    FoldLeft(LAMBDA n, d : IF d >= 14 THEN n ELSE (n + d) * Base, 0, text)

CdnTypeOK ==
    /\ cdnUp \in {"off", "serving", "refused", "crashed"}
    /\ crew \subseteq Worker /\ open \subseteq crew
    /\ assets \subseteq AssetIds
    /\ DOMAIN tokens \subseteq Made \cup {FromRhex(t) : t \in Texts}
    /\ at \in [Worker -> {"idle", "open", "post"} \cup StatementNames]
    /\ \A w \in Worker : used[w] \subseteq StatementNames
    /\ outcome \in [Worker -> Statuses \cup {-1}]

\* Nothing the server does makes an asset: the rows are put in by hand.
CdnInit ==
    /\ cdnUp = "off" /\ crew = {}
    /\ assets \in SUBSET AssetIds /\ tokens = <<>> /\ hasTokens \in BOOLEAN
    /\ at = [w \in Worker |-> "idle"]
    /\ asked = [w \in Worker |-> NoRequest]
    /\ used = [w \in Worker |-> {}] /\ open = {}
    /\ revoked = {}
    /\ outcome = [w \in Worker |-> -1]

-----------------------------------------------------------------------------
(* main: four variables are required and three are numbers; the count of   *)
(* threads is the fourth argument, whose absence reads past them.          *)

CdnStart ==
    /\ cdnUp = "off"
    /\ \E set \in SUBSET {"DB_PATH", "DATA_DIR", "BEARER_TOKEN", "MAX_STORAGE"},
          numbers, argument \in BOOLEAN, threads \in (SUBSET Worker) \ {{}} :
       IF Cardinality(set) < 4 \/ ~numbers
       THEN cdnUp' = "refused" /\ UNCHANGED crew
       ELSE \/ /\ argument \/ Cardinality(threads) = 1
               /\ cdnUp' = "serving" /\ crew' = threads
            \/ ~argument /\ cdnUp' = "crashed" /\ UNCHANGED crew
    /\ UNCHANGED <<cdnTables, at, asked, used, open, revoked, outcome>>

CdnStop ==
    /\ cdnUp \in {"serving", "refused", "crashed"}
    /\ cdnUp' = "off" /\ crew' = {} /\ open' = {}
    /\ at' = [w \in Worker |-> "idle"]
    /\ used' = [w \in Worker |-> {}]
    /\ asked' = [w \in Worker |-> NoRequest]
    /\ outcome' = [w \in Worker |-> -1]
    /\ UNCHANGED <<cdnTables, revoked>>

-----------------------------------------------------------------------------
(* Requests.                                                               *)

Responds(w, status) == outcome' = [outcome EXCEPT ![w] = status]
Steps(w, place) == at' = [at EXCEPT ![w] = place]

Finishes(w, status) ==
    /\ Responds(w, status) /\ Steps(w, "idle")
    /\ asked' = [asked EXCEPT ![w] = NoRequest]

\* A request that comes to a statement; the ids in it are read by from_rhex.
RequestComes(w) ==
    /\ w \in crew /\ at[w] = "idle"
    /\ \E place \in {"file", "make", "grant", "token", "rows", "post"}, a, t \in Texts :
          /\ Steps(w, place)
          /\ asked' = [asked EXCEPT ![w] =
                [asset |-> FromRhex(a), token |-> FromRhex(t),
                 late |-> FromRhex(t) \in revoked]]
    /\ Responds(w, -1)
    /\ UNCHANGED <<cdnUp, crew, cdnTables, used, open, revoked>>

\* One that does not: a path of no kind, no authorization, a path or a number that
\* does not parse, another method.
RequestRefused(w) ==
    /\ w \in crew /\ at[w] = "idle"
    /\ \E status \in {400, 401, 404} : Responds(w, status)
    /\ UNCHANGED <<cdnUp, crew, cdnTables, at, asked, used, open, revoked>>

Others(w) == crew \ {w}

\* Another connection is in a statement, or has a row to read while this one writes.
MayBeBusy(w) ==
    \E v \in Others(w) : at[v] \in StatementNames \/ (at[w] # "file" /\ v \in open)
MustBeBusy(w) == at[w] # "file" /\ Others(w) \cap open # {}

Needs(name) == name # "asset" => hasTokens
Ready(w, name) == at[w] = name /\ Needs(name) /\ name \notin used[w]

\* Preparing, binding or stepping the statement throws.  What stepping a token's
\* INSERT throws is caught, and answered like success.
StatementThrows(w) ==
    /\ at[w] \in StatementNames
    /\ ~Ready(w, at[w]) \/ MayBeBusy(w)
    /\ Finishes(w, IF Ready(w, at[w]) /\ at[w] \in {"make", "grant"} THEN 200 ELSE Dropped)
    /\ used' = [used EXCEPT ![w] = IF Needs(at[w]) THEN @ \cup {at[w]} ELSE @]
    /\ UNCHANGED <<cdnUp, crew, cdnTables, open, revoked>>

\* new_asset names a column that no table has.
PostThrows(w) ==
    /\ at[w] = "post"
    /\ Finishes(w, Dropped)
    /\ UNCHANGED <<cdnUp, crew, cdnTables, used, open, revoked>>

\* The row of the request's token grants the asset.
Granted(w) == asked[w].token \in DOMAIN tokens /\ tokens[asked[w].token] = asked[w].asset

\* file_resp.  The row found stays with the statement.
FindFile(w) ==
    /\ Ready(w, "file")
    /\ IF asked[w].asset \in assets /\ Granted(w)
       THEN /\ used' = [used EXCEPT ![w] = @ \cup {"file"}]
            /\ open' = open \cup {w}
            /\ Steps(w, "open") /\ UNCHANGED <<asked, outcome>>
       ELSE Finishes(w, 404) /\ UNCHANGED <<used, open>>
    /\ UNCHANGED <<cdnUp, crew, cdnTables, revoked>>

SendFile(w) ==
    /\ at[w] = "open"
    /\ \E status \in {200, 404, 500} : Finishes(w, status)
    /\ UNCHANGED <<cdnUp, crew, cdnTables, used, open, revoked>>

\* Executes a statement that writes.
Executes(w, name) == Ready(w, name) /\ ~MustBeBusy(w)
Spends(w, name) == used' = [used EXCEPT ![w] = @ \cup {name}]

\* INSERT of a token that has no row; of one that has, the error is caught.
Inserted(w, token) ==
    IF token \in DOMAIN tokens
    THEN /\ asked' = [asked EXCEPT ![w] = NoRequest] /\ UNCHANGED <<tokens, revoked>>
    ELSE /\ tokens' = [t \in DOMAIN tokens \cup {token} |->
                          IF t = token THEN asked[w].asset ELSE tokens[t]]
         /\ revoked' = revoked \ {token}
         /\ asked' = [v \in Worker |->
               IF v = w THEN NoRequest
               ELSE [asked[v] EXCEPT !.late = @ /\ asked[v].token # token]]

NewToken(w) ==
    /\ \/ /\ Executes(w, "make") /\ Spends(w, "make")
          /\ \E token \in Made : Inserted(w, token)
       \/ /\ Executes(w, "grant") /\ Spends(w, "grant")
          /\ Inserted(w, asked[w].token)
    /\ Responds(w, 200) /\ Steps(w, "idle")
    /\ UNCHANGED <<cdnUp, crew, assets, hasTokens, open>>

\* Mutant: the deletion names the asset, not the token.
RowsOfToken_Asset(token) == {t \in DOMAIN tokens : tokens[t] = token}

RowsOfToken(token) == {t \in DOMAIN tokens : t = token}

DeleteToken(w) ==
    /\ Executes(w, "token") /\ Spends(w, "token")
    /\ tokens' = Restrict(tokens, DOMAIN tokens \ RowsOfToken(asked[w].token))
    /\ revoked' = revoked \cup {asked[w].token}
    /\ Finishes(w, 200)
    /\ UNCHANGED <<cdnUp, crew, assets, hasTokens, open>>

\* delete_asset, two statements that commit by themselves and are reset.  The file
\* stays.
DeleteRows(w) ==
    /\ Executes(w, "rows")
    /\ LET gone == {t \in DOMAIN tokens : tokens[t] = asked[w].asset} IN
       /\ tokens' = Restrict(tokens, DOMAIN tokens \ gone)
       /\ revoked' = revoked \cup gone
    /\ Steps(w, "asset")
    /\ UNCHANGED <<cdnUp, crew, assets, hasTokens, asked, used, open, outcome>>

DeleteAsset(w) ==
    /\ Executes(w, "asset")
    /\ assets' = assets \ {asked[w].asset}
    /\ Finishes(w, 200)
    /\ UNCHANGED <<cdnUp, crew, tokens, hasTokens, used, open, revoked>>

CdnNext ==
    \/ CdnStart \/ CdnStop
    \/ \E w \in Worker :
          \/ RequestComes(w) \/ RequestRefused(w)
          \/ StatementThrows(w) \/ PostThrows(w)
          \/ FindFile(w) \/ SendFile(w)
          \/ NewToken(w) \/ DeleteToken(w) \/ DeleteRows(w) \/ DeleteAsset(w)

CdnSpec == CdnInit /\ [][CdnNext]_cdnVars

-----------------------------------------------------------------------------

\* A file is not sent for a token whose deletion was answered before the request
\* came, unless it was inserted again.
RevokedNotSent ==
    /\ CdnTypeOK
    /\ \A w \in crew : at[w] = "open" => ~asked[w].late

\* As main.cpp says of from_rhex: it is the opposite of to_rhex, in which the server
\* writes the tokens it made.
TokensReadBack ==
    \A t \in DOMAIN tokens \cap Made : FromRhex(ToRhex[t]) = t

\* As the README of the CDN says: a request with a token of an asset gets the file.
\* It has an answer at least where one worker runs, with whom nobody competes for the
\* database.
GrantedIsAnswered ==
    [][\A w \in crew :
          crew = {w} /\ at[w] = "file" /\ Granted(w) => outcome'[w] # Dropped]_cdnVars
=============================================================================
