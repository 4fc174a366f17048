----------------------------- MODULE ShareLinks -----------------------------
(***************************************************************************)
(* Downloads without a session: the public token of a row of files, the    *)
(* rows of share_links with their expiry and their limit, the two token    *)
(* caches, the handlers that create, revoke and serve, and restarts.       *)
(*                                                                         *)
(* A number stands for a random token: 128 bits do not collide.  A limit   *)
(* or an expiry of 0 is none.  No row of files is ever 'deleted' here: the *)
(* CHECK of the schema does not know that status (see WebDAVFiles).        *)
(***************************************************************************)
EXTENDS Naturals, Sequences, FiniteSets

CONSTANTS
    Projects,
    Clients,            \* downloads under way at a time
    Expiries, Limits,   \* what an operator may ask for
    CacheSize,          \* size of a token cache
    Slots,              \* downloads a handler serves at a time
    MaxId, MaxToken,    \* bounds: rows inserted, tokens drawn
    MaxTime,            \* bound: the clock
    None

Ids    == 1..MaxId
Tokens == 1..MaxToken

\* the rows of the two tables
Row  == [project : Projects, token : Tokens \cup {None}, born : Nat]
Link == [file : Ids, expires : Nat, limit : Nat, count : Nat]

\* what the constants are
Constants ==
    /\ Expiries \cup Limits \subseteq Nat
    /\ {CacheSize, Slots, MaxId, MaxToken, MaxTime} \subseteq Nat \ {0}
    /\ None \notin Nat \cup Row \cup Link

VARIABLES
    now,        \* the clock
    files,      \* rows of files by id: project and public_token
    lastId,     \* the sequence of AUTOINCREMENT
    drawn,      \* random tokens drawn so far
    links,      \* rows of share_links by token
    asked,      \* a ShareLinkHandler.Create that has found the file
    tokenCache, \* cache.TokenCache, the entry used last at the end
    shareCache, \* cache.ShareTokenCache
    dl,         \* a ServeDownload or ShareDownload call and its locals
    born,       \* history: rows of files inserted so far; a row remembers its number
    issued      \* history: the row a token was issued for, by that number

vars == <<now, files, lastId, drawn, links, asked, tokenCache, shareCache, dl, born, issued>>

Idle == [pc |-> "idle", kind |-> "public", token |-> 0, id |-> 0, born |-> 0]

Init ==
    /\ now = 1
    /\ files = [i \in Ids |-> None]
    /\ lastId = 0
    /\ drawn = 0
    /\ links = [t \in Tokens |-> None]
    /\ asked = None
    /\ tokenCache = <<>>
    /\ shareCache = <<>>
    /\ dl = [c \in Clients |-> Idle]
    /\ born = 0
    /\ issued = [t \in Tokens |-> 0]

-----------------------------------------------------------------------------
(* Files and their tokens. *)

\* GeneratePublicToken and generateShareToken
FreshToken == drawn + 1

\* Faulty variant: without AUTOINCREMENT, one more than the largest id in use.
NextId_Reused ==
    LET Used == {i \in Ids : files[i] # None}
    IN  IF Used = {} THEN 1 ELSE 1 + CHOOSE i \in Used : \A j \in Used : j <= i

\* files.id INTEGER PRIMARY KEY AUTOINCREMENT
NextId == lastId + 1

InsertFile(project, token) ==
    /\ NextId \in Ids
    /\ files' = [files EXCEPT ![NextId] = [project |-> project, token |-> token, born |-> born + 1]]
    /\ born' = born + 1
    /\ lastId' = IF NextId > lastId THEN NextId ELSE lastId

\* RegisterFile of a path that has no row yet
RegisterFile(project) ==
    /\ FreshToken \in Tokens
    /\ InsertFile(project, FreshToken)
    /\ drawn' = FreshToken
    /\ issued' = [issued EXCEPT ![FreshToken] = born + 1]
    /\ UNCHANGED <<now, links, asked, tokenCache, shareCache, dl>>

\* FileRepo.Create, for an asset of a crawl: no token yet
CreateFile(project) ==
    /\ InsertFile(project, None)
    /\ UNCHANGED <<now, drawn, links, asked, tokenCache, shareCache, dl, issued>>

\* ProjectRepo.Delete: the rows of its files go, or none if a link refers to one
DeleteProject(project) ==
    LET Mine == {i \in Ids : files[i] # None /\ files[i].project = project} IN
    /\ Mine # {}
    /\ \A t \in Tokens : links[t] # None => links[t].file \notin Mine
    /\ files' = [i \in Ids |-> IF i \in Mine THEN None ELSE files[i]]
    /\ UNCHANGED <<born, now, lastId, drawn, links, asked, tokenCache, shareCache, dl, issued>>

-----------------------------------------------------------------------------
(* Share links. *)

\* POST share-links: the file is there
CreateShareLink(i, expires, limit) ==
    /\ asked = None
    /\ files[i] # None
    /\ asked' = [file |-> i, expires |-> expires, limit |-> limit, count |-> 0]
    /\ UNCHANGED <<born, now, files, lastId, drawn, links, tokenCache, shareCache, dl, issued>>

\* ShareLinkService.Create: the row refers to the file, or the insert fails
InsertLink ==
    /\ asked # None
    /\ FreshToken \in Tokens
    /\ drawn' = FreshToken
    /\ asked' = None
    /\ IF files[asked.file] = None
       THEN UNCHANGED <<links, issued>>
       ELSE /\ links' = [links EXCEPT ![FreshToken] = asked]
            /\ issued' = [issued EXCEPT ![FreshToken] = files[asked.file].born]
    /\ UNCHANGED <<born, now, files, lastId, tokenCache, shareCache, dl>>

\* DELETE share-links/{token}
Revoke(t) ==
    /\ links[t] # None
    /\ links' = [links EXCEPT ![t] = None]
    /\ UNCHANGED <<born, now, files, lastId, drawn, asked, tokenCache, shareCache, dl, issued>>

Expired(link) == link.expires # 0 /\ now > link.expires

UsedUp(link) == link.limit # 0 /\ link.count >= link.limit

\* ShareLinkService.Validate accepts the token
Valid(t) == links[t] # None /\ ~Expired(links[t]) /\ ~UsedUp(links[t])

-----------------------------------------------------------------------------
(* The caches. *)

Holds(cache, t) == \E k \in DOMAIN cache : cache[k].token = t

\* a token is held once
Place(cache, t) == CHOOSE k \in DOMAIN cache : cache[k].token = t

Entry(cache, t) == cache[Place(cache, t)]

Without(cache, t) ==
    LET k == Place(cache, t)
    IN  IF Holds(cache, t) THEN SubSeq(cache, 1, k - 1) \o SubSeq(cache, k + 1, Len(cache)) ELSE cache

\* Cache.Get makes the entry the one used last
Get(cache, t) == IF Holds(cache, t) THEN Append(Without(cache, t), Entry(cache, t)) ELSE cache

\* Cache.Put gives up the entry whose use is longest ago
Put(cache, t, i) ==
    LET kept == Without(cache, t)
        room == IF Len(kept) >= CacheSize THEN Tail(kept) ELSE kept
    IN  Append(room, [token |-> t, id |-> i])

-----------------------------------------------------------------------------
(* Downloads. *)

Serving(kind) == Cardinality({c \in Clients : dl[c].kind = kind /\ dl[c].pc # "idle"})

\* a request that has its slot of the handler's semaphore looks into the cache
Request(c, kind, t) ==
    /\ dl[c].pc = "idle"
    /\ Serving(kind) < Slots
    /\ LET cache == IF kind = "public" THEN tokenCache ELSE shareCache IN
       dl' = [dl EXCEPT ![c] = [pc |-> IF Holds(cache, t) THEN "row" ELSE "miss", kind |-> kind,
                                token |-> t, id |-> IF Holds(cache, t) THEN Entry(cache, t).id ELSE 0,
                                born |-> 0]]
    /\ tokenCache' = IF kind = "public" THEN Get(tokenCache, t) ELSE tokenCache
    /\ shareCache' = IF kind = "share" THEN Get(shareCache, t) ELSE shareCache
    /\ UNCHANGED <<born, now, files, lastId, drawn, links, asked, issued>>

\* GET files/{token}/download: the row that has the token, which is remembered
ServeDownload(c) ==
    /\ dl[c].pc = "miss"
    /\ dl[c].kind = "public"
    /\ LET Found == {i \in Ids : files[i] # None /\ files[i].token = dl[c].token}
       IN  \/ /\ Found = {}
              /\ dl' = [dl EXCEPT ![c] = Idle]
              /\ UNCHANGED tokenCache
           \/ \E i \in Found :
                 /\ dl' = [dl EXCEPT ![c].pc = "row", ![c].id = i]
                 /\ tokenCache' = Put(tokenCache, dl[c].token, i)
    /\ UNCHANGED <<born, now, files, lastId, drawn, links, asked, shareCache, issued>>

\* GET s/{token}: a token that is not in the cache is validated and counted, in
\* one transaction, and remembered
ShareDownload(c) ==
    /\ dl[c].pc = "miss"
    /\ dl[c].kind = "share"
    /\ LET t == dl[c].token IN
       IF Valid(t)
       THEN /\ links' = [links EXCEPT ![t].count = @ + 1]
            /\ dl' = [dl EXCEPT ![c].pc = "row", ![c].id = links[t].file]
            /\ shareCache' = Put(shareCache, t, links[t].file)
       ELSE /\ dl' = [dl EXCEPT ![c] = Idle]
            /\ UNCHANGED <<links, shareCache>>
    /\ UNCHANGED <<born, now, files, lastId, drawn, asked, tokenCache, issued>>

\* the row by id, and the file it names, which may be missing
OpenFile(c) ==
    /\ dl[c].pc = "row"
    /\ \/ /\ files[dl[c].id] # None
          /\ dl' = [dl EXCEPT ![c].pc = "transfer", ![c].born = files[dl[c].id].born]
       \/ dl' = [dl EXCEPT ![c] = Idle]
    /\ UNCHANGED <<born, now, files, lastId, drawn, links, asked, tokenCache, shareCache, issued>>

\* the transfer ends, or its five minutes are over
TransferEnds(c) ==
    /\ dl[c].pc = "transfer"
    /\ dl' = [dl EXCEPT ![c] = Idle]
    /\ UNCHANGED <<born, now, files, lastId, drawn, links, asked, tokenCache, shareCache, issued>>

-----------------------------------------------------------------------------
\* BackfillPublicTokens: a token for each row that has none
Backfilled(i) == drawn + Cardinality({j \in Ids : files[j] # None /\ files[j].token = None /\ j <= i})

BackfillPublicTokens ==
    LET Bare == {i \in Ids : files[i] # None /\ files[i].token = None} IN
    /\ drawn + Cardinality(Bare) <= MaxToken
    /\ drawn' = drawn + Cardinality(Bare)
    /\ files' = [i \in Ids |-> IF i \in Bare THEN [files[i] EXCEPT !.token = Backfilled(i)] ELSE files[i]]
    /\ issued' = [t \in Tokens |->
           IF \E i \in Bare : Backfilled(i) = t THEN files[CHOOSE i \in Bare : Backfilled(i) = t].born ELSE issued[t]]

\* the process ends and starts again, with empty caches
Restart ==
    /\ BackfillPublicTokens
    /\ tokenCache' = <<>>
    /\ shareCache' = <<>>
    /\ dl' = [c \in Clients |-> Idle]
    /\ asked' = None
    /\ UNCHANGED <<born, now, lastId, links>>

Tick ==
    /\ now < MaxTime
    /\ now' = now + 1
    /\ UNCHANGED <<born, files, lastId, drawn, links, asked, tokenCache, shareCache, dl, issued>>

Next ==
    \/ \E p \in Projects : RegisterFile(p) \/ CreateFile(p) \/ DeleteProject(p)
    \/ \E i \in Ids, expires \in Expiries, limit \in Limits : CreateShareLink(i, expires, limit)
    \/ InsertLink
    \/ \E t \in Tokens : Revoke(t)
    \/ \E c \in Clients, kind \in {"public", "share"}, t \in 1..drawn : Request(c, kind, t)
    \/ \E c \in Clients :
           ServeDownload(c) \/ ShareDownload(c) \/ OpenFile(c) \/ TransferEnds(c)
    \/ Restart
    \/ Tick

Spec == Init /\ [][Next]_vars

-----------------------------------------------------------------------------
(* Properties. *)

\* Every variable has its type; neither cache outgrows its size nor holds a token twice.
TypeOK ==
    /\ now \in 1..MaxTime
    /\ files \in [Ids -> Row \cup {None}]
    /\ lastId \in 0..MaxId
    /\ drawn \in 0..MaxToken
    /\ links \in [Tokens -> Link \cup {None}]
    /\ asked \in Link \cup {None}
    /\ \A cache \in {tokenCache, shareCache} :
           /\ cache \in Seq([token : Tokens, id : Ids])
           /\ Len(cache) <= CacheSize
           /\ \A j, k \in DOMAIN cache : cache[j].token = cache[k].token => j = k
    /\ dl \in [Clients -> [pc : {"idle", "miss", "row", "transfer"}, kind : {"public", "share"},
                           token : Tokens \cup {0}, id : Ids \cup {0}, born : Nat]]

\* A token never serves a file other than the one it was issued for, whatever was
\* deleted, cached, evicted and inserted between the request and the transfer.
ServesItsFile ==
    \A c \in Clients : dl[c].pc = "transfer" => dl[c].born = issued[dl[c].token]

\* A link is never validated more often than its limit, and each of its files is
\* held: ProjectRepo.Delete leaves no link without a row.
LinksHold ==
    \A t \in Tokens : links[t] # None =>
        /\ links[t].limit # 0 => links[t].count <= links[t].limit
        /\ files[links[t].file] # None
=============================================================================
