---------------------------- MODULE ServiceProofs ----------------------------
(***************************************************************************)
(* Theorems about what clients see of the files, and about the life of the *)
(* process, for every value of the constants.                              *)
(***************************************************************************)
EXTENDS MCFileAccess, MCLifecycle, Integers, FiniteSets, FiniteSetTheorems, SequenceTheorems, WellFoundedInduction, TLAPS

\* A step of the whole is a step, or none, of each module.
LEMMA StepsOfEach ==
    ASSUME [ShareNext \/ DavNext \/ AptNext \/ PipNext \/ RuleNext \/ LoopNext]_<<focus, share, dav, apt, pip, rule, loops>>
    PROVE  /\ [Share!Next]_share
           /\ [Dav!Next]_dav
           /\ [Apt!Next]_apt
           /\ [Pip!Next]_pip
           /\ [Rule!Next]_rule
           /\ focus' = focus
  BY DEF ShareNext, DavNext, AptNext, PipNext, RuleNext, LoopNext, share, dav, apt, pip, rule

-----------------------------------------------------------------------------
(* ShareLinks. *)

CacheEntry == [token : Share!Tokens, id : Share!Ids]

\* A cache within its size that holds each token once.
GoodCache(cache) ==
    /\ cache \in Seq(CacheEntry)
    /\ Len(cache) <= CacheSize
    /\ \A j, m \in DOMAIN cache : cache[j].token = cache[m].token => j = m

\* What one cache holds, another holds too.
Within(new, cache) == \A j \in DOMAIN new : \E m \in DOMAIN cache : new[j] = cache[m]

\* The numbers among the constants.
LEMMA ShareNumbers ==
    /\ CacheSize \in Nat /\ MaxId \in Nat /\ MaxToken \in Nat /\ MaxTime \in Nat
    /\ CacheSize >= 1 /\ MaxTime >= 1
    /\ Expiries \subseteq Nat /\ Limits \subseteq Nat
    /\ None \notin Nat /\ None \notin Share!Row /\ None \notin Share!Link
  BY FileAccessAssumption, SMT DEF Share!Constants

\* The place of a token that a cache holds.
LEMMA PlaceOf ==
    ASSUME NEW cache, NEW t, Share!Holds(cache, t)
    PROVE  Share!Place(cache, t) \in DOMAIN cache /\ cache[Share!Place(cache, t)].token = t
  BY Zenon DEF Share!Holds, Share!Place

\* A cache without its m-th entry.
Taken(cache, m) == SubSeq(cache, 1, m - 1) \o SubSeq(cache, m + 1, Len(cache))

\* Taking out an entry moves those behind it.
LEMMA TakenOut ==
    ASSUME NEW cache \in Seq(CacheEntry), NEW m \in 1..Len(cache)
    PROVE  /\ Taken(cache, m) \in Seq(CacheEntry)
           /\ Len(Taken(cache, m)) = Len(cache) - 1
           /\ \A j \in 1..(Len(cache) - 1) :
                  Taken(cache, m)[j] = cache[IF j < m THEN j ELSE j + 1]
<1>0. PICK a, b : a = SubSeq(cache, 1, m - 1) /\ b = SubSeq(cache, m + 1, Len(cache))
  OBVIOUS
<1>1. a \in Seq(CacheEntry) /\ Len(a) = m - 1 /\ \A j \in 1..(m - 1) : a[j] = cache[j]
  BY <1>0, SubSeqProperties, SMT
<1>2. b \in Seq(CacheEntry) /\ Len(b) = Len(cache) - m
      /\ \A j \in 1..(Len(cache) - m) : b[j] = cache[m + j]
  BY <1>0, SubSeqProperties, SMT
<1>a. Len(a) + Len(b) = Len(cache) - 1
  BY <1>1, <1>2, LenProperties, SMT
<1>b. /\ a \o b \in Seq(CacheEntry) /\ Len(a \o b) = Len(a) + Len(b)
      /\ \A j \in 1..(Len(a) + Len(b)) : (a \o b)[j] = IF j <= Len(a) THEN a[j] ELSE b[j - Len(a)]
  BY <1>1, <1>2, ConcatProperties
<1>3. a \o b \in Seq(CacheEntry) /\ Len(a \o b) = Len(cache) - 1
  BY <1>a, <1>b
<1>4. \A j \in 1..(Len(cache) - 1) : (a \o b)[j] = IF j <= Len(a) THEN a[j] ELSE b[j - Len(a)]
  BY <1>a, <1>b
<1>5. Taken(cache, m) = a \o b
  BY <1>0 DEF Taken
<1>6. ASSUME NEW j \in 1..(Len(cache) - 1)
      PROVE  (a \o b)[j] = cache[IF j < m THEN j ELSE j + 1]
  <2>1. CASE j < m
    BY <1>1, <1>4, <2>1, SMT
  <2>2. CASE ~(j < m)
    <3>1. j - (m - 1) \in 1..(Len(cache) - m) /\ m + (j - (m - 1)) = j + 1 /\ ~(j <= Len(a))
      BY <1>1, <2>2, SMT
    <3> QED
      BY <1>1, <1>2, <1>4, <2>2, <3>1, SMT
  <2> QED
    BY <2>1, <2>2
<1> QED
  BY <1>3, <1>5, <1>6

\* A cache without one of its tokens.
LEMMA WithoutToken ==
    ASSUME NEW cache, GoodCache(cache), NEW t
    PROVE  /\ GoodCache(Share!Without(cache, t))
           /\ Within(Share!Without(cache, t), cache)
           /\ \A j \in DOMAIN Share!Without(cache, t) : Share!Without(cache, t)[j].token # t
           /\ Share!Holds(cache, t) => Len(Share!Without(cache, t)) = Len(cache) - 1
<1>1. CASE ~Share!Holds(cache, t)
  <2>1. Share!Without(cache, t) = cache
    BY <1>1 DEF Share!Without
  <2> QED
    BY <1>1, <2>1 DEF Within, Share!Holds
<1>2. CASE Share!Holds(cache, t)
  <2>1. PICK m : m = Share!Place(cache, t)
    OBVIOUS
  <2>2. PICK w : w = Share!Without(cache, t)
    OBVIOUS
  <2>3. m \in 1..Len(cache) /\ cache[m].token = t /\ w = Taken(cache, m)
    BY <1>2, <2>1, <2>2, PlaceOf, LenProperties DEF GoodCache, Share!Without, Taken
  <2>4. /\ w \in Seq(CacheEntry) /\ Len(w) = Len(cache) - 1
        /\ \A j \in 1..(Len(cache) - 1) : w[j] = cache[IF j < m THEN j ELSE j + 1]
    BY <2>3, TakenOut DEF GoodCache
  <2>5. DOMAIN w = 1..(Len(cache) - 1) /\ DOMAIN cache = 1..Len(cache) /\ Len(cache) \in Nat
    BY <2>4, LenProperties DEF GoodCache
  <2>6. \A j \in DOMAIN w : \E i \in DOMAIN cache : i # m /\ w[j] = cache[i]
    <3> TAKE j \in DOMAIN w
    <3>1. (IF j < m THEN j ELSE j + 1) \in DOMAIN cache /\ (IF j < m THEN j ELSE j + 1) # m
      BY <2>3, <2>5, SMT
    <3> QED
      BY <2>4, <2>5, <3>1
  <2>7. \A i, j \in DOMAIN w : w[i].token = w[j].token => i = j
    <3> SUFFICES ASSUME NEW i \in DOMAIN w, NEW j \in DOMAIN w, w[i].token = w[j].token PROVE i = j
      OBVIOUS
    <3>1. PICK x, y : x = (IF i < m THEN i ELSE i + 1) /\ y = (IF j < m THEN j ELSE j + 1)
      OBVIOUS
    <3>2. x \in DOMAIN cache /\ y \in DOMAIN cache /\ (x = y => i = j)
      BY <2>3, <2>5, <3>1, SMT
    <3>3. w[i] = cache[x] /\ w[j] = cache[y]
      BY <2>4, <2>5, <3>1
    <3> QED
      BY <3>2, <3>3 DEF GoodCache
  <2>8. \A i \in DOMAIN cache : i # m => cache[i].token # t
    BY <2>3, <2>5 DEF GoodCache
  <2>9. Len(w) <= CacheSize
    BY <2>4, <2>5, ShareNumbers, SMT DEF GoodCache
  <2> QED
    BY <2>2, <2>4, <2>6, <2>7, <2>8, <2>9 DEF GoodCache, Within
<1> QED
  BY <1>1, <1>2

\* Appending an entry whose token is not held.
LEMMA Appended ==
    ASSUME NEW cache, GoodCache(cache), Len(cache) < CacheSize, NEW e \in CacheEntry,
           \A j \in DOMAIN cache : cache[j].token # e.token
    PROVE  /\ GoodCache(Append(cache, e))
           /\ \A j \in DOMAIN Append(cache, e) :
                  Append(cache, e)[j] = e \/ \E m \in DOMAIN cache : Append(cache, e)[j] = cache[m]
<1>1. PICK w : w = Append(cache, e)
  OBVIOUS
<1>2. cache \in Seq(CacheEntry) /\ Len(cache) \in Nat /\ DOMAIN cache = 1..Len(cache)
  BY LenProperties DEF GoodCache
<1>3. w \in Seq(CacheEntry) /\ Len(w) = Len(cache) + 1 /\ w[Len(cache) + 1] = e
      /\ \A j \in 1..Len(cache) : w[j] = cache[j]
  BY <1>1, <1>2, AppendProperties
<1>4. DOMAIN w = 1..(Len(cache) + 1)
  BY <1>3, LenProperties
<1>5. \A j \in DOMAIN w : j = Len(cache) + 1 \/ j \in DOMAIN cache
  BY <1>2, <1>4, SMT
<1>6. \A i, j \in DOMAIN w : w[i].token = w[j].token => i = j
  BY <1>2, <1>3, <1>5 DEF GoodCache
<1>7. Len(w) <= CacheSize
  BY <1>2, <1>3, ShareNumbers, SMT
<1> QED
  BY <1>1, <1>2, <1>3, <1>5, <1>6, <1>7 DEF GoodCache

\* Cache.Get keeps what the cache holds.
LEMMA GetKeeps ==
    ASSUME NEW cache, GoodCache(cache), NEW t
    PROVE  /\ GoodCache(Share!Get(cache, t)) /\ Within(Share!Get(cache, t), cache)
           /\ Share!Holds(cache, t) => \E m \in DOMAIN cache :
                  cache[m].token = t /\ Share!Entry(cache, t) = cache[m]
<1>1. CASE ~Share!Holds(cache, t)
  BY <1>1 DEF Share!Get, Within
<1>2. CASE Share!Holds(cache, t)
  <2>1. PICK w, e : w = Share!Without(cache, t) /\ e = Share!Entry(cache, t)
    OBVIOUS
  <2>2. PICK m \in DOMAIN cache : cache[m] = e /\ e.token = t
    BY <1>2, <2>1, PlaceOf DEF Share!Entry
  <2>3. e \in CacheEntry
    BY <2>2, ElementOfSeq, LenProperties DEF GoodCache
  <2>4. /\ GoodCache(w) /\ Within(w, cache) /\ Len(w) = Len(cache) - 1
        /\ \A j \in DOMAIN w : w[j].token # t
    BY <1>2, <2>1, WithoutToken
  <2>5. Len(w) < CacheSize
    BY <2>4, LenProperties, ShareNumbers, SMT DEF GoodCache
  <2>6. GoodCache(Append(w, e)) /\ \A j \in DOMAIN Append(w, e) :
            Append(w, e)[j] = e \/ \E i \in DOMAIN w : Append(w, e)[j] = w[i]
    BY <2>2, <2>3, <2>4, <2>5, Appended
  <2>7. Share!Get(cache, t) = Append(w, e)
    BY <1>2, <2>1 DEF Share!Get
  <2> QED
    BY <2>1, <2>2, <2>4, <2>6, <2>7 DEF Within
<1> QED
  BY <1>1, <1>2

\* Cache.Put adds one entry, and may lose another.
LEMMA PutAdds ==
    ASSUME NEW cache, GoodCache(cache), NEW t \in Share!Tokens, NEW i \in Share!Ids
    PROVE  /\ GoodCache(Share!Put(cache, t, i))
           /\ \A j \in DOMAIN Share!Put(cache, t, i) :
                  \/ Share!Put(cache, t, i)[j] = [token |-> t, id |-> i]
                  \/ \E m \in DOMAIN cache : Share!Put(cache, t, i)[j] = cache[m]
<1>1. PICK w : w = Share!Without(cache, t)
  OBVIOUS
<1>2. PICK r : r = IF Len(w) >= CacheSize THEN Tail(w) ELSE w
  OBVIOUS
<1>3. PICK e : e = [token |-> t, id |-> i]
  OBVIOUS
<1>4. e \in CacheEntry /\ e.token = t
  BY <1>3 DEF CacheEntry
<1>5. GoodCache(w) /\ Within(w, cache) /\ \A j \in DOMAIN w : w[j].token # t
  BY <1>1, WithoutToken
<1>6. GoodCache(r) /\ Within(r, w) /\ Len(r) < CacheSize
  <2>1. w \in Seq(CacheEntry) /\ Len(w) \in Nat /\ DOMAIN w = 1..Len(w) /\ Len(w) <= CacheSize
    BY <1>5, LenProperties DEF GoodCache
  <2>2. CASE Len(w) >= CacheSize
    <3>1. Len(w) >= 1 /\ w # <<>> /\ r = Tail(w)
      BY <1>2, <2>1, <2>2, ShareNumbers, SMT
    <3>2. r \in Seq(CacheEntry) /\ Len(r) = Len(w) - 1 /\ \A j \in 1..Len(r) : r[j] = w[j + 1]
      BY <2>1, <3>1, SMT
    <3>3. DOMAIN r = 1..Len(r) /\ Len(r) \in Nat
      BY <3>2, LenProperties
    <3>4. \A j \in DOMAIN r : j + 1 \in DOMAIN w /\ r[j] = w[j + 1]
      BY <2>1, <3>2, <3>3, SMT
    <3>5. \A x, y \in DOMAIN r : r[x].token = r[y].token => x = y
      <4> SUFFICES ASSUME NEW x \in DOMAIN r, NEW y \in DOMAIN r, r[x].token = r[y].token PROVE x = y
        OBVIOUS
      <4>1. x + 1 = y + 1
        BY <3>4, <1>5 DEF GoodCache
      <4> QED
        BY <3>3, <4>1, SMT
    <3>6. Len(r) < CacheSize
      BY <2>1, <3>1, <3>2, ShareNumbers, SMT
    <3> QED
      BY <3>2, <3>4, <3>5, <3>6, <3>3, ShareNumbers, SMT DEF GoodCache, Within
  <2>3. CASE ~(Len(w) >= CacheSize)
    BY <1>2, <1>5, <2>1, <2>3, ShareNumbers, SMT DEF Within
  <2> QED
    BY <2>2, <2>3
<1>7. GoodCache(Append(r, e)) /\ \A j \in DOMAIN Append(r, e) :
          Append(r, e)[j] = e \/ \E m \in DOMAIN r : Append(r, e)[j] = r[m]
  BY <1>4, <1>5, <1>6, Appended DEF Within
<1>8. Share!Put(cache, t, i) = Append(r, e)
  BY <1>1, <1>2, <1>3 DEF Share!Put
<1>9. Within(r, cache)
  BY <1>5, <1>6 DEF Within
<1>10. PICK p : p = Share!Put(cache, t, i)
  OBVIOUS
<1> QED
  BY <1>3, <1>7, <1>8, <1>9, <1>10 DEF Within

DlRecord == [pc : {"idle", "miss", "row", "transfer"}, kind : {"public", "share"},
             token : Share!Tokens \cup {0}, id : Share!Ids \cup {0}, born : Nat]

\* The row with an id is the one a token was issued for, if there is one at all:
\* what a cache remembers and what a download carries from one statement to the next.
Leads(t, i) ==
    /\ t \in 1..drawn
    /\ i \in 1..lastId
    /\ rows[i] # None => rows[i].born = issued[t]

\* Every cached entry leads to the file of its token.
CacheLeads(cache) == \A j \in DOMAIN cache : Leads(cache[j].token, cache[j].id)

\* The types, with the histories.
ShareTypes ==
    /\ now \in 1..MaxTime
    /\ rows \in [Share!Ids -> Share!Row \cup {None}]
    /\ lastId \in 0..MaxId
    /\ drawn \in 0..MaxToken
    /\ links \in [Share!Tokens -> Share!Link \cup {None}]
    /\ asked \in Share!Link \cup {None}
    /\ GoodCache(tokenCache) /\ GoodCache(shareCache)
    /\ dl \in [Clients -> DlRecord]
    /\ born \in Nat
    /\ issued \in [Share!Tokens -> Nat]

\* A row's id has been given out, and its token was issued for it.
RowsIssued ==
    \A i \in Share!Ids : rows[i] # None =>
        /\ i <= lastId
        /\ rows[i].token # None => rows[i].token <= drawn /\ issued[rows[i].token] = rows[i].born

\* A link was issued for the row that it names, which is there.
LinksIssued ==
    \A t \in Share!Tokens : links[t] # None =>
        /\ t <= drawn
        /\ rows[links[t].file] # None
        /\ issued[t] = rows[links[t].file].born
        /\ links[t].limit # 0 => links[t].count <= links[t].limit

\* A download's token is one that was drawn, and what it has found leads to the file.
DownloadsLead ==
    \A c \in Clients :
        /\ dl[c].pc # "idle" => dl[c].token \in 1..drawn
        /\ dl[c].pc = "row" => Leads(dl[c].token, dl[c].id)
        /\ dl[c].pc = "transfer" => dl[c].born = issued[dl[c].token]

ShareInv ==
    /\ ShareTypes
    /\ RowsIssued
    /\ LinksIssued
    /\ CacheLeads(tokenCache) /\ CacheLeads(shareCache)
    /\ DownloadsLead
    /\ asked # None => asked.count = 0

LEMMA ShareInit == ASSUME Share!Init PROVE ShareInv
<1>1. Share!Idle \in DlRecord /\ Share!Idle.pc = "idle"
  BY DEF Share!Idle, DlRecord, Share!Tokens, Share!Ids
<1>2. GoodCache(<<>>) /\ CacheLeads(<<>>)
  BY ShareNumbers, EmptySeq, SMT DEF GoodCache, CacheLeads
<1>3. ShareTypes
  BY <1>1, <1>2, ShareNumbers, SMT DEF Share!Init, ShareTypes
<1> QED
  BY <1>1, <1>2, <1>3, SMT DEF Share!Init, ShareInv, RowsIssued, LinksIssued, DownloadsLead

\* What leads to a file does so after a step that only adds tokens and rows, or takes rows away.
LEMMA LeadsStill ==
    ASSUME ShareInv, ShareTypes',
           drawn <= drawn', lastId <= lastId',
           \A t \in 1..drawn : issued'[t] = issued[t],
           \A i \in 1..lastId : rows'[i] # None => rows[i] # None /\ rows'[i].born = rows[i].born
    PROVE  /\ \A t, i : Leads(t, i) => Leads(t, i)'
           /\ tokenCache' = tokenCache => CacheLeads(tokenCache)'
           /\ shareCache' = shareCache => CacheLeads(shareCache)'
           /\ dl' = dl => DownloadsLead'
<1>0. drawn \in Nat /\ drawn' \in Nat /\ lastId \in Nat /\ lastId' \in Nat
  BY ShareNumbers, SMT DEF ShareInv, ShareTypes
<1>1. \A t, i : Leads(t, i) => Leads(t, i)'
  <2> SUFFICES ASSUME NEW t, NEW i, Leads(t, i) PROVE Leads(t, i)'
    OBVIOUS
  <2> QED
    BY <1>0, SMT DEF Leads
<1>2. ASSUME dl' = dl PROVE DownloadsLead'
  <2> SUFFICES ASSUME NEW c \in Clients
               PROVE  /\ dl[c].pc # "idle" => dl[c].token \in 1..drawn'
                      /\ dl[c].pc = "row" => Leads(dl[c].token, dl[c].id)'
                      /\ dl[c].pc = "transfer" => dl[c].born = issued'[dl[c].token]
    BY <1>2 DEF DownloadsLead
  <2>1. /\ dl[c].pc # "idle" => dl[c].token \in 1..drawn
        /\ dl[c].pc = "row" => Leads(dl[c].token, dl[c].id)
        /\ dl[c].pc = "transfer" => dl[c].born = issued[dl[c].token]
    BY DEF ShareInv, DownloadsLead
  <2>2. dl[c].pc = "row" => Leads(dl[c].token, dl[c].id)'
    BY <1>1, <1>2, <2>1
  <2> QED
    BY <1>0, <2>1, <2>2, SMT
<1> QED
  BY <1>1, <1>2 DEF ShareInv, CacheLeads

\* A new row, with a token drawn for it or without one.
LEMMA ShareInsert ==
    ASSUME ShareInv, NEW p \in ShareProjects, NEW t \in Share!Tokens \cup {None},
           Share!InsertFile(p, t),
           \/ t = drawn + 1 /\ drawn' = drawn + 1 /\ issued' = [issued EXCEPT ![drawn + 1] = born + 1]
           \/ t = None /\ UNCHANGED <<drawn, issued>>,
           UNCHANGED <<now, links, asked, tokenCache, shareCache, dl>>
    PROVE  ShareInv'
<1>0. /\ lastId \in Nat /\ drawn \in Nat /\ born \in Nat /\ MaxId \in Nat /\ MaxToken \in Nat
      /\ lastId + 1 \in Share!Ids /\ Share!Ids = 1..MaxId /\ Share!Tokens = 1..MaxToken
  BY ShareNumbers, SMT DEF ShareInv, ShareTypes, Share!InsertFile, Share!NextId, Share!Ids, Share!Tokens
<1>1. PICK r : r = [project |-> p, token |-> t, born |-> born + 1]
  OBVIOUS
<1>2. r \in Share!Row /\ r.token = t /\ r.born = born + 1 /\ r # None
  BY <1>0, <1>1, ShareNumbers DEF Share!Row
<1>3. /\ rows' = [rows EXCEPT ![lastId + 1] = r] /\ born' = born + 1 /\ lastId' = lastId + 1
  BY <1>0, <1>1 DEF Share!InsertFile, Share!NextId
<1>4. rows \in [Share!Ids -> Share!Row \cup {None}] /\ issued \in [Share!Tokens -> Nat]
  BY DEF ShareInv, ShareTypes
<1>5. /\ drawn' \in 0..MaxToken /\ drawn <= drawn'
      /\ issued' \in [Share!Tokens -> Nat]
      /\ \A u \in 1..drawn : issued'[u] = issued[u]
      /\ t # None => t <= drawn' /\ issued'[t] = born + 1
  BY <1>0, <1>4, ShareNumbers, SMT DEF ShareInv, ShareTypes
<1>6. /\ rows' \in [Share!Ids -> Share!Row \cup {None}] /\ rows'[lastId + 1] = r
      /\ \A i \in Share!Ids : i # lastId + 1 => rows'[i] = rows[i]
  BY <1>0, <1>2, <1>3, <1>4
<1>a. lastId' \in 0..MaxId /\ born' \in Nat
  BY <1>0, <1>3, SMT
<1>7. ShareTypes'
  BY <1>a, <1>5, <1>6 DEF ShareInv, ShareTypes
<1>8. \A i \in 1..lastId : i \in Share!Ids /\ rows'[i] = rows[i]
  BY <1>0, <1>6, SMT
<1>9. CacheLeads(tokenCache)' /\ CacheLeads(shareCache)' /\ DownloadsLead'
  BY <1>0, <1>3, <1>5, <1>7, <1>8, LeadsStill
<1>10. RowsIssued'
  <2> SUFFICES ASSUME NEW i \in Share!Ids, rows'[i] # None
               PROVE  /\ i <= lastId'
                      /\ rows'[i].token # None =>
                            rows'[i].token <= drawn' /\ issued'[rows'[i].token] = rows'[i].born
    BY DEF RowsIssued
  <2>1. CASE i = lastId + 1
    BY <1>0, <1>2, <1>3, <1>5, <1>6, <2>1, SMT
  <2>2. CASE i # lastId + 1
    <3>1. rows'[i] = rows[i] /\ rows[i] \in Share!Row
      BY <1>4, <1>6, <2>2
    <3>2. rows[i].token # None => rows[i].token \in 1..drawn
      BY <3>1, <1>0, SMT DEF ShareInv, RowsIssued, Share!Row
    <3>3. /\ i <= lastId
          /\ rows[i].token # None => issued[rows[i].token] = rows[i].born
      BY <3>1 DEF ShareInv, RowsIssued
    <3> QED
      BY <1>0, <1>3, <1>5, <3>1, <3>2, <3>3, SMT
  <2> QED
    BY <2>1, <2>2
<1>11. LinksIssued'
  <2> SUFFICES ASSUME NEW u \in Share!Tokens, links[u] # None
               PROVE  /\ u <= drawn'
                      /\ rows'[links[u].file] # None
                      /\ issued'[u] = rows'[links[u].file].born
                      /\ links[u].limit # 0 => links[u].count <= links[u].limit
    BY DEF LinksIssued
  <2>1. /\ u <= drawn
        /\ rows[links[u].file] # None
        /\ issued[u] = rows[links[u].file].born
        /\ links[u].limit # 0 => links[u].count <= links[u].limit
    BY DEF ShareInv, LinksIssued
  <2>2. links[u].file \in Share!Ids
    BY DEF ShareInv, ShareTypes, Share!Link
  <2>3. links[u].file <= lastId
    BY <2>1, <2>2 DEF ShareInv, RowsIssued
  <2>4. rows'[links[u].file] = rows[links[u].file]
    BY <1>0, <1>8, <2>2, <2>3, SMT
  <2>5. u \in 1..drawn
    BY <1>0, <2>1, SMT
  <2> QED
    BY <1>0, <1>5, <2>1, <2>4, <2>5, SMT
<1> QED
  BY <1>7, <1>9, <1>10, <1>11 DEF ShareInv

\* Rows of a project that no link refers to go.
LEMMA ShareDelete ==
    ASSUME ShareInv, NEW p \in ShareProjects, Share!DeleteProject(p)
    PROVE  ShareInv'
<1>0. PICK Mine : Mine = {i \in Share!Ids : rows[i] # None /\ rows[i].project = p}
  OBVIOUS
<1>1. /\ \A t \in Share!Tokens : links[t] # None => links[t].file \notin Mine
      /\ rows' = [i \in Share!Ids |-> IF i \in Mine THEN None ELSE rows[i]]
      /\ UNCHANGED <<born, now, lastId, drawn, links, asked, tokenCache, shareCache, dl, issued>>
  BY <1>0 DEF Share!DeleteProject
<1>2. \A i \in Share!Ids : rows'[i] = None \/ (rows'[i] = rows[i])
  BY <1>1
<1>3. \A i \in Share!Ids : i \notin Mine => rows'[i] = rows[i]
  BY <1>1
<1>4. ShareTypes'
  BY <1>1, SMT DEF ShareInv, ShareTypes
<1>5. \A i \in 1..lastId : i \in Share!Ids
  BY ShareNumbers, SMT DEF ShareInv, ShareTypes, Share!Ids
<1>6. lastId \in Int /\ drawn \in Int
  BY ShareNumbers, SMT DEF ShareInv, ShareTypes
<1>7. CacheLeads(tokenCache)' /\ CacheLeads(shareCache)' /\ DownloadsLead'
  BY <1>1, <1>2, <1>4, <1>5, <1>6, LeadsStill
<1>8. RowsIssued'
  BY <1>1, <1>2 DEF ShareInv, RowsIssued
<1>9. LinksIssued'
  <2>1. \A t \in Share!Tokens : links[t] # None => links[t].file \in Share!Ids
    BY DEF ShareInv, ShareTypes, Share!Link
  <2> QED
    BY <1>1, <1>3, <2>1 DEF ShareInv, LinksIssued
<1> QED
  BY <1>1, <1>4, <1>7, <1>8, <1>9 DEF ShareInv

\* Steps on links.
LEMMA ShareAsk ==
    ASSUME ShareInv, NEW i \in Share!Ids, NEW e \in Expiries, NEW l \in Limits,
           Share!CreateShareLink(i, e, l)
    PROVE  ShareInv'
<1>1. PICK a : a = [file |-> i, expires |-> e, limit |-> l, count |-> 0]
  OBVIOUS
<1>2. a \in Share!Link /\ a.count = 0
  BY <1>1, ShareNumbers DEF Share!Link
<1>3. asked' = a /\ UNCHANGED <<born, now, rows, lastId, drawn, links, tokenCache, shareCache, dl, issued>>
  BY <1>1 DEF Share!CreateShareLink
<1>4. ShareTypes'
  BY <1>2, <1>3 DEF ShareInv, ShareTypes
<1> QED
  BY <1>2, <1>3, <1>4 DEF ShareInv, RowsIssued, LinksIssued, CacheLeads, DownloadsLead, Leads

LEMMA ShareInsertLink == ASSUME ShareInv, Share!InsertLink PROVE ShareInv'
<1>0. /\ lastId \in Nat /\ drawn \in Nat /\ MaxToken \in Nat /\ drawn + 1 \in Share!Tokens
      /\ Share!Tokens = 1..MaxToken
  BY ShareNumbers, SMT DEF ShareInv, ShareTypes, Share!InsertLink, Share!FreshToken, Share!Tokens
<1>1. /\ asked # None /\ drawn' = drawn + 1 /\ asked' = None
      /\ UNCHANGED <<born, now, rows, lastId, tokenCache, shareCache, dl>>
  BY DEF Share!InsertLink, Share!FreshToken
<1>2. asked \in Share!Link /\ asked.file \in Share!Ids /\ asked.limit \in Nat /\ asked.count = 0
  BY <1>1 DEF ShareInv, ShareTypes, Share!Link
<1>3. /\ links \in [Share!Tokens -> Share!Link \cup {None}] /\ issued \in [Share!Tokens -> Nat]
      /\ rows \in [Share!Ids -> Share!Row \cup {None}]
  BY DEF ShareInv, ShareTypes
<1>4. \/ /\ rows[asked.file] = None
         /\ UNCHANGED <<links, issued>>
      \/ /\ rows[asked.file] # None
         /\ links' = [links EXCEPT ![drawn + 1] = asked]
         /\ issued' = [issued EXCEPT ![drawn + 1] = rows[asked.file].born]
  BY DEF Share!InsertLink, Share!FreshToken
<1>5. rows[asked.file] # None => rows[asked.file].born \in Nat
  BY <1>2, <1>3 DEF Share!Row
<1>6. /\ links' \in [Share!Tokens -> Share!Link \cup {None}] /\ issued' \in [Share!Tokens -> Nat]
      /\ \A t \in 1..drawn : t \in Share!Tokens /\ issued'[t] = issued[t] /\ links'[t] = links[t]
  <2>1. \A t \in 1..drawn : t \in Share!Tokens /\ t # drawn + 1
    BY <1>0, SMT
  <2>2. CASE rows[asked.file] = None
    BY <1>3, <1>4, <2>1, <2>2
  <2>3. CASE rows[asked.file] # None
    <3>1. PICK b \in Nat : b = rows[asked.file].born
      BY <1>5, <2>3
    <3>2. links' = [links EXCEPT ![drawn + 1] = asked] /\ issued' = [issued EXCEPT ![drawn + 1] = b]
      BY <1>4, <2>3, <3>1
    <3>3. links' \in [Share!Tokens -> Share!Link \cup {None}]
      BY <1>2, <1>3, <3>2
    <3>4. issued' \in [Share!Tokens -> Nat]
      BY <1>3, <3>2
    <3> QED
      BY <1>3, <2>1, <3>2, <3>3, <3>4
  <2> QED
    BY <2>2, <2>3
<1>7. ShareTypes'
  BY <1>0, <1>1, <1>6, SMT DEF ShareInv, ShareTypes
<1>8. CacheLeads(tokenCache)' /\ CacheLeads(shareCache)' /\ DownloadsLead'
  BY <1>0, <1>1, <1>6, <1>7, LeadsStill, SMT
<1>9. RowsIssued'
  <2> SUFFICES ASSUME NEW i \in Share!Ids, rows[i] # None
               PROVE  /\ i <= lastId
                      /\ rows[i].token # None =>
                            rows[i].token <= drawn + 1 /\ issued'[rows[i].token] = rows[i].born
    BY <1>1 DEF RowsIssued
  <2>1. rows[i].token # None => rows[i].token \in 1..drawn
    BY <1>0, <1>3, SMT DEF ShareInv, RowsIssued, Share!Row
  <2> QED
    BY <1>0, <1>6, <2>1, SMT DEF ShareInv, RowsIssued
<1>10. LinksIssued'
  <2> SUFFICES ASSUME NEW t \in Share!Tokens, links'[t] # None
               PROVE  /\ t <= drawn + 1
                      /\ rows[links'[t].file] # None
                      /\ issued'[t] = rows[links'[t].file].born
                      /\ links'[t].limit # 0 => links'[t].count <= links'[t].limit
    BY <1>1 DEF LinksIssued
  <2>1. CASE t = drawn + 1
    <3>1. links[t] = None
      BY <1>0, <2>1, SMT DEF ShareInv, LinksIssued
    <3>2. rows[asked.file] # None /\ links'[t] = asked /\ issued'[t] = rows[asked.file].born
      BY <1>0, <1>3, <1>4, <2>1, <3>1
    <3> QED
      BY <1>0, <1>2, <2>1, <3>2, SMT
  <2>2. CASE t # drawn + 1
    <3>1. links'[t] = links[t] /\ issued'[t] = issued[t]
      BY <1>3, <1>4, <2>2
    <3> QED
      BY <1>0, <3>1, SMT DEF ShareInv, LinksIssued
  <2> QED
    BY <2>1, <2>2
<1> QED
  BY <1>1, <1>7, <1>8, <1>9, <1>10 DEF ShareInv

LEMMA ShareRevoke ==
    ASSUME ShareInv, NEW t \in Share!Tokens, Share!Revoke(t)
    PROVE  ShareInv'
<1>1. /\ links' = [links EXCEPT ![t] = None]
      /\ UNCHANGED <<born, now, rows, lastId, drawn, asked, tokenCache, shareCache, dl, issued>>
  BY DEF Share!Revoke
<1>2. ShareTypes' /\ \A u \in Share!Tokens : links'[u] # None => links'[u] = links[u]
  BY <1>1 DEF ShareInv, ShareTypes
<1> QED
  BY <1>1, <1>2 DEF ShareInv, RowsIssued, LinksIssued, CacheLeads, DownloadsLead, Leads

\* A step of one download: its record changes, and it may enter its token into a cache.
LEMMA ShareServe ==
    ASSUME ShareInv, NEW c \in Clients, NEW r \in DlRecord,
           dl' = [dl EXCEPT ![c] = r],
           r.pc # "idle" => r.token \in 1..drawn,
           r.pc = "row" => Leads(r.token, r.id),
           r.pc = "transfer" => r.born = issued[r.token],
           GoodCache(tokenCache)', GoodCache(shareCache)',
           \A j \in DOMAIN tokenCache' : Leads(tokenCache'[j].token, tokenCache'[j].id),
           \A j \in DOMAIN shareCache' : Leads(shareCache'[j].token, shareCache'[j].id),
           links' \in [Share!Tokens -> Share!Link \cup {None}],
           \A t \in Share!Tokens : links'[t] # None =>
               /\ links[t] # None
               /\ links'[t].file = links[t].file
               /\ links'[t].limit # 0 => links'[t].count <= links'[t].limit,
           UNCHANGED <<born, now, rows, lastId, drawn, asked, issued>>
    PROVE  ShareInv'
<1>1. dl \in [Clients -> DlRecord]
  BY DEF ShareInv, ShareTypes
<1>2. ShareTypes'
  BY <1>1 DEF ShareInv, ShareTypes
<1>3. \A t, i : Leads(t, i) => Leads(t, i)'
  BY DEF Leads
<1>4. CacheLeads(tokenCache)' /\ CacheLeads(shareCache)'
  BY DEF CacheLeads, Leads
<1>5. DownloadsLead'
  <2> SUFFICES ASSUME NEW d \in Clients
               PROVE  /\ dl'[d].pc # "idle" => dl'[d].token \in 1..drawn
                      /\ dl'[d].pc = "row" => Leads(dl'[d].token, dl'[d].id)
                      /\ dl'[d].pc = "transfer" => dl'[d].born = issued[dl'[d].token]
    BY DEF DownloadsLead, Leads
  <2>1. CASE d = c
    BY <1>1, <2>1
  <2>2. CASE d # c
    BY <1>1, <2>2 DEF ShareInv, DownloadsLead
  <2> QED
    BY <2>1, <2>2
<1>6. RowsIssued' /\ LinksIssued'
  BY DEF ShareInv, RowsIssued, LinksIssued
<1> QED
  BY <1>2, <1>4, <1>5, <1>6 DEF ShareInv

LEMMA ShareRequest ==
    ASSUME ShareInv, NEW c \in Clients, NEW q \in {"public", "share"}, NEW t \in 1..drawn,
           Share!Request(c, q, t)
    PROVE  ShareInv'
<1>0. t \in Share!Tokens /\ drawn \in Nat /\ MaxToken \in Nat /\ Share!Tokens = 1..MaxToken
  BY ShareNumbers, SMT DEF ShareInv, ShareTypes, Share!Tokens
<1>1. PICK cache : cache = IF q = "public" THEN tokenCache ELSE shareCache
  OBVIOUS
<1>2. GoodCache(cache) /\ CacheLeads(cache)
  BY <1>1 DEF ShareInv, ShareTypes
<1>3. PICK r : r = [pc |-> IF Share!Holds(cache, t) THEN "row" ELSE "miss", kind |-> q, token |-> t,
                    id |-> IF Share!Holds(cache, t) THEN Share!Entry(cache, t).id ELSE 0, born |-> 0]
  OBVIOUS
<1>4. /\ dl' = [dl EXCEPT ![c] = r]
      /\ tokenCache' = IF q = "public" THEN Share!Get(tokenCache, t) ELSE tokenCache
      /\ shareCache' = IF q = "share" THEN Share!Get(shareCache, t) ELSE shareCache
      /\ UNCHANGED <<born, now, rows, lastId, drawn, links, asked, issued>>
  BY <1>1, <1>3 DEF Share!Request
<1>5. Share!Holds(cache, t) => Leads(t, Share!Entry(cache, t).id) /\ Share!Entry(cache, t).id \in Share!Ids
  <2> SUFFICES ASSUME Share!Holds(cache, t)
               PROVE  Leads(t, Share!Entry(cache, t).id) /\ Share!Entry(cache, t).id \in Share!Ids
    OBVIOUS
  <2>1. PICK m \in DOMAIN cache : cache[m].token = t /\ Share!Entry(cache, t) = cache[m]
    BY <1>2, GetKeeps
  <2>2. Leads(t, Share!Entry(cache, t).id)
    BY <1>2, <2>1 DEF CacheLeads
  <2>3. cache[m] \in CacheEntry
    BY <1>2, <2>1, ElementOfSeq, LenProperties DEF GoodCache
  <2> QED
    BY <2>1, <2>2, <2>3 DEF CacheEntry
<1>6. r \in DlRecord /\ r.token = t /\ r.pc \in {"row", "miss"} /\ (r.pc = "row" => Leads(r.token, r.id))
  BY <1>0, <1>3, <1>5 DEF DlRecord
<1>7. ASSUME NEW old, GoodCache(old), CacheLeads(old)
      PROVE  GoodCache(Share!Get(old, t)) /\ CacheLeads(Share!Get(old, t))
  <2>1. GoodCache(Share!Get(old, t)) /\ Within(Share!Get(old, t), old)
    BY <1>7, GetKeeps
  <2> QED
    BY <1>7, <2>1 DEF Within, CacheLeads
<1>8. /\ GoodCache(tokenCache)' /\ GoodCache(shareCache)'
      /\ \A j \in DOMAIN tokenCache' : Leads(tokenCache'[j].token, tokenCache'[j].id)
      /\ \A j \in DOMAIN shareCache' : Leads(shareCache'[j].token, shareCache'[j].id)
  <2>1. GoodCache(tokenCache) /\ CacheLeads(tokenCache) /\ GoodCache(shareCache) /\ CacheLeads(shareCache)
    BY DEF ShareInv, ShareTypes
  <2>2. GoodCache(tokenCache') /\ GoodCache(shareCache')
    BY <1>4, <1>7, <2>1
  <2>3. /\ \A j \in DOMAIN tokenCache' : Leads(tokenCache'[j].token, tokenCache'[j].id)
    <3>1. CacheLeads(Share!Get(tokenCache, t))
      BY <1>7, <2>1
    <3> QED
      BY <1>4, <2>1, <3>1 DEF CacheLeads
  <2>4. /\ \A j \in DOMAIN shareCache' : Leads(shareCache'[j].token, shareCache'[j].id)
    <3>1. CacheLeads(Share!Get(shareCache, t))
      BY <1>7, <2>1
    <3> QED
      BY <1>4, <2>1, <3>1 DEF CacheLeads
  <2> QED
    BY <2>2, <2>3, <2>4 DEF GoodCache
<1>9. /\ links' \in [Share!Tokens -> Share!Link \cup {None}]
      /\ \A u \in Share!Tokens : links'[u] # None =>
               /\ links[u] # None
               /\ links'[u].file = links[u].file
               /\ links'[u].limit # 0 => links'[u].count <= links'[u].limit
  BY <1>4 DEF ShareInv, ShareTypes, LinksIssued
<1> QED
  BY <1>4, <1>6, <1>8, <1>9, ShareServe

\* A token's file enters a cache.
LEMMA SharePut ==
    ASSUME ShareInv, NEW cache, GoodCache(cache), CacheLeads(cache),
           NEW t \in Share!Tokens, NEW i \in Share!Ids, Leads(t, i)
    PROVE  GoodCache(Share!Put(cache, t, i)) /\ CacheLeads(Share!Put(cache, t, i))
<1>1. PICK p : p = Share!Put(cache, t, i)
  OBVIOUS
<1>2. GoodCache(p) /\ \A j \in DOMAIN p : p[j] = [token |-> t, id |-> i] \/ \E m \in DOMAIN cache : p[j] = cache[m]
  BY <1>1, PutAdds
<1>3. CacheLeads(p)
  BY <1>2 DEF CacheLeads
<1> QED
  BY <1>1, <1>2, <1>3

\* Nothing changes but downloads that end.
LEMMA ShareIdle == Share!Idle \in DlRecord /\ Share!Idle.pc = "idle"
  BY DEF Share!Idle, DlRecord, Share!Tokens, Share!Ids

LEMMA ShareUnlinked ==
    ASSUME ShareInv, links' = links
    PROVE  /\ links' \in [Share!Tokens -> Share!Link \cup {None}]
           /\ \A u \in Share!Tokens : links'[u] # None =>
                 /\ links[u] # None
                 /\ links'[u].file = links[u].file
                 /\ links'[u].limit # 0 => links'[u].count <= links'[u].limit
  BY DEF ShareInv, ShareTypes, LinksIssued

LEMMA ShareUncached ==
    ASSUME ShareInv
    PROVE  /\ tokenCache' = tokenCache => GoodCache(tokenCache)'
                 /\ \A j \in DOMAIN tokenCache' : Leads(tokenCache'[j].token, tokenCache'[j].id)
           /\ shareCache' = shareCache => GoodCache(shareCache)'
                 /\ \A j \in DOMAIN shareCache' : Leads(shareCache'[j].token, shareCache'[j].id)
  BY DEF ShareInv, ShareTypes, CacheLeads, GoodCache

LEMMA SharePublic == ASSUME ShareInv, NEW c \in Clients, Share!ServeDownload(c) PROVE ShareInv'
<1>0. /\ dl[c].pc = "miss" /\ dl[c] \in DlRecord /\ dl[c].token \in 1..drawn
      /\ drawn \in Nat /\ MaxToken \in Nat /\ Share!Tokens = 1..MaxToken /\ dl[c].token \in Share!Tokens
      /\ UNCHANGED <<born, now, rows, lastId, drawn, links, asked, shareCache, issued>>
  <2>1. dl[c].pc = "miss" /\ UNCHANGED <<born, now, rows, lastId, drawn, links, asked, shareCache, issued>>
    BY DEF Share!ServeDownload
  <2>2. dl[c] \in DlRecord /\ dl[c].token \in 1..drawn
    BY <2>1 DEF ShareInv, ShareTypes, DownloadsLead
  <2>3. drawn \in Nat /\ drawn <= MaxToken /\ MaxToken \in Nat
    BY ShareNumbers, SMT DEF ShareInv, ShareTypes
  <2> QED
    BY <2>1, <2>2, <2>3, SMT DEF Share!Tokens
<1>1. CASE dl' = [dl EXCEPT ![c] = Share!Idle] /\ tokenCache' = tokenCache
  BY <1>0, <1>1, ShareIdle, ShareUnlinked, ShareUncached, ShareServe
<1>2. ASSUME NEW i \in Share!Ids, rows[i] # None, rows[i].token = dl[c].token,
             dl' = [dl EXCEPT ![c].pc = "row", ![c].id = i],
             tokenCache' = Share!Put(tokenCache, dl[c].token, i)
      PROVE  ShareInv'
  <2>1. PICK r : r = [dl[c] EXCEPT !.pc = "row", !.id = i]
    OBVIOUS
  <2>2. r \in DlRecord /\ r.pc = "row" /\ r.id = i /\ r.token = dl[c].token
    BY <1>0, <2>1 DEF DlRecord
  <2>3. dl' = [dl EXCEPT ![c] = r]
    BY <1>2, <2>1
  <2>4. dl[c].token # None
    BY <1>0, ShareNumbers
  <2>5. rows[i].token # None /\ i <= lastId /\ issued[rows[i].token] = rows[i].born
    BY <1>2, <2>4 DEF ShareInv, RowsIssued
  <2>6. Leads(dl[c].token, i)
    BY <1>0, <1>2, <2>5, ShareNumbers, SMT DEF Leads, Share!Ids, ShareInv, ShareTypes
  <2>7. GoodCache(tokenCache) /\ CacheLeads(tokenCache)
    BY DEF ShareInv, ShareTypes
  <2>8. GoodCache(tokenCache') /\ \A j \in DOMAIN tokenCache' : Leads(tokenCache'[j].token, tokenCache'[j].id)
    <3>1. GoodCache(Share!Put(tokenCache, dl[c].token, i)) /\ CacheLeads(Share!Put(tokenCache, dl[c].token, i))
      BY <1>0, <2>6, <2>7, SharePut
    <3> QED
      BY <1>2, <3>1 DEF CacheLeads
  <2>9. GoodCache(tokenCache)'
    BY <2>8 DEF GoodCache
  <2> QED
    BY <1>0, <2>2, <2>3, <2>6, <2>8, <2>9, ShareUnlinked, ShareUncached, ShareServe
<1>3. PICK Found : Found = {i \in Share!Ids : rows[i] # None /\ rows[i].token = dl[c].token}
  OBVIOUS
<1>4. \/ dl' = [dl EXCEPT ![c] = Share!Idle] /\ tokenCache' = tokenCache
      \/ \E i \in Found :
            /\ dl' = [dl EXCEPT ![c].pc = "row", ![c].id = i]
            /\ tokenCache' = Share!Put(tokenCache, dl[c].token, i)
  BY <1>3, Zenon DEF Share!ServeDownload
<1> QED
  BY <1>1, <1>2, <1>3, <1>4

LEMMA ShareShared == ASSUME ShareInv, NEW c \in Clients, Share!ShareDownload(c) PROVE ShareInv'
<1>0. PICK t : t = dl[c].token
  OBVIOUS
<1>1. /\ dl[c].pc = "miss" /\ dl[c] \in DlRecord /\ t \in 1..drawn
      /\ drawn \in Nat /\ MaxToken \in Nat /\ Share!Tokens = 1..MaxToken /\ t \in Share!Tokens
      /\ UNCHANGED <<born, now, rows, lastId, drawn, asked, tokenCache, issued>>
  <2>1. dl[c].pc = "miss" /\ UNCHANGED <<born, now, rows, lastId, drawn, asked, tokenCache, issued>>
    BY DEF Share!ShareDownload
  <2>2. dl[c] \in DlRecord /\ t \in 1..drawn
    BY <1>0, <2>1 DEF ShareInv, ShareTypes, DownloadsLead
  <2>3. drawn \in Nat /\ drawn <= MaxToken /\ MaxToken \in Nat
    BY ShareNumbers, SMT DEF ShareInv, ShareTypes
  <2> QED
    BY <2>1, <2>2, <2>3, SMT DEF Share!Tokens
<1>2. CASE ~Share!Valid(t)
  <2>1. dl' = [dl EXCEPT ![c] = Share!Idle] /\ UNCHANGED <<links, shareCache>>
    BY <1>0, <1>2, Zenon DEF Share!ShareDownload
  <2> QED
    BY <1>1, <2>1, ShareIdle, ShareUnlinked, ShareUncached, ShareServe
<1>3. CASE Share!Valid(t)
  <2>1. /\ links' = [links EXCEPT ![t].count = @ + 1]
        /\ dl' = [dl EXCEPT ![c].pc = "row", ![c].id = links[t].file]
        /\ shareCache' = Share!Put(shareCache, t, links[t].file)
    BY <1>0, <1>3, Zenon DEF Share!ShareDownload
  <2>2. links[t] # None /\ ~Share!UsedUp(links[t])
    BY <1>3 DEF Share!Valid
  <2>3. links[t] \in Share!Link /\ links \in [Share!Tokens -> Share!Link \cup {None}]
    BY <1>1, <2>2 DEF ShareInv, ShareTypes
  <2>4. PICK l : l = [links[t] EXCEPT !.count = @ + 1]
    OBVIOUS
  <2>5. l \in Share!Link /\ l.file = links[t].file /\ l.limit = links[t].limit /\ l.count = links[t].count + 1
    BY <2>3, <2>4 DEF Share!Link
  <2>6. links' = [links EXCEPT ![t] = l]
    BY <2>1, <2>4
  <2>7. l.limit # 0 => l.count <= l.limit
    BY <2>2, <2>3, <2>5, SMT DEF Share!UsedUp, Share!Link
  <2>8. /\ links' \in [Share!Tokens -> Share!Link \cup {None}]
        /\ \A u \in Share!Tokens : links'[u] # None =>
              /\ links[u] # None
              /\ links'[u].file = links[u].file
              /\ links'[u].limit # 0 => links'[u].count <= links'[u].limit
    <3>1. links' \in [Share!Tokens -> Share!Link \cup {None}] /\ links'[t] = l
      BY <1>1, <2>3, <2>5, <2>6
    <3>2. \A u \in Share!Tokens : u # t => links'[u] = links[u]
      BY <2>3, <2>6
    <3>3. \A u \in Share!Tokens : links[u] # None => (links[u].limit # 0 => links[u].count <= links[u].limit)
      BY DEF ShareInv, LinksIssued
    <3> QED
      BY <2>2, <2>5, <2>7, <3>1, <3>2, <3>3
  <2>9. PICK i : i = links[t].file
    OBVIOUS
  <2>10. i \in Share!Ids /\ rows[i] # None /\ issued[t] = rows[i].born /\ i <= lastId
    <3>1. i \in Share!Ids /\ rows[i] # None /\ issued[t] = rows[i].born
      BY <1>1, <2>2, <2>3, <2>9 DEF ShareInv, LinksIssued, Share!Link
    <3> QED
      BY <3>1 DEF ShareInv, RowsIssued
  <2>11. Leads(t, i)
    BY <1>1, <2>10, ShareNumbers, SMT DEF Leads, Share!Ids, ShareInv, ShareTypes
  <2>12. PICK r : r = [dl[c] EXCEPT !.pc = "row", !.id = i]
    OBVIOUS
  <2>13. r \in DlRecord /\ r.pc = "row" /\ r.id = i /\ r.token = t
    BY <1>0, <1>1, <2>10, <2>12 DEF DlRecord
  <2>14. dl' = [dl EXCEPT ![c] = r]
    BY <2>1, <2>9, <2>12
  <2>15. GoodCache(shareCache') /\ \A j \in DOMAIN shareCache' : Leads(shareCache'[j].token, shareCache'[j].id)
    <3>1. GoodCache(shareCache) /\ CacheLeads(shareCache)
      BY DEF ShareInv, ShareTypes
    <3>2. GoodCache(Share!Put(shareCache, t, i)) /\ CacheLeads(Share!Put(shareCache, t, i))
      BY <1>1, <2>10, <2>11, <3>1, SharePut
    <3> QED
      BY <2>1, <2>9, <3>2 DEF CacheLeads
  <2>16. GoodCache(shareCache)'
    BY <2>15 DEF GoodCache
  <2> QED
    BY <1>1, <2>8, <2>11, <2>13, <2>14, <2>15, <2>16, ShareUncached, ShareServe
<1> QED
  BY <1>2, <1>3

LEMMA ShareOpen ==
    ASSUME ShareInv, NEW c \in Clients, Share!OpenFile(c) \/ Share!TransferEnds(c)
    PROVE  ShareInv'
<1>1. UNCHANGED <<born, now, rows, lastId, drawn, links, asked, tokenCache, shareCache, issued>>
  BY DEF Share!OpenFile, Share!TransferEnds
<1>2. CASE dl' = [dl EXCEPT ![c] = Share!Idle]
  BY <1>1, <1>2, ShareIdle, ShareUnlinked, ShareUncached, ShareServe
<1>3. CASE /\ dl[c].pc = "row" /\ rows[dl[c].id] # None
           /\ dl' = [dl EXCEPT ![c].pc = "transfer", ![c].born = rows[dl[c].id].born]
  <2>1. dl[c] \in DlRecord /\ Leads(dl[c].token, dl[c].id) /\ dl[c].token \in 1..drawn
    BY <1>3 DEF ShareInv, ShareTypes, DownloadsLead
  <2>2. dl[c].id \in Share!Ids
    BY <2>1, ShareNumbers, SMT DEF Leads, Share!Ids, ShareInv, ShareTypes
  <2>3. rows[dl[c].id].born \in Nat /\ rows[dl[c].id].born = issued[dl[c].token]
    BY <1>3, <2>1, <2>2 DEF ShareInv, ShareTypes, Share!Row, Leads
  <2>4. PICK r : r = [dl[c] EXCEPT !.pc = "transfer", !.born = rows[dl[c].id].born]
    OBVIOUS
  <2>5. r \in DlRecord /\ r.pc = "transfer" /\ r.token = dl[c].token /\ r.born = rows[dl[c].id].born
    BY <2>1, <2>3, <2>4 DEF DlRecord
  <2>6. dl' = [dl EXCEPT ![c] = r]
    BY <1>3, <2>4
  <2> QED
    BY <1>1, <2>1, <2>3, <2>5, <2>6, ShareUnlinked, ShareUncached, ShareServe
<1> QED
  BY <1>2, <1>3 DEF Share!OpenFile, Share!TransferEnds

\* The rows that have no token, and those of them up to one.
Bare      == {i \in Share!Ids : rows[i] # None /\ rows[i].token = None}
BareTo(i) == {j \in Share!Ids : rows[j] # None /\ rows[j].token = None /\ j <= i}

\* BackfillPublicTokens draws one token for each row without one, and no token twice.
LEMMA TokensDiffer ==
    ASSUME drawn \in Nat
    PROVE  /\ Cardinality(Bare) \in Nat
           /\ \A i \in Bare : Share!Backfilled(i) \in Nat /\ drawn < Share!Backfilled(i)
                              /\ Share!Backfilled(i) <= drawn + Cardinality(Bare)
           /\ \A i, j \in Bare : Share!Backfilled(i) = Share!Backfilled(j) => i = j
<1>1. IsFiniteSet(Bare) /\ Cardinality(Bare) \in Nat
  <2>1. IsFiniteSet(1..MaxId)
    BY ShareNumbers, FS_Interval
  <2>2. Bare \in SUBSET (1..MaxId)
    BY DEF Bare, Share!Ids
  <2> QED
    BY <2>1, <2>2, FS_Subset, FS_CardinalityType
<1>2. ASSUME NEW i \in Bare
      PROVE  /\ BareTo(i) \in SUBSET Bare /\ IsFiniteSet(BareTo(i)) /\ i \in BareTo(i)
             /\ Cardinality(BareTo(i)) \in Nat /\ Cardinality(BareTo(i)) >= 1
             /\ Cardinality(BareTo(i)) <= Cardinality(Bare)
             /\ Share!Backfilled(i) = drawn + Cardinality(BareTo(i))
  <2>1. BareTo(i) \in SUBSET Bare /\ i \in BareTo(i)
    BY ShareNumbers, SMT DEF Bare, BareTo, Share!Ids
  <2>2. IsFiniteSet(BareTo(i)) /\ Cardinality(BareTo(i)) <= Cardinality(Bare) /\ Cardinality(BareTo(i)) \in Nat
    BY <1>1, <2>1, FS_Subset, FS_CardinalityType
  <2>3. Cardinality(BareTo(i)) # 0
    BY <2>1, <2>2, FS_EmptySet
  <2>4. Share!Backfilled(i) = drawn + Cardinality(BareTo(i))
    BY Zenon DEF Share!Backfilled, BareTo, Share!Cardinality, Cardinality
  <2> QED
    BY <2>1, <2>2, <2>3, <2>4, SMT
<1>3. ASSUME NEW i \in Bare, NEW j \in Bare, i < j, Share!Backfilled(i) = Share!Backfilled(j)
      PROVE  FALSE
  <2>1. BareTo(i) \in SUBSET BareTo(j) /\ j \notin BareTo(i)
    BY <1>3, ShareNumbers, SMT DEF Bare, BareTo, Share!Ids
  <2>2. Cardinality(BareTo(i)) = Cardinality(BareTo(j))
    BY <1>2, <1>3, SMT
  <2>3. BareTo(i) = BareTo(j)
    BY <1>2, <2>1, <2>2, FS_Subset
  <2> QED
    BY <1>2, <2>1, <2>3
<1>4. \A i, j \in Bare : i < j \/ j < i \/ i = j
  BY ShareNumbers, SMT DEF Bare, Share!Ids
<1>5. \A i \in Bare : Share!Backfilled(i) \in Nat /\ drawn < Share!Backfilled(i)
                      /\ Share!Backfilled(i) <= drawn + Cardinality(Bare)
  BY <1>1, <1>2, SMT
<1> QED
  BY <1>1, <1>3, <1>4, <1>5

LEMMA ShareRestart == ASSUME ShareInv, Share!Restart PROVE ShareInv'
<1>0. /\ drawn \in Nat /\ lastId \in Nat /\ MaxToken \in Nat /\ Share!Tokens = 1..MaxToken
  BY ShareNumbers, SMT DEF ShareInv, ShareTypes, Share!Tokens
<1>1. /\ drawn' = drawn + Cardinality(Bare) /\ drawn + Cardinality(Bare) <= MaxToken
      /\ rows' = [i \in Share!Ids |-> IF i \in Bare THEN [rows[i] EXCEPT !.token = Share!Backfilled(i)] ELSE rows[i]]
      /\ issued' = [t \in Share!Tokens |->
             IF \E i \in Bare : Share!Backfilled(i) = t
             THEN rows[CHOOSE i \in Bare : Share!Backfilled(i) = t].born ELSE issued[t]]
      /\ tokenCache' = <<>> /\ shareCache' = <<>> /\ asked' = None
      /\ dl' = [c \in Clients |-> Share!Idle]
      /\ UNCHANGED <<born, now, lastId, links>>
  BY Zenon DEF Share!Restart, Share!BackfillPublicTokens, Bare, Share!Cardinality, Cardinality
<1>2. /\ Cardinality(Bare) \in Nat
      /\ \A i \in Bare : Share!Backfilled(i) \in Nat /\ drawn < Share!Backfilled(i)
                         /\ Share!Backfilled(i) <= drawn'
      /\ \A i, j \in Bare : Share!Backfilled(i) = Share!Backfilled(j) => i = j
  BY <1>0, <1>1, TokensDiffer
<1>3. drawn' \in 0..MaxToken /\ drawn <= drawn'
  BY <1>0, <1>1, <1>2, SMT
<1>4. /\ rows \in [Share!Ids -> Share!Row \cup {None}] /\ issued \in [Share!Tokens -> Nat]
      /\ links \in [Share!Tokens -> Share!Link \cup {None}]
  BY DEF ShareInv, ShareTypes
<1>5. \A i \in Bare : i \in Share!Ids /\ rows[i] # None /\ rows[i] \in Share!Row
  BY <1>4 DEF Bare
<1>6. ASSUME NEW i \in Bare
      PROVE  /\ rows'[i] \in Share!Row /\ rows'[i].born = rows[i].born
             /\ rows'[i].token = Share!Backfilled(i)
             /\ Share!Backfilled(i) \in Share!Tokens
             /\ issued'[Share!Backfilled(i)] = rows[i].born
  <2>1. Share!Backfilled(i) \in Share!Tokens
    BY <1>0, <1>2, <1>3, SMT
  <2>2. rows'[i] = [rows[i] EXCEPT !.token = Share!Backfilled(i)]
    BY <1>1, <1>5
  <2>3. rows'[i] \in Share!Row /\ rows'[i].born = rows[i].born /\ rows'[i].token = Share!Backfilled(i)
    BY <1>5, <2>1, <2>2 DEF Share!Row
  <2>4. PICK m : m = CHOOSE j \in Bare : Share!Backfilled(j) = Share!Backfilled(i)
    OBVIOUS
  <2>5. m \in Bare /\ Share!Backfilled(m) = Share!Backfilled(i)
    BY <2>4, Zenon
  <2>6. m = i
    BY <1>2, <2>5
  <2>7. issued'[Share!Backfilled(i)] = rows[m].born
    BY <1>1, <2>1, <2>4
  <2> QED
    BY <2>1, <2>3, <2>6, <2>7
<1>7. \A i \in Share!Ids : i \notin Bare => rows'[i] = rows[i]
  BY <1>1
<1>8. \A t \in 1..drawn : t \in Share!Tokens /\ issued'[t] = issued[t]
  <2> TAKE t \in 1..drawn
  <2>1. t \in Share!Tokens
    BY <1>0, <1>3, SMT
  <2>2. ~\E i \in Bare : Share!Backfilled(i) = t
    BY <1>0, <1>2, SMT
  <2> QED
    BY <1>1, <2>1, <2>2
<1>9. issued' \in [Share!Tokens -> Nat]
  <2>1. \A t \in Share!Tokens : issued'[t] \in Nat
    <3> TAKE t \in Share!Tokens
    <3>1. CASE \E i \in Bare : Share!Backfilled(i) = t
      <4>1. PICK i \in Bare : Share!Backfilled(i) = t
        BY <3>1
      <4>2. issued'[t] = rows[i].born
        BY <1>6, <4>1
      <4> QED
        BY <1>5, <4>2 DEF Share!Row
    <3>2. CASE ~\E i \in Bare : Share!Backfilled(i) = t
      BY <1>1, <1>4, <3>2
    <3> QED
      BY <3>1, <3>2
  <2> QED
    BY <1>1, <2>1
<1>10. rows' \in [Share!Ids -> Share!Row \cup {None}]
  <2>1. \A i \in Share!Ids : rows'[i] \in Share!Row \cup {None}
    BY <1>4, <1>6, <1>7
  <2> QED
    BY <1>1, <2>1
<1>11. \A i \in Share!Ids : (rows'[i] # None <=> rows[i] # None)
                            /\ (rows'[i] # None => rows'[i].born = rows[i].born)
  BY <1>5, <1>6, <1>7, ShareNumbers
<1>12. GoodCache(<<>>) /\ CacheLeads(<<>>)
  BY ShareNumbers, EmptySeq, SMT DEF GoodCache, CacheLeads
<1>13. ShareTypes'
  <2>1. GoodCache(tokenCache') /\ GoodCache(shareCache')
    BY <1>1, <1>12
  <2>2. GoodCache(tokenCache)' /\ GoodCache(shareCache)'
    BY <2>1 DEF GoodCache
  <2> QED
    BY <1>1, <1>3, <1>9, <1>10, <2>2, ShareIdle DEF ShareInv, ShareTypes
<1>14. CacheLeads(tokenCache)' /\ CacheLeads(shareCache)'
  BY <1>1, SMT DEF CacheLeads
<1>15. DownloadsLead'
  BY <1>1, ShareIdle DEF DownloadsLead
<1>16. RowsIssued'
  <2> SUFFICES ASSUME NEW i \in Share!Ids, rows'[i] # None
               PROVE  /\ i <= lastId'
                      /\ rows'[i].token # None =>
                            rows'[i].token <= drawn' /\ issued'[rows'[i].token] = rows'[i].born
    BY DEF RowsIssued
  <2>1. i <= lastId'
    BY <1>1, <1>11 DEF ShareInv, RowsIssued
  <2>2. CASE i \in Bare
    BY <1>2, <1>6, <2>1, <2>2
  <2>3. CASE i \notin Bare
    <3>1. rows'[i] = rows[i] /\ rows[i] \in Share!Row /\ rows[i] # None
      BY <1>4, <1>7, <2>3
    <3>2. rows[i].token # None => rows[i].token \in 1..drawn /\ issued[rows[i].token] = rows[i].born
      BY <1>0, <3>1, SMT DEF ShareInv, RowsIssued, Share!Row
    <3> QED
      BY <1>0, <1>3, <1>8, <2>1, <3>1, <3>2, SMT
  <2> QED
    BY <2>2, <2>3
<1>17. LinksIssued'
  <2> SUFFICES ASSUME NEW t \in Share!Tokens, links[t] # None
               PROVE  /\ t <= drawn'
                      /\ rows'[links[t].file] # None
                      /\ issued'[t] = rows'[links[t].file].born
                      /\ links[t].limit # 0 => links[t].count <= links[t].limit
    BY <1>1 DEF LinksIssued
  <2>1. /\ t <= drawn /\ rows[links[t].file] # None /\ issued[t] = rows[links[t].file].born
        /\ links[t].limit # 0 => links[t].count <= links[t].limit
    BY DEF ShareInv, LinksIssued
  <2>2. links[t].file \in Share!Ids
    BY <1>4 DEF Share!Link
  <2>3. t \in 1..drawn
    BY <1>0, <2>1, SMT
  <2>4. t <= drawn'
    BY <1>0, <1>3, <2>3, SMT
  <2> QED
    BY <1>8, <1>11, <2>1, <2>2, <2>3, <2>4
<1> QED
  BY <1>1, <1>13, <1>14, <1>15, <1>16, <1>17 DEF ShareInv

LEMMA ShareStep == ASSUME ShareInv, [Share!Next]_share PROVE ShareInv'
<1>1. ASSUME NEW p \in ShareProjects, Share!RegisterFile(p) PROVE ShareInv'
  <2>1. drawn + 1 \in Share!Tokens /\ Share!InsertFile(p, drawn + 1)
    BY <1>1 DEF Share!RegisterFile, Share!FreshToken
  <2>2. drawn' = drawn + 1 /\ issued' = [issued EXCEPT ![drawn + 1] = born + 1]
        /\ UNCHANGED <<now, links, asked, tokenCache, shareCache, dl>>
    BY <1>1 DEF Share!RegisterFile, Share!FreshToken
  <2> QED
    BY <2>1, <2>2, ShareInsert
<1>2. ASSUME NEW p \in ShareProjects, Share!CreateFile(p) PROVE ShareInv'
  BY <1>2, ShareInsert DEF Share!CreateFile
<1>3. CASE Share!Tick
  <2>1. now' = now + 1 /\ now < MaxTime
        /\ UNCHANGED <<born, rows, lastId, drawn, links, asked, tokenCache, shareCache, dl, issued>>
    BY <1>3 DEF Share!Tick
  <2>2. now' \in 1..MaxTime
    BY <2>1, ShareNumbers, SMT DEF ShareInv, ShareTypes
  <2> QED
    BY <2>1, <2>2 DEF ShareInv, ShareTypes, RowsIssued, LinksIssued, CacheLeads, DownloadsLead, Leads, GoodCache
<1>4. CASE UNCHANGED share
  BY <1>4 DEF share, ShareInv, ShareTypes, RowsIssued, LinksIssued, CacheLeads, DownloadsLead, Leads, GoodCache
<1> QED
  BY <1>1, <1>2, <1>3, <1>4, ShareDelete, ShareAsk, ShareInsertLink, ShareRevoke, ShareRequest,
     SharePublic, ShareShared, ShareOpen, ShareRestart DEF Share!Next

\* ShareLinks: a public or share token serves the file it was issued for and no other, through
\* both caches and whatever is deleted, inserted, evicted and restarted between its statements;
\* a link is validated at most as often as its limit and refers to a row; no cache outgrows
\* its size.  For any projects, clients, limits, cache sizes and slots.
THEOREM TokensServeAlways == MCSpec => []TokensServe
<1>1. MCInit => ShareInv
  BY ShareInit DEF MCInit
<1>2. ShareInv /\ [ShareNext \/ DavNext \/ AptNext \/ PipNext \/ RuleNext \/ LoopNext]_<<focus, share, dav, apt, pip, rule, loops>>
        => ShareInv'
  BY StepsOfEach, ShareStep
<1>3. ShareInv => TokensServe
  <2> SUFFICES ASSUME ShareInv PROVE Share!TypeOK /\ Share!ServesItsFile /\ Share!LinksHold
    BY DEF TokensServe
  <2>1. Share!TypeOK
    BY DEF ShareInv, ShareTypes, GoodCache, CacheEntry, DlRecord, Share!TypeOK
  <2>2. Share!ServesItsFile
    BY DEF ShareInv, DownloadsLead, Share!ServesItsFile
  <2>3. Share!LinksHold
    BY DEF ShareInv, LinksIssued, Share!LinksHold
  <2> QED
    BY <2>1, <2>2, <2>3
<1> QED
  BY <1>1, <1>2, <1>3, PTL DEF MCSpec

-----------------------------------------------------------------------------
(* Uploads through WebDAV. *)

\* what a request may be, and what the variables hold
DavOps == {"get", "put", "mkcol", "delete", "move"}

DavRequest ==
    [pc : Dav!Pcs, op : DavOps, path : Dav!Paths \cup {<<>>}, to : Dav!Paths \cup {<<>>},
     id : Nat, parent : Nat]

DavNode == [parent : Nat, name : Names, file : Nat]

DavTypes ==
    /\ disk \in [Dav!Paths -> {"none", "dir", "part", "whole"}]
    /\ uploads \in Seq(Dav!Paths)
    /\ nodes \in Seq(DavNode)
    /\ req \in [Clients -> DavRequest]
    /\ mixed \in SUBSET Dav!Paths

\* where a node of that parent and name is in the tree
PlacedAt(parent, called) == IF parent = 0 THEN <<called>> ELSE <<nodes[parent].name, called>>

NodePath(n) == PlacedAt(nodes[n].parent, nodes[n].name)

\* Folders are at the root and a node's parent is a folder; a node shows the row of its
\* path.
TreeRight ==
    \A n \in DOMAIN nodes :
        /\ nodes[n].parent \in 0..(n - 1)
        /\ nodes[n].parent # 0 => /\ nodes[n].name \notin Folders
                                  /\ nodes[nodes[n].parent].parent = 0
                                  /\ nodes[nodes[n].parent].name \in Folders
        /\ nodes[n].file \in 0..Len(uploads)
        /\ nodes[n].file # 0 => uploads[nodes[n].file] = NodePath(n) \/ NodePath(n) \in mixed

\* A request is at a step of its method.
MethodOf(r) ==
    /\ r.pc # "idle" => r.path \in Dav!Paths
    /\ r.pc \in {"copy", "close", "insert"} => r.op = "put"
    /\ r.pc \in {"node", "create"} => r.op \in {"put", "mkcol"}
    /\ r.pc # "idle" /\ r.op = "put" => r.path \in Dav!Files
    /\ r.pc # "idle" /\ r.op = "mkcol" => r.path \in Dav!Dirs
    /\ r.pc = "soft" => r.op = "delete"
    /\ r.pc = "rename" => r.op = "move" /\ r.path \in Dav!Files /\ r.to \in Dav!Files

\* What an upload has read, or is about to write, is true of its path unless that is mixed.
UploadKnows(r) ==
    /\ r.pc = "copy" => disk[r.path] = "part" \/ r.path \in mixed
    /\ r.pc = "insert" => (\A i \in DOMAIN uploads : uploads[i] # r.path) \/ r.path \in mixed
    /\ r.id \in 0..Len(uploads)
    /\ r.pc \in {"node", "create"} =>
           IF r.op = "put" THEN r.id # 0 /\ uploads[r.id] = r.path ELSE r.id = 0
    /\ r.pc # "idle" /\ r.op = "put" /\ Len(r.path) = 2 =>
           Dav!Children(0, r.path[1]) # {} \/ {r.path, <<r.path[2]>>} \subseteq mixed

\* The parent that a request has found is the node of its folder, or the root stands for
\* it, and the place it found free is so.
ParentKnown(r) ==
    /\ r.parent \in 0..Len(nodes)
    /\ r.pc = "create" =>
           /\ \/ Len(r.path) = 1 /\ r.parent = 0
              \/ Len(r.path) = 2 /\ r.parent \in Dav!Children(0, r.path[1])
              \/ Len(r.path) = 2 /\ r.parent = 0 /\ {r.path, <<r.path[2]>>} \subseteq mixed
           /\ Dav!NodeExists(r.parent, Dav!Base(r.path)) =>
                  Dav!Below(PlacedAt(r.parent, Dav!Base(r.path))) \subseteq mixed

\* A request that moves a file has marked the paths concerned.
MoveMarks(r) ==
    r.pc = "rename" => Dav!Tainted({r.path, r.to, Append(Dav!Dir(r.path), Dav!Base(r.to))}) \subseteq mixed

\* Two requests for a path, or for it and its folder, have marked both.
OverlapMarks ==
    \A c, d \in Clients :
        /\ c # d /\ req[c].pc # "idle" /\ req[d].pc # "idle"
        /\ req[c].op # "move" /\ req[d].op # "move"
        /\ Dav!Related(req[c].path, req[d].path)
        => Dav!Below(req[c].path) \cup Dav!Below(req[d].path) \subseteq mixed

\* A row and a folder are there once, and a folder on disk has a node or will get one.
OnceEach ==
    /\ \A i, j \in DOMAIN uploads : uploads[i] = uploads[j] /\ uploads[i] \notin mixed => i = j
    /\ mixed = {} => \A m, n \in DOMAIN nodes :
           nodes[m].parent = nodes[n].parent /\ nodes[m].name = nodes[n].name => m = n
    /\ \A d \in Folders : \A m, n \in Dav!Children(0, d) : m = n \/ Dav!Below(<<d>>) \subseteq mixed
    /\ \A d \in Folders :
           disk[<<d>>] = "dir" => \/ Dav!Children(0, d) # {}
                                  \/ \E c \in Clients : /\ req[c].pc \in {"node", "create"}
                                                        /\ req[c].op = "mkcol" /\ req[c].path = <<d>>

\* A whole file has a node or an upload that will give it one.
WholeShown ==
    \A p \in Dav!Files \ mixed :
        disk[p] = "whole" =>
            \/ \E n \in DOMAIN nodes : NodePath(n) = p
            \/ \E c \in Clients : /\ req[c].pc \in {"close", "insert", "node", "create"}
                                  /\ req[c].op = "put" /\ req[c].path = p

RequestsRight ==
    \A c \in Clients : MethodOf(req[c]) /\ UploadKnows(req[c]) /\ ParentKnown(req[c]) /\ MoveMarks(req[c])

DavInv == DavTypes /\ TreeRight /\ RequestsRight /\ OverlapMarks /\ OnceEach /\ WholeShown

LEMMA DavFacts ==
    /\ Folders \subseteq Names
    /\ MaxFile \in Nat /\ MaxNode \in Nat
  BY FileAccessAssumption DEF Dav!Constants

LEMMA PathParts ==
    ASSUME NEW p \in Dav!Paths
    PROVE  \/ /\ p \in Dav!Dirs /\ p \notin Dav!Files /\ Len(p) = 1 /\ p = <<p[1]>>
              /\ p[1] \in Folders /\ Dav!Base(p) = p[1]
           \/ /\ p \in Dav!Files /\ p \notin Dav!Dirs /\ Len(p) = 1 /\ p = <<p[1]>>
              /\ p[1] \in Names \ Folders /\ Dav!Base(p) = p[1]
           \/ /\ p \in Dav!Files /\ p \notin Dav!Dirs /\ Len(p) = 2 /\ p = <<p[1], p[2]>>
              /\ p[1] \in Folders /\ p[2] \in Names \ Folders /\ Dav!Base(p) = p[2]
              /\ <<p[1]>> \in Dav!Dirs /\ <<p[2]>> \in Dav!Files
<1>1. CASE p \in Dav!Dirs
  <2>1. PICK d \in Folders : p = <<d>>
    BY <1>1 DEF Dav!Dirs
  <2>2. Len(p) = 1 /\ p[1] = d
    BY <2>1
  <2>3. p \notin Dav!Files
    BY <2>1, <2>2 DEF Dav!Files
  <2> QED
    BY <1>1, <2>1, <2>2, <2>3 DEF Dav!Base
<1>2. ASSUME NEW n \in Names \ Folders, p = <<n>>
      PROVE  /\ p \in Dav!Files /\ p \notin Dav!Dirs /\ Len(p) = 1 /\ p = <<p[1]>>
             /\ p[1] \in Names \ Folders /\ Dav!Base(p) = p[1]
  <2>1. Len(p) = 1 /\ p[1] = n
    BY <1>2
  <2>2. p \notin Dav!Dirs
    BY <1>2, <2>1 DEF Dav!Dirs
  <2>3. p \in Dav!Files
    BY <1>2 DEF Dav!Files
  <2> QED
    BY <1>2, <2>1, <2>2, <2>3 DEF Dav!Base
<1>3. ASSUME NEW d \in Folders, NEW n \in Names \ Folders, p = <<d, n>>
      PROVE  /\ p \in Dav!Files /\ p \notin Dav!Dirs /\ Len(p) = 2 /\ p = <<p[1], p[2]>>
             /\ p[1] \in Folders /\ p[2] \in Names \ Folders /\ Dav!Base(p) = p[2]
             /\ <<p[1]>> \in Dav!Dirs /\ <<p[2]>> \in Dav!Files
  <2>1. Len(p) = 2 /\ p[1] = d /\ p[2] = n
    BY <1>3
  <2>2. p \notin Dav!Dirs
    BY <1>3, <2>1 DEF Dav!Dirs
  <2>3. p \in Dav!Files /\ <<d>> \in Dav!Dirs /\ <<n>> \in Dav!Files
    BY <1>3 DEF Dav!Files, Dav!Dirs
  <2> QED
    BY <1>3, <2>1, <2>2, <2>3 DEF Dav!Base
<1>4. CASE p \in Dav!Files
  BY <1>2, <1>3, <1>4 DEF Dav!Files
<1> QED
  BY <1>1, <1>4 DEF Dav!Paths

LEMMA PathsMade ==
    ASSUME NEW d \in Folders, NEW n \in Names \ Folders
    PROVE  /\ <<d>> \in Dav!Dirs /\ <<n>> \in Dav!Files /\ <<d, n>> \in Dav!Files
           /\ {<<d>>, <<n>>, <<d, n>>} \subseteq Dav!Paths
  BY DEF Dav!Dirs, Dav!Files, Dav!Paths

LEMMA PathSequence == ASSUME NEW p \in Dav!Paths PROVE p \in Seq(Names)
<1>1. CASE Len(p) = 1 /\ p = <<p[1]>> /\ p[1] \in Names
  <2>1. PICK n \in Names : p = <<n>>
    BY <1>1
  <2> QED
    BY <2>1
<1>2. CASE Len(p) = 2 /\ p = <<p[1], p[2]>> /\ p[1] \in Names /\ p[2] \in Names
  <2>1. PICK d \in Names, n \in Names : p = <<d, n>>
    BY <1>2
  <2> QED
    BY <2>1
<1> QED
  BY <1>1, <1>2, PathParts, DavFacts

LEMMA DirOfPath ==
    ASSUME NEW p \in Dav!Paths
    PROVE  /\ Len(p) = 1 => Dav!Dir(p) = <<>>
           /\ Len(p) # 1 => Len(p) = 2 /\ p = <<p[1], p[2]>> /\ p[1] \in Folders /\ p[2] \in Names \ Folders
                            /\ Dav!Dir(p) = <<p[1]>> /\ Dav!Base(p) = p[2]
<1>1. p \in Seq(Names)
  BY PathSequence
<1>2. CASE Len(p) = 1
  <2>1. SubSeq(p, 1, 0) = <<>>
    BY <1>1
  <2> QED
    BY <1>2, <2>1 DEF Dav!Dir
<1>3. CASE Len(p) # 1
  <2>1. Len(p) = 2 /\ p = <<p[1], p[2]>> /\ p[1] \in Folders /\ p[2] \in Names \ Folders /\ Dav!Base(p) = p[2]
    BY <1>3, PathParts, ZenonT(30)
  <2>2. PICK s : s = SubSeq(p, 1, 1)
    OBVIOUS
  <2>3. s \in Seq(Names) /\ Len(s) = 1 /\ s[1] = p[1]
    BY <1>1, <2>1, <2>2
  <2>4. s = <<s[1]>>
    BY <2>3
  <2>5. Len(p) - 1 = 1
    BY <2>1
  <2> QED
    BY <1>3, <2>1, <2>2, <2>3, <2>4, <2>5 DEF Dav!Dir
<1> QED
  BY <1>2, <1>3

LEMMA BelowFile == ASSUME NEW p \in Dav!Files PROVE Dav!Below(p) = {p}
<1>0. p \in Dav!Paths
  BY DEF Dav!Paths
<1>1. ASSUME NEW q \in Dav!Below(p) PROVE q = p
  <2>1. q \in Dav!Paths /\ Len(q) >= Len(p) /\ SubSeq(q, 1, Len(p)) = p
    BY DEF Dav!Below
  <2>2. q \in Seq(Names) /\ p \in Seq(Names)
    BY <1>0, <2>1, PathSequence
  <2>3. Len(p) >= 1 /\ q[1] = p[1] /\ (Len(p) = 2 => q[2] = p[2])
    <3>1. Len(p) = 1 \/ Len(p) = 2
      BY <1>0, PathParts
    <3>2. \A i \in 1..Len(p) : SubSeq(q, 1, Len(p))[i] = q[i]
      BY <2>1, <2>2, <3>1
    <3> QED
      BY <2>1, <3>1, <3>2
  <2>4. CASE Len(p) = 1
    <3>1. p = <<p[1]>> /\ p[1] \in Names \ Folders
      BY <1>0, <2>4, PathParts
    <3>2. q = <<q[1]>>
      BY <2>1, <2>3, <3>1, PathParts
    <3> QED
      BY <2>3, <3>1, <3>2
  <2>5. CASE Len(p) = 2
    <3>0. Len(p) # 1
      BY <2>5
    <3>1. p = <<p[1], p[2]>>
      BY <1>0, <3>0, PathParts, ZenonT(30)
    <3>2. Len(q) # 1
      BY <2>1, <2>2, <2>5
    <3>3. q = <<q[1], q[2]>>
      BY <2>1, <3>2, PathParts
    <3> QED
      BY <2>3, <2>5, <3>1, <3>3
  <2> QED
    BY <1>0, <2>4, <2>5, PathParts
<1>2. p \in Dav!Below(p)
  <2>1. p \in Seq(Names)
    BY <1>0, PathSequence
  <2>2. SubSeq(p, 1, Len(p)) = p
    BY <2>1
  <2> QED
    BY <1>0, <2>1, <2>2 DEF Dav!Below
<1> QED
  BY <1>1, <1>2

LEMMA BelowDir ==
    ASSUME NEW d \in Folders
    PROVE  Dav!Below(<<d>>) = {q \in Dav!Paths : q[1] = d}
<1> SUFFICES ASSUME NEW q \in Dav!Paths
             PROVE  Len(q) >= Len(<<d>>) /\ SubSeq(q, 1, Len(<<d>>)) = <<d>> <=> q[1] = d
  BY DEF Dav!Below
<1>1. Len(q) = 1 \/ Len(q) = 2
  BY PathParts
<1>2. q \in Seq(Names)
  BY PathSequence
<1>3. Len(<<d>>) = 1 /\ <<d>>[1] = d
  OBVIOUS
<1>4. SubSeq(q, 1, 1) = <<q[1]>>
  <2>1. PICK s : s = SubSeq(q, 1, 1)
    OBVIOUS
  <2>2. s \in Seq(Names) /\ Len(s) = 1 /\ s[1] = q[1]
    BY <1>1, <1>2, <2>1
  <2>3. s = <<s[1]>>
    BY <2>2
  <2> QED
    BY <2>1, <2>2, <2>3
<1>5. <<q[1]>> = <<d>> <=> q[1] = d
  OBVIOUS
<1>6. Len(q) >= Len(<<d>>)
  BY <1>1, <1>3
<1> QED
  BY <1>3, <1>4, <1>5, <1>6

\* A path is related to itself, and a folder to what is in it.
LEMMA BelowItself ==
    ASSUME NEW p \in Dav!Paths
    PROVE  /\ p \in Dav!Below(p) /\ Dav!Below(p) \subseteq Dav!Paths
           /\ Dav!Related(p, p)
<1>1. Dav!Below(p) \subseteq Dav!Paths
  BY DEF Dav!Below
<1>2. CASE p \in Dav!Files
  BY <1>1, <1>2, BelowFile DEF Dav!Related
<1>3. CASE p \in Dav!Dirs
  <2>1. PICK d \in Folders : p = <<d>>
    BY <1>3 DEF Dav!Dirs
  <2>2. p[1] = d
    BY <2>1
  <2> QED
    BY <1>1, <2>1, <2>2, BelowDir DEF Dav!Related
<1> QED
  BY <1>2, <1>3 DEF Dav!Paths

LEMMA MarksArePaths ==
    ASSUME NEW S \in SUBSET Dav!Paths
    PROVE  Dav!Tainted(S) \in SUBSET Dav!Paths /\ S \subseteq Dav!Tainted(S)
<1>1. ASSUME NEW p \in S PROVE <<Dav!Base(p)>> \in Dav!Paths
  <2>1. p = <<Dav!Base(p)>> \/ (p[2] = Dav!Base(p) /\ <<p[2]>> \in Dav!Files)
    BY PathParts
  <2> QED
    BY <2>1 DEF Dav!Paths
<1> QED
  BY <1>1 DEF Dav!Tainted

\* Requests that begin mark what they meet.
LEMMA MixMarks ==
    ASSUME DavTypes, RequestsRight, NEW c \in Clients, NEW q \in Dav!Paths
    PROVE  /\ mixed \subseteq Dav!Mix(c, q) /\ Dav!Mix(c, q) \in SUBSET Dav!Paths
           /\ \A d \in Clients \ {c} :
                  req[d].pc # "idle" /\ Dav!Related(req[d].path, q) =>
                      Dav!Tainted(Dav!Below(q) \cup Dav!Below(req[d].path)) \subseteq Dav!Mix(c, q)
<1>1. PICK Met : Met = {d \in Clients \ {c} : /\ req[d].pc # "idle"
                                              /\ \/ Dav!Related(req[d].path, q)
                                                 \/ req[d].op = "move" /\ Dav!Related(req[d].to, q)}
  OBVIOUS
<1>2. PICK S : S = Dav!Below(q) \cup UNION {Dav!Below(req[d].path) : d \in Met}
  OBVIOUS
<1>3. Dav!Mix(c, q) = IF Met = {} THEN mixed ELSE mixed \cup Dav!Tainted(S)
  BY <1>1, <1>2, Zenon DEF Dav!Mix
<1>4. S \in SUBSET Dav!Paths
  BY <1>1, <1>2 DEF Dav!Below
<1>5. Dav!Tainted(S) \in SUBSET Dav!Paths
  BY <1>4, MarksArePaths
<1>6. ASSUME NEW d \in Clients \ {c}, req[d].pc # "idle", Dav!Related(req[d].path, q)
      PROVE  Dav!Tainted(Dav!Below(q) \cup Dav!Below(req[d].path)) \subseteq Dav!Mix(c, q)
  <2>1. d \in Met
    BY <1>1, <1>6
  <2>2. Dav!Below(q) \cup Dav!Below(req[d].path) \subseteq S
    BY <1>2, <2>1
  <2>3. Dav!Tainted(Dav!Below(q) \cup Dav!Below(req[d].path)) \subseteq Dav!Tainted(S)
    BY <2>2 DEF Dav!Tainted
  <2> QED
    BY <1>3, <2>1, <2>3
<1> QED
  BY <1>3, <1>5, <1>6 DEF DavTypes

LEMMA RelatedBoth ==
    ASSUME NEW p, NEW q, Dav!Related(p, q)
    PROVE  Dav!Related(q, p)
  BY DEF Dav!Related

\* What a step that leaves rows and nodes alone has to see to.
LEMMA DavRequestMoves ==
    ASSUME DavInv, NEW c \in Clients, NEW r \in DavRequest,
           req' = [req EXCEPT ![c] = r],
           UNCHANGED <<uploads, nodes>>,
           mixed \subseteq mixed', mixed' \in SUBSET Dav!Paths,
           disk' \in [Dav!Paths -> {"none", "dir", "part", "whole"}],
           MethodOf(r), UploadKnows(r)', ParentKnown(r)', MoveMarks(r)',
           \A d \in Clients \ {c} :
               /\ req[d].pc = "copy" => disk'[req[d].path] = "part" \/ req[d].path \in mixed'
               /\ /\ r.pc # "idle" /\ r.op # "move" /\ req[d].pc # "idle" /\ req[d].op # "move"
                  /\ Dav!Related(req[d].path, r.path)
                  => Dav!Below(req[d].path) \cup Dav!Below(r.path) \subseteq mixed',
           \A f \in Folders : disk'[<<f>>] = "dir" =>
               /\ \/ disk[<<f>>] = "dir"
                  \/ r.pc \in {"node", "create"} /\ r.op = "mkcol" /\ r.path = <<f>>
               /\ req[c].pc \in {"node", "create"} /\ req[c].op = "mkcol" /\ req[c].path = <<f>> =>
                     \/ Dav!Children(0, f) # {}
                     \/ r.pc \in {"node", "create"} /\ r.op = "mkcol" /\ r.path = <<f>>,
           \A q \in Dav!Files \ mixed' : disk'[q] = "whole" =>
               /\ \/ disk[q] = "whole"
                  \/ r.pc \in {"close", "insert", "node", "create"} /\ r.op = "put" /\ r.path = q
               /\ req[c].pc \in {"close", "insert", "node", "create"} /\ req[c].op = "put" /\ req[c].path = q =>
                     \/ \E n \in DOMAIN nodes : NodePath(n) = q
                     \/ r.pc \in {"close", "insert", "node", "create"} /\ r.op = "put" /\ r.path = q
    PROVE  DavInv'
<1>1. req \in [Clients -> DavRequest]
  BY DEF DavInv, DavTypes
<1>2. req'[c] = r /\ \A d \in Clients \ {c} : req'[d] = req[d]
  BY <1>1
<1>3. DavTypes'
  BY <1>1 DEF DavInv, DavTypes
<1>4. TreeRight'
  <2>1. \A n : NodePath(n)' = NodePath(n)
    BY DEF NodePath, PlacedAt
  <2> QED
    BY <2>1 DEF DavInv, TreeRight
<1>5. RequestsRight'
  <2> SUFFICES ASSUME NEW d \in Clients
               PROVE  MethodOf(req[d])' /\ UploadKnows(req[d])' /\ ParentKnown(req[d])' /\ MoveMarks(req[d])'
    BY DEF RequestsRight
  <2>1. CASE d = c
    <3>1. req'[d] = r
      BY <1>2, <2>1
    <3>2. MethodOf(req[d])' /\ MoveMarks(req[d])'
      BY <3>1 DEF MethodOf, MoveMarks
    <3>3. UploadKnows(req[d])'
      BY <3>1 DEF UploadKnows
    <3>4. ParentKnown(req[d])'
      BY <3>1 DEF ParentKnown
    <3> QED
      BY <3>2, <3>3, <3>4
  <2>2. CASE d # c
    <3>1. req'[d] = req[d] /\ d \in Clients \ {c}
      BY <1>2, <2>2
    <3>2. MethodOf(req[d]) /\ UploadKnows(req[d]) /\ ParentKnown(req[d]) /\ MoveMarks(req[d])
      BY DEF DavInv, RequestsRight
    <3>3. UploadKnows(req[d])'
      BY <3>1, <3>2 DEF UploadKnows, Dav!Children
    <3>4. ParentKnown(req[d])'
      BY <3>1, <3>2 DEF ParentKnown, Dav!Children, Dav!NodeExists, PlacedAt
    <3>5. MethodOf(req[d])' /\ MoveMarks(req[d])'
      BY <3>1, <3>2 DEF MethodOf, MoveMarks
    <3> QED
      BY <3>3, <3>4, <3>5
  <2> QED
    BY <2>1, <2>2
<1>6. OverlapMarks'
  <2> SUFFICES ASSUME NEW d \in Clients, NEW e \in Clients, d # e,
                      req'[d].pc # "idle", req'[e].pc # "idle", req'[d].op # "move", req'[e].op # "move",
                      Dav!Related(req'[d].path, req'[e].path)
               PROVE  Dav!Below(req'[d].path) \cup Dav!Below(req'[e].path) \subseteq mixed'
    BY DEF OverlapMarks
  <2>1. CASE d = c
    <3>1. e \in Clients \ {c} /\ req'[e] = req[e] /\ req'[d] = r
      BY <1>2, <2>1
    <3>2. Dav!Related(req[e].path, r.path)
      BY <3>1, RelatedBoth
    <3> QED
      BY <3>1, <3>2
  <2>2. CASE e = c
    <3>1. d \in Clients \ {c} /\ req'[d] = req[d] /\ req'[e] = r
      BY <1>2, <2>2
    <3> QED
      BY <3>1
  <2>3. CASE d # c /\ e # c
    <3>1. req'[d] = req[d] /\ req'[e] = req[e]
      BY <1>2, <2>3
    <3> QED
      BY <3>1 DEF DavInv, OverlapMarks
  <2> QED
    BY <2>1, <2>2, <2>3
<1>7. OnceEach'
  <2>1. ASSUME NEW f \in Folders, disk'[<<f>>] = "dir"
        PROVE  \/ Dav!Children(0, f)' # {}
               \/ \E d \in Clients : /\ req'[d].pc \in {"node", "create"}
                                     /\ req'[d].op = "mkcol" /\ req'[d].path = <<f>>
    <3>1. Dav!Children(0, f)' = Dav!Children(0, f)
      BY DEF Dav!Children
    <3>2. CASE r.pc \in {"node", "create"} /\ r.op = "mkcol" /\ r.path = <<f>>
      BY <1>2, <3>2
    <3>3. CASE disk[<<f>>] = "dir"
      <4>1. CASE Dav!Children(0, f) # {}
        BY <3>1, <4>1
      <4>2. CASE \E d \in Clients : /\ req[d].pc \in {"node", "create"}
                                    /\ req[d].op = "mkcol" /\ req[d].path = <<f>>
        BY <1>2, <2>1, <3>1, <4>2
      <4> QED
        BY <3>3, <4>1, <4>2 DEF DavInv, OnceEach
    <3> QED
      BY <2>1, <3>2, <3>3
  <2>2. \A f \in Folders : \A m, n \in Dav!Children(0, f)' : m = n \/ Dav!Below(<<f>>) \subseteq mixed'
    BY DEF DavInv, OnceEach, Dav!Children
  <2>3. \A i, j \in DOMAIN uploads' : uploads'[i] = uploads'[j] /\ uploads'[i] \notin mixed' => i = j
    BY DEF DavInv, OnceEach
  <2>4. mixed' = {} => \A m, n \in DOMAIN nodes' :
           nodes'[m].parent = nodes'[n].parent /\ nodes'[m].name = nodes'[n].name => m = n
    BY DEF DavInv, OnceEach
  <2> QED
    BY <2>1, <2>2, <2>3, <2>4 DEF OnceEach
<1>8. WholeShown'
  <2> SUFFICES ASSUME NEW q \in Dav!Files \ mixed', disk'[q] = "whole"
               PROVE  \/ \E n \in DOMAIN nodes' : NodePath(n)' = q
                      \/ \E d \in Clients : /\ req'[d].pc \in {"close", "insert", "node", "create"}
                                            /\ req'[d].op = "put" /\ req'[d].path = q
    BY DEF WholeShown
  <2>1. \A n : NodePath(n)' = NodePath(n)
    BY DEF NodePath, PlacedAt
  <2>2. CASE r.pc \in {"close", "insert", "node", "create"} /\ r.op = "put" /\ r.path = q
    BY <1>2, <2>2
  <2>3. CASE disk[q] = "whole"
    <3>1. \/ \E n \in DOMAIN nodes : NodePath(n) = q
          \/ \E d \in Clients : /\ req[d].pc \in {"close", "insert", "node", "create"}
                                /\ req[d].op = "put" /\ req[d].path = q
      BY <2>3 DEF DavInv, WholeShown
    <3>2. CASE \E n \in DOMAIN nodes : NodePath(n) = q
      BY <2>1, <3>2
    <3>3. CASE \E d \in Clients : /\ req[d].pc \in {"close", "insert", "node", "create"}
                                  /\ req[d].op = "put" /\ req[d].path = q
      BY <1>2, <2>1, <3>3
    <3> QED
      BY <3>1, <3>2, <3>3
  <2> QED
    BY <2>2, <2>3
<1> QED
  BY <1>3, <1>4, <1>5, <1>6, <1>7, <1>8 DEF DavInv

LEMMA RequestEdited ==
    ASSUME NEW r \in DavRequest, NEW step \in Dav!Pcs, NEW i \in Nat
    PROVE  /\ [r EXCEPT !.pc = step] \in DavRequest
           /\ [r EXCEPT !.pc = step, !.id = i] \in DavRequest
           /\ [r EXCEPT !.pc = step, !.parent = i] \in DavRequest
<1>1. PICK s : s = [r EXCEPT !.pc = step]
  OBVIOUS
<1>2. s \in DavRequest
  BY <1>1 DEF DavRequest
<1>3. [s EXCEPT !.id = i] \in DavRequest /\ [s EXCEPT !.parent = i] \in DavRequest
  BY <1>2 DEF DavRequest
<1>4. [r EXCEPT !.pc = step, !.id = i] = [s EXCEPT !.id = i]
      /\ [r EXCEPT !.pc = step, !.parent = i] = [s EXCEPT !.parent = i]
  BY <1>1
<1> QED
  BY <1>1, <1>2, <1>3, <1>4

LEMMA RequestOfClient ==
    ASSUME DavInv, NEW c \in Clients
    PROVE  /\ req[c] \in DavRequest
           /\ MethodOf(req[c]) /\ UploadKnows(req[c]) /\ ParentKnown(req[c]) /\ MoveMarks(req[c])
           /\ mixed \in SUBSET Dav!Paths
           /\ disk \in [Dav!Paths -> {"none", "dir", "part", "whole"}]
  BY DEF DavInv, DavTypes, RequestsRight

LEMMA DavIdle ==
    /\ Dav!Idle \in DavRequest /\ Dav!Idle.pc = "idle"
    /\ MethodOf(Dav!Idle)
    /\ uploads' \in Seq(Dav!Paths) /\ nodes' \in Seq(DavNode) =>
           UploadKnows(Dav!Idle)' /\ ParentKnown(Dav!Idle)' /\ MoveMarks(Dav!Idle)'
<1>1. Dav!Idle = [pc |-> "idle", op |-> "get", path |-> <<>>, to |-> <<>>, id |-> 0, parent |-> 0]
  BY DEF Dav!Idle
<1>2. Dav!Idle \in DavRequest
  BY <1>1, SMT DEF DavRequest, Dav!Pcs, DavOps
<1>3. Dav!Idle.pc = "idle" /\ Dav!Idle.id = 0 /\ Dav!Idle.parent = 0
  BY <1>1
<1>4. MethodOf(Dav!Idle) /\ MoveMarks(Dav!Idle)'
  BY <1>3 DEF MethodOf, MoveMarks
<1>5. ASSUME uploads' \in Seq(Dav!Paths), nodes' \in Seq(DavNode)
      PROVE  UploadKnows(Dav!Idle)' /\ ParentKnown(Dav!Idle)'
  <2>1. 0 \in 0..Len(uploads') /\ 0 \in 0..Len(nodes')
    BY <1>5, LenProperties, SMT
  <2> QED
    BY <1>3, <2>1 DEF UploadKnows, ParentKnown
<1> QED
  BY <1>2, <1>3, <1>4, <1>5


\* A request ends and nothing else changes.
LEMMA DavEnds ==
    ASSUME DavInv, NEW c \in Clients, Dav!End(c), UNCHANGED <<disk, uploads, nodes, mixed>>,
           \A f \in Folders :
               req[c].pc \in {"node", "create"} /\ req[c].op = "mkcol" /\ req[c].path = <<f>>
                  => disk[<<f>>] # "dir" \/ Dav!Children(0, f) # {},
           \A q \in Dav!Files \ mixed :
               req[c].pc \in {"close", "insert", "node", "create"} /\ req[c].op = "put" /\ req[c].path = q
                  => disk[q] # "whole" \/ \E n \in DOMAIN nodes : NodePath(n) = q
    PROVE  DavInv'
<1>1. req' = [req EXCEPT ![c] = Dav!Idle]
  BY DEF Dav!End
<1>2. uploads' \in Seq(Dav!Paths) /\ nodes' \in Seq(DavNode)
  BY DEF DavInv, DavTypes
<1>3. \A d \in Clients \ {c} : req[d].pc = "copy" => disk'[req[d].path] = "part" \/ req[d].path \in mixed'
  BY DEF DavInv, RequestsRight, UploadKnows
<1>4. mixed' \in SUBSET Dav!Paths /\ disk' \in [Dav!Paths -> {"none", "dir", "part", "whole"}]
  BY DEF DavInv, DavTypes
<1> QED
  BY <1>1, <1>2, <1>3, <1>4, DavIdle, DavRequestMoves

\* A client that rests begins a request.
DavFromIdle(c, r) ==
    /\ req[c].pc = "idle"
    /\ \A d \in Clients \ {c} :
           /\ req[d].pc = "copy" => disk'[req[d].path] = "part" \/ req[d].path \in mixed'
           /\ /\ r.pc # "idle" /\ r.op # "move" /\ req[d].pc # "idle" /\ req[d].op # "move"
              /\ Dav!Related(req[d].path, r.path)
              => Dav!Below(req[d].path) \cup Dav!Below(r.path) \subseteq mixed'
    /\ \A f \in Folders : disk'[<<f>>] = "dir" =>
           \/ disk[<<f>>] = "dir"
           \/ r.pc \in {"node", "create"} /\ r.op = "mkcol" /\ r.path = <<f>>
    /\ \A q \in Dav!Files \ mixed' : disk'[q] = "whole" => disk[q] = "whole"

LEMMA DavBegins ==
    ASSUME DavInv, NEW c \in Clients, NEW r \in DavRequest,
           req' = [req EXCEPT ![c] = r],
           uploads' = uploads, nodes' = nodes,
           mixed \subseteq mixed', mixed' \in SUBSET Dav!Paths,
           disk' \in [Dav!Paths -> {"none", "dir", "part", "whole"}],
           MethodOf(r), UploadKnows(r)', ParentKnown(r)', MoveMarks(r)',
           DavFromIdle(c, r)
    PROVE  DavInv'
<1>1. \A d \in Clients \ {c} :
           /\ req[d].pc = "copy" => disk'[req[d].path] = "part" \/ req[d].path \in mixed'
           /\ /\ r.pc # "idle" /\ r.op # "move" /\ req[d].pc # "idle" /\ req[d].op # "move"
              /\ Dav!Related(req[d].path, r.path)
              => Dav!Below(req[d].path) \cup Dav!Below(r.path) \subseteq mixed'
  BY DEF DavFromIdle
<1>2. \A f \in Folders : disk'[<<f>>] = "dir" =>
           /\ \/ disk[<<f>>] = "dir"
              \/ r.pc \in {"node", "create"} /\ r.op = "mkcol" /\ r.path = <<f>>
           /\ req[c].pc \in {"node", "create"} /\ req[c].op = "mkcol" /\ req[c].path = <<f>> =>
                 \/ Dav!Children(0, f) # {}
                 \/ r.pc \in {"node", "create"} /\ r.op = "mkcol" /\ r.path = <<f>>
  BY DEF DavFromIdle
<1>3. \A q \in Dav!Files \ mixed' : disk'[q] = "whole" =>
           /\ \/ disk[q] = "whole"
              \/ r.pc \in {"close", "insert", "node", "create"} /\ r.op = "put" /\ r.path = q
           /\ req[c].pc \in {"close", "insert", "node", "create"} /\ req[c].op = "put" /\ req[c].path = q =>
                 \/ \E n \in DOMAIN nodes : NodePath(n) = q
                 \/ r.pc \in {"close", "insert", "node", "create"} /\ r.op = "put" /\ r.path = q
  BY DEF DavFromIdle
<1> QED
  BY <1>1, <1>2, <1>3, DavRequestMoves

LEMMA DavOpenWrite == ASSUME DavInv, NEW c \in Clients, NEW p \in Dav!Files, Dav!OpenWrite(c, p) PROVE DavInv'
<1>0. p \in Dav!Paths /\ req[c].pc = "idle"
  BY DEF Dav!OpenWrite, Dav!Paths
<1>1. PICK r : r = [Dav!Idle EXCEPT !.pc = "copy", !.op = "put", !.path = p]
  OBVIOUS
<1>2. r = [pc |-> "copy", op |-> "put", path |-> p, to |-> <<>>, id |-> 0, parent |-> 0]
  BY <1>1 DEF Dav!Idle
<1>3. /\ req' = [req EXCEPT ![c] = r]
      /\ disk' = [disk EXCEPT ![p] = "part"]
      /\ mixed' = Dav!Mix(c, p)
      /\ uploads' = uploads /\ nodes' = nodes
      /\ Len(p) = 1 \/ disk[Dav!Dir(p)] = "dir"
  BY <1>1 DEF Dav!OpenWrite, Dav!Begin, Dav!HasParent
<1>4. r \in DavRequest
  BY <1>0, <1>2, SMT DEF DavRequest, Dav!Pcs, DavOps
<1>5. /\ mixed \subseteq mixed' /\ mixed' \in SUBSET Dav!Paths
      /\ \A d \in Clients \ {c} :
            req[d].pc # "idle" /\ Dav!Related(req[d].path, p) =>
                Dav!Tainted(Dav!Below(p) \cup Dav!Below(req[d].path)) \subseteq mixed'
  BY <1>0, <1>3, MixMarks DEF DavInv
<1>6. disk' \in [Dav!Paths -> {"none", "dir", "part", "whole"}]
      /\ disk'[p] = "part" /\ \A q \in Dav!Paths \ {p} : disk'[q] = disk[q]
  BY <1>0, <1>3, RequestOfClient
<1>7. \A f \in Folders : <<f>> \in Dav!Paths \ {p} /\ disk'[<<f>>] = disk[<<f>>]
  <2> SUFFICES ASSUME NEW f \in Folders
               PROVE  <<f>> \in Dav!Paths \ {p} /\ disk'[<<f>>] = disk[<<f>>]
    BY Zenon
  <2>1. <<f>> \in Dav!Dirs /\ p \notin Dav!Dirs
    BY <1>0, PathParts DEF Dav!Dirs
  <2>2. <<f>> \in Dav!Paths \ {p}
    BY <2>1 DEF Dav!Paths
  <2> QED
    BY <1>6, <2>2
<1>8. Len(p) = 2 => Dav!Children(0, p[1]) # {} \/ {p, <<p[2]>>} \subseteq mixed'
  <2> SUFFICES ASSUME Len(p) = 2, Dav!Children(0, p[1]) = {}
               PROVE  {p, <<p[2]>>} \subseteq mixed'
    OBVIOUS
  <2>1. p = <<p[1], p[2]>> /\ p[1] \in Folders /\ Dav!Base(p) = p[2]
    BY <1>0, DirOfPath
  <2>2. Dav!Dir(p) = <<p[1]>>
    BY <1>0, DirOfPath
  <2>3. PICK d \in Clients : req[d].pc \in {"node", "create"} /\ req[d].op = "mkcol" /\ req[d].path = <<p[1]>>
    <3>1. disk[<<p[1]>>] = "dir"
      BY <1>3, <2>2
    <3> QED
      BY <2>1, <3>1 DEF DavInv, OnceEach
  <2>4. d # c
    BY <1>0, <2>3
  <2>5. Dav!Related(<<p[1]>>, p)
    BY <1>0, <2>1, BelowDir DEF Dav!Related
  <2>6. Dav!Tainted(Dav!Below(p) \cup Dav!Below(<<p[1]>>)) \subseteq mixed'
    BY <1>5, <2>3, <2>4, <2>5
  <2>7. p \in Dav!Below(p)
    BY BelowFile
  <2> QED
    BY <2>1, <2>6, <2>7 DEF Dav!Tainted
<1>9. MethodOf(r) /\ MoveMarks(r)'
  BY <1>0, <1>2 DEF MethodOf, MoveMarks
<1>10. UploadKnows(r)'
  <2>1. 0 \in 0..Len(uploads')
    BY <1>3, LenProperties, SMT DEF DavInv, DavTypes
  <2>2. Dav!Children(0, p[1])' = Dav!Children(0, p[1])
    BY <1>3 DEF Dav!Children
  <2> QED
    BY <1>2, <1>6, <1>8, <2>1, <2>2 DEF UploadKnows
<1>11. ParentKnown(r)'
  <2>1. 0 \in 0..Len(nodes')
    BY <1>3, LenProperties, SMT DEF DavInv, DavTypes
  <2> QED
    BY <1>2, <2>1 DEF ParentKnown
<1>12. ASSUME NEW d \in Clients \ {c}
       PROVE  /\ req[d].pc = "copy" => disk'[req[d].path] = "part" \/ req[d].path \in mixed'
              /\ /\ r.pc # "idle" /\ r.op # "move" /\ req[d].pc # "idle" /\ req[d].op # "move"
                 /\ Dav!Related(req[d].path, r.path)
                 => Dav!Below(req[d].path) \cup Dav!Below(r.path) \subseteq mixed'
  <2>1. MethodOf(req[d]) /\ UploadKnows(req[d])
    BY RequestOfClient
  <2>2. req[d].pc = "copy" => disk'[req[d].path] = "part" \/ req[d].path \in mixed'
    BY <1>5, <1>6, <2>1 DEF MethodOf, UploadKnows
  <2>3. r.path = p
    BY <1>2
  <2> QED
    BY <1>5, <2>2, <2>3 DEF Dav!Tainted
<1>13. \A q \in Dav!Files \ mixed' : disk'[q] = "whole" => disk[q] = "whole"
  BY <1>6 DEF Dav!Paths
<1>14. DavFromIdle(c, r)
  BY <1>0, <1>7, <1>12, <1>13 DEF DavFromIdle
<1> QED
  BY <1>0, <1>3, <1>4, <1>5, <1>6, <1>9, <1>10, <1>11, <1>14, DavBegins

LEMMA DavMkdir == ASSUME DavInv, NEW c \in Clients, NEW p \in Dav!Dirs, Dav!Mkdir(c, p) PROVE DavInv'
<1>0. p \in Dav!Paths /\ p \notin Dav!Files /\ Len(p) = 1 /\ req[c].pc = "idle"
  <2>1. p \in Dav!Paths
    BY DEF Dav!Paths
  <2> QED
    BY <2>1, PathParts DEF Dav!Mkdir
<1>1. PICK r : r = [Dav!Idle EXCEPT !.pc = "node", !.op = "mkcol", !.path = p]
  OBVIOUS
<1>2. r = [pc |-> "node", op |-> "mkcol", path |-> p, to |-> <<>>, id |-> 0, parent |-> 0]
  BY <1>1 DEF Dav!Idle
<1>3. /\ req' = [req EXCEPT ![c] = r]
      /\ disk' = [disk EXCEPT ![p] = "dir"]
      /\ mixed' = Dav!Mix(c, p)
      /\ uploads' = uploads /\ nodes' = nodes
  BY <1>1 DEF Dav!Mkdir, Dav!Begin
<1>4. r \in DavRequest
  BY <1>0, <1>2, SMT DEF DavRequest, Dav!Pcs, DavOps
<1>5. /\ mixed \subseteq mixed' /\ mixed' \in SUBSET Dav!Paths
      /\ \A d \in Clients \ {c} :
            req[d].pc # "idle" /\ Dav!Related(req[d].path, p) =>
                Dav!Tainted(Dav!Below(p) \cup Dav!Below(req[d].path)) \subseteq mixed'
  BY <1>0, <1>3, MixMarks DEF DavInv
<1>6. disk' \in [Dav!Paths -> {"none", "dir", "part", "whole"}]
      /\ \A q \in Dav!Paths \ {p} : disk'[q] = disk[q]
  BY <1>0, <1>3, RequestOfClient
<1>7. MethodOf(r) /\ MoveMarks(r)'
  BY <1>0, <1>2 DEF MethodOf, MoveMarks
<1>8. UploadKnows(r)'
  <2>1. 0 \in 0..Len(uploads')
    BY <1>3, LenProperties, SMT DEF DavInv, DavTypes
  <2> QED
    BY <1>2, <2>1 DEF UploadKnows
<1>9. ParentKnown(r)'
  <2>1. 0 \in 0..Len(nodes')
    BY <1>3, LenProperties, SMT DEF DavInv, DavTypes
  <2> QED
    BY <1>2, <2>1 DEF ParentKnown
<1>10. ASSUME NEW d \in Clients \ {c}
       PROVE  /\ req[d].pc = "copy" => disk'[req[d].path] = "part" \/ req[d].path \in mixed'
              /\ /\ r.pc # "idle" /\ r.op # "move" /\ req[d].pc # "idle" /\ req[d].op # "move"
                 /\ Dav!Related(req[d].path, r.path)
                 => Dav!Below(req[d].path) \cup Dav!Below(r.path) \subseteq mixed'
  <2>1. MethodOf(req[d]) /\ UploadKnows(req[d])
    BY RequestOfClient
  <2>2. req[d].pc = "copy" => req[d].path \in Dav!Files
    BY <2>1 DEF MethodOf
  <2>3. req[d].pc = "copy" => disk'[req[d].path] = "part" \/ req[d].path \in mixed'
    BY <1>0, <1>5, <1>6, <2>1, <2>2 DEF UploadKnows, Dav!Paths
  <2>4. r.path = p
    BY <1>2
  <2> QED
    BY <1>5, <2>3, <2>4 DEF Dav!Tainted
<1>11. \A f \in Folders : disk'[<<f>>] = "dir" =>
           \/ disk[<<f>>] = "dir"
           \/ r.pc \in {"node", "create"} /\ r.op = "mkcol" /\ r.path = <<f>>
  <2> TAKE f \in Folders
  <2>1. <<f>> \in Dav!Paths
    BY DEF Dav!Dirs, Dav!Paths
  <2>2. <<f>> = p \/ disk'[<<f>>] = disk[<<f>>]
    BY <1>6, <2>1
  <2> QED
    BY <1>2, <2>2
<1>12. \A q \in Dav!Files \ mixed' : disk'[q] = "whole" => disk[q] = "whole"
  BY <1>0, <1>6 DEF Dav!Paths
<1>13. DavFromIdle(c, r)
  BY <1>0, <1>10, <1>11, <1>12 DEF DavFromIdle
<1> QED
  BY <1>3, <1>4, <1>5, <1>6, <1>7, <1>8, <1>9, <1>13, DavBegins

LEMMA DavRemoveAll == ASSUME DavInv, NEW c \in Clients, NEW p \in Dav!Paths, Dav!RemoveAll(c, p) PROVE DavInv'
<1>1. PICK r : r = [Dav!Idle EXCEPT !.pc = "soft", !.op = "delete", !.path = p]
  OBVIOUS
<1>2. r = [pc |-> "soft", op |-> "delete", path |-> p, to |-> <<>>, id |-> 0, parent |-> 0]
  BY <1>1 DEF Dav!Idle
<1>3. /\ req' = [req EXCEPT ![c] = r]
      /\ disk' = [q \in Dav!Paths |-> IF q \in Dav!Below(p) THEN "none" ELSE disk[q]]
      /\ mixed' = Dav!Mix(c, p)
      /\ uploads' = uploads /\ nodes' = nodes
      /\ req[c].pc = "idle"
  BY <1>1 DEF Dav!RemoveAll, Dav!RemovePhysical, Dav!Begin
<1>4. r \in DavRequest
  BY <1>2, SMT DEF DavRequest, Dav!Pcs, DavOps
<1>5. /\ mixed \subseteq mixed' /\ mixed' \in SUBSET Dav!Paths
      /\ \A d \in Clients \ {c} :
            req[d].pc # "idle" /\ Dav!Related(req[d].path, p) =>
                Dav!Tainted(Dav!Below(p) \cup Dav!Below(req[d].path)) \subseteq mixed'
  BY <1>3, MixMarks DEF DavInv
<1>6. /\ disk' \in [Dav!Paths -> {"none", "dir", "part", "whole"}]
      /\ \A q \in Dav!Paths : q \in Dav!Below(p) \/ disk'[q] = disk[q]
      /\ \A q \in Dav!Paths : disk'[q] = "none" \/ disk'[q] = disk[q]
  BY <1>3, RequestOfClient
<1>7. MethodOf(r) /\ MoveMarks(r)'
  BY <1>2 DEF MethodOf, MoveMarks
<1>8. UploadKnows(r)'
  <2>1. 0 \in 0..Len(uploads')
    BY <1>3, LenProperties, SMT DEF DavInv, DavTypes
  <2> QED
    BY <1>2, <2>1 DEF UploadKnows
<1>9. ParentKnown(r)'
  <2>1. 0 \in 0..Len(nodes')
    BY <1>3, LenProperties, SMT DEF DavInv, DavTypes
  <2> QED
    BY <1>2, <2>1 DEF ParentKnown
<1>10. ASSUME NEW d \in Clients \ {c}
       PROVE  /\ req[d].pc = "copy" => disk'[req[d].path] = "part" \/ req[d].path \in mixed'
              /\ /\ r.pc # "idle" /\ r.op # "move" /\ req[d].pc # "idle" /\ req[d].op # "move"
                 /\ Dav!Related(req[d].path, r.path)
                 => Dav!Below(req[d].path) \cup Dav!Below(r.path) \subseteq mixed'
  <2>1. MethodOf(req[d]) /\ UploadKnows(req[d])
    BY RequestOfClient
  <2>2. ASSUME req[d].pc = "copy" PROVE disk'[req[d].path] = "part" \/ req[d].path \in mixed'
    <3>1. req[d].path \in Dav!Paths
      BY <2>1, <2>2 DEF MethodOf
    <3>2. CASE req[d].path \in Dav!Below(p)
      <4>1. Dav!Related(req[d].path, p)
        BY <3>2 DEF Dav!Related
      <4>2. req[d].path \in Dav!Below(req[d].path)
        BY <3>1, BelowItself
      <4> QED
        BY <1>5, <2>2, <4>1, <4>2 DEF Dav!Tainted
    <3> QED
      BY <1>5, <1>6, <2>1, <2>2, <3>1, <3>2 DEF UploadKnows
  <2>3. r.path = p
    BY <1>2
  <2> QED
    BY <1>5, <2>2, <2>3 DEF Dav!Tainted
<1>11. \A f \in Folders : disk'[<<f>>] = "dir" =>
           \/ disk[<<f>>] = "dir"
           \/ r.pc \in {"node", "create"} /\ r.op = "mkcol" /\ r.path = <<f>>
  <2> TAKE f \in Folders
  <2>1. <<f>> \in Dav!Paths
    BY DEF Dav!Dirs, Dav!Paths
  <2> QED
    BY <1>6, <2>1
<1>12. \A q \in Dav!Files \ mixed' : disk'[q] = "whole" => disk[q] = "whole"
  BY <1>6 DEF Dav!Paths
<1>13. DavFromIdle(c, r)
  BY <1>3, <1>10, <1>11, <1>12 DEF DavFromIdle
<1> QED
  BY <1>3, <1>4, <1>5, <1>6, <1>7, <1>8, <1>9, <1>13, DavBegins

\* The folder of one file and the name of another make the path of a file.
LEMMA DirAndBase ==
    ASSUME NEW p \in Dav!Files, NEW q \in Dav!Files
    PROVE  /\ Append(Dav!Dir(p), Dav!Base(q)) \in Dav!Files
           /\ Dav!Base(q) \in Names \ Folders
           /\ Len(p) = 1 => Append(Dav!Dir(p), Dav!Base(q)) = <<Dav!Base(q)>>
           /\ Len(p) # 1 => Append(Dav!Dir(p), Dav!Base(q)) = <<p[1], Dav!Base(q)>>
<1>1. p \in Dav!Paths /\ q \in Dav!Paths
  BY DEF Dav!Paths
<1>2. Dav!Base(q) \in Names \ Folders
  BY <1>1, PathParts
<1>3. PICK b \in Names \ Folders : b = Dav!Base(q)
  BY <1>2
<1>4. CASE Len(p) = 1
  <2>1. Dav!Dir(p) = <<>>
    BY <1>1, <1>4, DirOfPath
  <2>2. Append(<<>>, b) = <<b>>
    OBVIOUS
  <2> QED
    BY <1>3, <1>4, <2>1, <2>2, PathsMade DEF Dav!Files
<1>5. CASE Len(p) # 1
  <2>1. PICK f \in Folders : f = p[1] /\ Dav!Dir(p) = <<f>>
    BY <1>1, <1>5, DirOfPath
  <2>2. Append(<<f>>, b) = <<f, b>>
    <3>1. PICK s : s = Append(<<f>>, b)
      OBVIOUS
    <3>2. <<f>> \in Seq(Names) /\ Len(<<f>>) = 1 /\ <<f>>[1] = f
      BY DavFacts
    <3>3. s \in Seq(Names) /\ Len(s) = 2 /\ s[1] = f /\ s[2] = b
      BY <3>1, <3>2, AppendProperties
    <3>4. s = <<s[1], s[2]>>
      BY <3>3
    <3> QED
      BY <3>1, <3>3, <3>4
  <2>3. <<f, b>> \in Dav!Files
    BY PathsMade
  <2> QED
    BY <1>3, <1>5, <2>1, <2>2, <2>3
<1> QED
  BY <1>4, <1>5

LEMMA DavRename ==
    ASSUME DavInv, NEW c \in Clients, NEW p \in Dav!Files, NEW q \in Dav!Files, Dav!Rename(c, p, q)
    PROVE  DavInv'
<1>0. p \in Dav!Paths /\ q \in Dav!Paths
  BY DEF Dav!Paths
<1>1. PICK r : r = [Dav!Idle EXCEPT !.pc = "rename", !.op = "move", !.path = p, !.to = q]
  OBVIOUS
<1>2. r = [pc |-> "rename", op |-> "move", path |-> p, to |-> q, id |-> 0, parent |-> 0]
  BY <1>1 DEF Dav!Idle
<1>3. /\ req' = [req EXCEPT ![c] = r]
      /\ disk' = [disk EXCEPT ![p] = "none", ![q] = disk[p]]
      /\ mixed' = mixed \cup Dav!Tainted({p, q, Append(Dav!Dir(p), Dav!Base(q))})
      /\ uploads' = uploads /\ nodes' = nodes
      /\ req[c].pc = "idle"
  BY <1>1 DEF Dav!Rename
<1>4. r \in DavRequest
  BY <1>0, <1>2, SMT DEF DavRequest, Dav!Pcs, DavOps
<1>5. mixed \subseteq mixed' /\ mixed' \in SUBSET Dav!Paths /\ {p, q} \subseteq mixed'
  <2>1. {p, q, Append(Dav!Dir(p), Dav!Base(q))} \in SUBSET Dav!Paths
    BY <1>0, DirAndBase DEF Dav!Paths
  <2>2. /\ Dav!Tainted({p, q, Append(Dav!Dir(p), Dav!Base(q))}) \in SUBSET Dav!Paths
        /\ {p, q, Append(Dav!Dir(p), Dav!Base(q))} \subseteq Dav!Tainted({p, q, Append(Dav!Dir(p), Dav!Base(q))})
    BY <2>1, MarksArePaths
  <2> QED
    BY <1>3, <2>2, RequestOfClient
<1>6. disk' \in [Dav!Paths -> {"none", "dir", "part", "whole"}]
      /\ \A t \in Dav!Paths \ {p, q} : disk'[t] = disk[t]
  BY <1>0, <1>3, RequestOfClient
<1>7. MethodOf(r) /\ MoveMarks(r)'
  <2>1. MethodOf(r)
    BY <1>0, <1>2 DEF MethodOf
  <2>2. MoveMarks(r)'
    BY <1>2, <1>3 DEF MoveMarks
  <2> QED
    BY <2>1, <2>2
<1>8. UploadKnows(r)'
  <2>1. 0 \in 0..Len(uploads')
    BY <1>3, LenProperties, SMT DEF DavInv, DavTypes
  <2> QED
    BY <1>2, <2>1 DEF UploadKnows
<1>9. ParentKnown(r)'
  <2>1. 0 \in 0..Len(nodes')
    BY <1>3, LenProperties, SMT DEF DavInv, DavTypes
  <2> QED
    BY <1>2, <2>1 DEF ParentKnown
<1>10. ASSUME NEW d \in Clients \ {c}
       PROVE  /\ req[d].pc = "copy" => disk'[req[d].path] = "part" \/ req[d].path \in mixed'
              /\ /\ r.pc # "idle" /\ r.op # "move" /\ req[d].pc # "idle" /\ req[d].op # "move"
                 /\ Dav!Related(req[d].path, r.path)
                 => Dav!Below(req[d].path) \cup Dav!Below(r.path) \subseteq mixed'
  <2>1. MethodOf(req[d]) /\ UploadKnows(req[d])
    BY RequestOfClient
  <2>2. req[d].pc = "copy" => disk'[req[d].path] = "part" \/ req[d].path \in mixed'
    BY <1>5, <1>6, <2>1 DEF MethodOf, UploadKnows
  <2> QED
    BY <1>2, <2>2
<1>11. \A f \in Folders : disk'[<<f>>] = "dir" =>
           \/ disk[<<f>>] = "dir"
           \/ r.pc \in {"node", "create"} /\ r.op = "mkcol" /\ r.path = <<f>>
  <2> TAKE f \in Folders
  <2>1. <<f>> \in Dav!Dirs /\ p \notin Dav!Dirs /\ q \notin Dav!Dirs
    BY <1>0, PathParts DEF Dav!Dirs
  <2>2. <<f>> \in Dav!Paths \ {p, q}
    BY <2>1 DEF Dav!Paths
  <2> QED
    BY <1>6, <2>2
<1>12. \A t \in Dav!Files \ mixed' : disk'[t] = "whole" => disk[t] = "whole"
  BY <1>5, <1>6 DEF Dav!Paths
<1>13. DavFromIdle(c, r)
  BY <1>3, <1>10, <1>11, <1>12 DEF DavFromIdle
<1> QED
  BY <1>3, <1>4, <1>5, <1>6, <1>7, <1>8, <1>9, <1>13, DavBegins

\* What a step of a client's own request has to see to.
DavGoesOn(c, r) ==
    /\ r.path = req[c].path /\ r.op = req[c].op
    /\ req[c].pc # "idle"
    /\ \A d \in Clients \ {c} :
           req[d].pc = "copy" => disk'[req[d].path] = "part" \/ req[d].path \in mixed
    /\ \A f \in Folders : disk'[<<f>>] = "dir" =>
           /\ disk[<<f>>] = "dir"
           /\ req[c].pc \in {"node", "create"} /\ req[c].op = "mkcol" /\ req[c].path = <<f>> =>
                 r.pc \in {"node", "create"}
    /\ \A q \in Dav!Files \ mixed : disk'[q] = "whole" =>
           /\ disk[q] = "whole" \/ (r.pc \in {"close", "insert", "node", "create"} /\ r.op = "put" /\ r.path = q)
           /\ req[c].pc \in {"close", "insert", "node", "create"} /\ req[c].op = "put" /\ req[c].path = q =>
                 r.pc \in {"close", "insert", "node", "create"}

LEMMA DavGoes ==
    ASSUME DavInv, NEW c \in Clients, NEW r \in DavRequest,
           req' = [req EXCEPT ![c] = r],
           uploads' = uploads, nodes' = nodes, mixed' = mixed,
           disk' \in [Dav!Paths -> {"none", "dir", "part", "whole"}],
           MethodOf(r), UploadKnows(r)', ParentKnown(r)', MoveMarks(r)',
           DavGoesOn(c, r)
    PROVE  DavInv'
<1>1. \A d \in Clients \ {c} :
           /\ req[d].pc = "copy" => disk'[req[d].path] = "part" \/ req[d].path \in mixed'
           /\ /\ r.pc # "idle" /\ r.op # "move" /\ req[d].pc # "idle" /\ req[d].op # "move"
              /\ Dav!Related(req[d].path, r.path)
              => Dav!Below(req[d].path) \cup Dav!Below(r.path) \subseteq mixed'
  <2> TAKE d \in Clients \ {c}
  <2>1. /\ req[c].pc # "idle" /\ req[c].op # "move" /\ req[d].pc # "idle" /\ req[d].op # "move"
        /\ Dav!Related(req[d].path, req[c].path)
        => Dav!Below(req[d].path) \cup Dav!Below(req[c].path) \subseteq mixed
    BY DEF DavInv, OverlapMarks
  <2> QED
    BY <2>1 DEF DavGoesOn
<1>2. \A f \in Folders : disk'[<<f>>] = "dir" =>
           /\ \/ disk[<<f>>] = "dir"
              \/ r.pc \in {"node", "create"} /\ r.op = "mkcol" /\ r.path = <<f>>
           /\ req[c].pc \in {"node", "create"} /\ req[c].op = "mkcol" /\ req[c].path = <<f>> =>
                 \/ Dav!Children(0, f) # {}
                 \/ r.pc \in {"node", "create"} /\ r.op = "mkcol" /\ r.path = <<f>>
  BY DEF DavGoesOn
<1>3. \A q \in Dav!Files \ mixed' : disk'[q] = "whole" =>
           /\ \/ disk[q] = "whole"
              \/ r.pc \in {"close", "insert", "node", "create"} /\ r.op = "put" /\ r.path = q
           /\ req[c].pc \in {"close", "insert", "node", "create"} /\ req[c].op = "put" /\ req[c].path = q =>
                 \/ \E n \in DOMAIN nodes : NodePath(n) = q
                 \/ r.pc \in {"close", "insert", "node", "create"} /\ r.op = "put" /\ r.path = q
  BY DEF DavGoesOn
<1>4. mixed \subseteq mixed' /\ mixed' \in SUBSET Dav!Paths
  BY RequestOfClient
<1> QED
  BY <1>1, <1>2, <1>3, <1>4, DavRequestMoves

\* Two uploads of a file have marked it.
LEMMA UploadAlone ==
    ASSUME DavInv, NEW c \in Clients, NEW d \in Clients, c # d,
           req[c].pc # "idle", req[d].pc # "idle", req[c].op # "move", req[d].op # "move",
           req[d].path = req[c].path
    PROVE  Dav!Below(req[c].path) \subseteq mixed /\ req[c].path \in mixed
<1>1. req[c].path \in Dav!Paths
  BY RequestOfClient DEF MethodOf
<1>2. Dav!Related(req[c].path, req[d].path) /\ req[c].path \in Dav!Below(req[c].path)
  BY <1>1, BelowItself
<1> QED
  BY <1>2 DEF DavInv, OverlapMarks

LEMMA DavCopyBody == ASSUME DavInv, NEW c \in Clients, Dav!CopyBody(c) PROVE DavInv'
<1>1. PICK r : r = [req[c] EXCEPT !.pc = "close"]
  OBVIOUS
<1>2. PICK p : p = req[c].path
  OBVIOUS
<1>3. req[c].pc = "copy" /\ req[c].op = "put" /\ p \in Dav!Files /\ p \in Dav!Paths
  BY <1>2, RequestOfClient DEF Dav!CopyBody, MethodOf
<1>4. r \in DavRequest
  BY <1>1, RequestOfClient, SMT DEF DavRequest, Dav!Pcs
<1>5. r.pc = "close" /\ r.op = "put" /\ r.path = p /\ r.to = req[c].to /\ r.id = req[c].id /\ r.parent = req[c].parent
  BY <1>1, <1>2, <1>3, RequestOfClient DEF DavRequest
<1>6. /\ req' = [req EXCEPT ![c] = r]
      /\ disk' = [disk EXCEPT ![p] = IF disk[p] = "part" THEN "whole" ELSE disk[p]]
      /\ mixed' = mixed /\ uploads' = uploads /\ nodes' = nodes
  BY <1>1, <1>2, <1>3, RequestOfClient DEF Dav!CopyBody, Dav!Goto
<1>7. disk' \in [Dav!Paths -> {"none", "dir", "part", "whole"}]
      /\ \A q \in Dav!Paths \ {p} : disk'[q] = disk[q]
  BY <1>3, <1>6, RequestOfClient
<1>8. MethodOf(r) /\ MoveMarks(r)'
  BY <1>3, <1>5 DEF MethodOf, MoveMarks
<1>9. UploadKnows(r)' /\ ParentKnown(r)'
  <2>1. UploadKnows(req[c]) /\ ParentKnown(req[c])
    BY RequestOfClient
  <2>2. \A f : Dav!Children(0, f)' = Dav!Children(0, f)
    BY <1>6 DEF Dav!Children
  <2>3. UploadKnows(r)'
    BY <1>2, <1>3, <1>5, <1>6, <2>1, <2>2 DEF UploadKnows
  <2>4. ParentKnown(r)'
    BY <1>5, <1>6, <2>1 DEF ParentKnown
  <2> QED
    BY <2>3, <2>4
<1>10. ASSUME NEW d \in Clients \ {c}, req[d].pc = "copy"
       PROVE  disk'[req[d].path] = "part" \/ req[d].path \in mixed
  <2>1. MethodOf(req[d]) /\ UploadKnows(req[d])
    BY RequestOfClient
  <2>2. req[d].path \in Dav!Paths /\ req[d].op = "put"
    BY <1>10, <2>1 DEF MethodOf
  <2>3. CASE req[d].path = p
    BY <1>2, <1>3, <1>10, <2>2, <2>3, UploadAlone
  <2> QED
    BY <1>7, <1>10, <2>1, <2>2, <2>3 DEF UploadKnows
<1>11. \A f \in Folders : disk'[<<f>>] = "dir" => disk[<<f>>] = "dir"
  <2> TAKE f \in Folders
  <2>1. <<f>> \in Dav!Dirs /\ p \notin Dav!Dirs
    BY <1>3, PathParts DEF Dav!Dirs
  <2>2. <<f>> \in Dav!Paths \ {p}
    BY <2>1 DEF Dav!Paths
  <2> QED
    BY <1>7, <2>2
<1>12. DavGoesOn(c, r)
  BY <1>2, <1>3, <1>5, <1>7, <1>10, <1>11 DEF DavGoesOn, Dav!Paths
<1> QED
  BY <1>4, <1>6, <1>7, <1>8, <1>9, <1>12, DavGoes

LEMMA DavBodyLost == ASSUME DavInv, NEW c \in Clients, Dav!BodyLost(c) PROVE DavInv'
<1>0. req[c].pc = "copy" /\ req[c].op = "put" /\ req[c].path \in Dav!Paths
      /\ UNCHANGED <<disk, uploads, nodes, mixed>>
  BY RequestOfClient DEF Dav!BodyLost, MethodOf
<1>1. CASE Dav!End(c)
  BY <1>0, <1>1, DavEnds
<1>2. CASE Dav!Goto(c, "close")
  <2>1. PICK r : r = [req[c] EXCEPT !.pc = "close"]
    OBVIOUS
  <2>2. r \in DavRequest
    BY <2>1, RequestOfClient, SMT DEF DavRequest, Dav!Pcs
  <2>3. r.pc = "close" /\ r.op = "put" /\ r.path = req[c].path /\ r.to = req[c].to /\ r.id = req[c].id /\ r.parent = req[c].parent
    BY <1>0, <2>1, RequestOfClient DEF DavRequest
  <2>4. req' = [req EXCEPT ![c] = r]
    BY <1>2, <2>1 DEF Dav!Goto
  <2>5. MethodOf(r) /\ MoveMarks(r)'
    BY <1>0, <2>3, RequestOfClient DEF MethodOf, MoveMarks
  <2>6. UploadKnows(r)' /\ ParentKnown(r)'
    BY <1>0, <2>3, RequestOfClient DEF UploadKnows, ParentKnown, Dav!Children
  <2>7. \A d \in Clients : req[d].pc = "copy" => disk'[req[d].path] = "part" \/ req[d].path \in mixed
    BY <1>0, RequestOfClient DEF UploadKnows
  <2>8. DavGoesOn(c, r)
    BY <1>0, <2>3, <2>7 DEF DavGoesOn
  <2> QED
    BY <1>0, <2>2, <2>4, <2>5, <2>6, <2>8, DavGoes, RequestOfClient
<1> QED
  BY <1>1, <1>2 DEF Dav!BodyLost

LEMMA DavCloseUpload == ASSUME DavInv, NEW c \in Clients, Dav!CloseUpload(c) PROVE DavInv'
<1>1. PICK p : p = req[c].path
  OBVIOUS
<1>2. req[c].pc = "close" /\ req[c].op = "put" /\ p \in Dav!Files /\ p \in Dav!Paths
      /\ UNCHANGED <<disk, uploads, nodes, mixed>>
  BY <1>1, RequestOfClient DEF Dav!CloseUpload, MethodOf
<1>3. uploads \in Seq(Dav!Paths) /\ DOMAIN uploads = 1..Len(uploads)
  BY LenProperties DEF DavInv, DavTypes
<1>4. CASE disk[p] = "none" /\ Dav!End(c)
  <2>1. \A q \in Dav!Files \ mixed : req[c].path = q => disk[q] # "whole"
    BY <1>1, <1>4
  <2> QED
    BY <1>2, <1>4, <2>1, DavEnds
<1>5. ASSUME NEW step \in {"insert", "node"}, NEW i \in 0..Len(uploads),
             req' = [req EXCEPT ![c] = [req[c] EXCEPT !.pc = step, !.id = i]],
             step = "insert" => \A j \in DOMAIN uploads : uploads[j] # p,
             step = "node" => i # 0 /\ uploads[i] = p
      PROVE  DavInv'
  <2>1. PICK r : r = [req[c] EXCEPT !.pc = step, !.id = i]
    OBVIOUS
  <2>2. r \in DavRequest
    <3>1. i \in Nat
      BY <1>3, LenProperties, SMT
    <3>2. step \in Dav!Pcs
      BY DEF Dav!Pcs
    <3>3. req[c] \in DavRequest
      BY RequestOfClient
    <3> QED
      BY <2>1, <3>1, <3>2, <3>3, RequestEdited, ZenonT(30)
  <2>3. r.pc = step /\ r.op = "put" /\ r.path = p /\ r.to = req[c].to /\ r.id = i /\ r.parent = req[c].parent
    BY <1>1, <1>2, <2>1, RequestOfClient DEF DavRequest
  <2>4. MethodOf(r) /\ MoveMarks(r)'
    BY <1>2, <2>3 DEF MethodOf, MoveMarks
  <2>5. UploadKnows(r)'
    BY <1>1, <1>2, <1>5, <2>3, RequestOfClient DEF UploadKnows, Dav!Children
  <2>6. ParentKnown(r)'
    BY <1>2, <2>3, RequestOfClient DEF ParentKnown
  <2>7. \A d \in Clients : req[d].pc = "copy" => disk'[req[d].path] = "part" \/ req[d].path \in mixed
    BY <1>2, RequestOfClient DEF UploadKnows
  <2>8. DavGoesOn(c, r)
    BY <1>1, <1>2, <2>3, <2>7 DEF DavGoesOn
  <2> QED
    BY <1>2, <1>5, <2>1, <2>2, <2>4, <2>5, <2>6, <2>8, DavGoes, RequestOfClient
<1>6. CASE (\A j \in DOMAIN uploads : uploads[j] # p) /\ Dav!Goto(c, "insert")
  <2>1. req[c].id \in 0..Len(uploads)
    BY RequestOfClient DEF UploadKnows
  <2>2. [req[c] EXCEPT !.pc = "insert", !.id = req[c].id] = [req[c] EXCEPT !.pc = "insert"]
    BY RequestOfClient DEF DavRequest
  <2> QED
    <3>1. req' = [req EXCEPT ![c] = [req[c] EXCEPT !.pc = "insert", !.id = req[c].id]]
      BY <1>6, <2>2, Zenon DEF Dav!Goto
    <3> QED
      BY <1>5, <1>6, <2>1, <3>1, ZenonT(30)
<1>7. ASSUME NEW i \in DOMAIN uploads, uploads[i] = p, req' = [req EXCEPT ![c].pc = "node", ![c].id = i]
      PROVE  DavInv'
  <2>1. req' = [req EXCEPT ![c] = [req[c] EXCEPT !.pc = "node", !.id = i]]
    <3>1. req \in [Clients -> DavRequest]
      BY DEF DavInv, DavTypes
    <3> QED
      BY <1>7, <3>1
  <2>2. i \in 0..Len(uploads) /\ i # 0
    BY <1>3, <1>7, LenProperties, SMT
  <2>3. "node" \in {"insert", "node"} /\ "node" # "insert"
    OBVIOUS
  <2> QED
    BY <1>5, <1>7, <2>1, <2>2, <2>3, ZenonT(30)
<1>8. \/ disk[p] = "none" /\ Dav!End(c)
      \/ (\A j \in DOMAIN uploads : uploads[j] # p) /\ Dav!Goto(c, "insert")
      \/ \E i \in DOMAIN uploads : uploads[i] = p /\ req' = [req EXCEPT ![c].pc = "node", ![c].id = i]
  BY <1>1, Zenon DEF Dav!CloseUpload
<1> QED
  BY <1>4, <1>6, <1>7, <1>8

\* The node that a path is resolved to is at that path.
LEMMA FoundAtPath ==
    ASSUME NEW p \in Dav!Paths, NEW n \in DOMAIN nodes
    PROVE  /\ Len(p) = 1 /\ n \in Dav!Children(0, p[1]) => NodePath(n) = p
           /\ Len(p) # 1 => \A m \in Dav!Children(0, p[1]) :
                  m # 0 /\ n \in Dav!Children(m, p[2]) => NodePath(n) = p
<1>1. Len(p) = 1 => p = <<p[1]>>
  BY PathParts, ZenonT(30)
<1>2. Len(p) # 1 => p = <<p[1], p[2]>>
  BY DirOfPath
<1>3. Len(p) = 1 /\ n \in Dav!Children(0, p[1]) => NodePath(n) = p
  BY <1>1 DEF Dav!Children, NodePath, PlacedAt
<1>4. Len(p) # 1 => \A m \in Dav!Children(0, p[1]) :
                  m # 0 /\ n \in Dav!Children(m, p[2]) => NodePath(n) = p
  BY <1>2 DEF Dav!Children, NodePath, PlacedAt
<1> QED
  BY <1>3, <1>4

LEMMA ChildIsNode ==
    ASSUME DavTypes, NEW parent, NEW called, NEW n \in Dav!Children(parent, called)
    PROVE  n \in DOMAIN nodes /\ n \in 1..Len(nodes) /\ n # 0
           /\ nodes[n] \in DavNode /\ nodes[n].parent = parent /\ nodes[n].name = called
<1>1. n \in DOMAIN nodes /\ nodes[n].parent = parent /\ nodes[n].name = called
  BY DEF Dav!Children
<1>2. nodes \in Seq(DavNode)
  BY DEF DavTypes
<1>3. n \in 1..Len(nodes) /\ nodes[n] \in DavNode
  BY <1>1, <1>2, LenProperties, ElementOfSeq
<1> QED
  BY <1>1, <1>3, SMT

LEMMA DavFindParent == ASSUME DavInv, NEW c \in Clients, Dav!FindParent(c) PROVE DavInv'
<1>0. /\ req[c].pc = "node" /\ UNCHANGED <<disk, uploads, nodes, mixed>>
      /\ req[c] \in DavRequest /\ MethodOf(req[c]) /\ UploadKnows(req[c])
      /\ disk' \in [Dav!Paths -> {"none", "dir", "part", "whole"}]
      /\ DavTypes
  BY RequestOfClient DEF Dav!FindParent, DavInv
<1>1. PICK p \in Dav!Paths : p = req[c].path
  BY <1>0 DEF MethodOf
<1>2. PICK par \in Dav!ResolveParentNode(p) :
          IF ~Dav!NodeExists(par, Dav!Base(p))
          THEN req' = [req EXCEPT ![c].pc = "create", ![c].parent = par]
          ELSE Dav!End(c)
  BY <1>1 DEF Dav!FindParent, Dav!NodeWanted
<1>3. /\ par \in 0..Len(nodes)
      /\ \/ Len(p) = 1 /\ par = 0
         \/ Len(p) = 2 /\ par \in Dav!Children(0, p[1])
         \/ Len(p) = 2 /\ par = 0 /\ {p, <<p[2]>>} \subseteq mixed
  <2>1. Len(nodes) \in Nat
    BY <1>0, LenProperties DEF DavTypes
  <2>2. CASE Len(p) = 1
    BY <1>2, <2>1, <2>2 DEF Dav!ResolveParentNode
  <2>3. CASE Len(p) # 1
    <3>1. Len(p) = 2 /\ par \in Dav!AnyChild(0, p[1])
      BY <1>2, <2>3, DirOfPath DEF Dav!ResolveParentNode
    <3>2. CASE Dav!Children(0, p[1]) = {}
      <4>1. p \notin Dav!Dirs
        BY <2>3, PathParts
      <4>2. req[c].op = "put"
        BY <1>0, <1>1, <4>1 DEF MethodOf
      <4>3. {p, <<p[2]>>} \subseteq mixed
        BY <1>0, <1>1, <3>1, <3>2, <4>2 DEF UploadKnows
      <4>4. par = 0
        BY <3>1, <3>2 DEF Dav!AnyChild
      <4> QED
        BY <2>1, <3>1, <4>3, <4>4
    <3>3. CASE Dav!Children(0, p[1]) # {}
      <4>1. par \in Dav!Children(0, p[1])
        BY <3>1, <3>3 DEF Dav!AnyChild
      <4>2. par \in 1..Len(nodes)
        BY <1>0, <4>1, ChildIsNode
      <4> QED
        BY <2>1, <3>1, <4>1, <4>2
    <3> QED
      BY <3>2, <3>3
  <2> QED
    BY <2>2, <2>3
<1>4. CASE ~Dav!NodeExists(par, Dav!Base(p))
  <2>1. PICK r : r = [req[c] EXCEPT !.pc = "create", !.parent = par]
    OBVIOUS
  <2>2. r \in DavRequest
    <3>1. par \in Nat /\ "create" \in Dav!Pcs
      BY <1>0, <1>3, LenProperties, SMT DEF Dav!Pcs, DavTypes
    <3> QED
      BY <1>0, <2>1, <3>1, RequestEdited, ZenonT(30)
  <2>3. r.pc = "create" /\ r.op = req[c].op /\ r.path = p /\ r.to = req[c].to /\ r.id = req[c].id /\ r.parent = par
    BY <1>0, <1>1, <2>1 DEF DavRequest
  <2>4. req' = [req EXCEPT ![c] = r]
    <3>1. req \in [Clients -> DavRequest]
      BY <1>0 DEF DavTypes
    <3> QED
      BY <1>2, <1>4, <2>1, <3>1
  <2>5. MethodOf(r) /\ MoveMarks(r)'
    BY <1>0, <1>1, <2>3 DEF MethodOf, MoveMarks
  <2>6. UploadKnows(r)'
    <3>1. \A f : Dav!Children(0, f)' = Dav!Children(0, f)
      BY <1>0 DEF Dav!Children
    <3> QED
      BY <1>0, <1>1, <2>3, <3>1 DEF UploadKnows
  <2>7. ParentKnown(r)'
    <3>1. \A x, y : Dav!Children(x, y)' = Dav!Children(x, y)
      BY <1>0 DEF Dav!Children
    <3>2. ~Dav!NodeExists(r.parent, Dav!Base(r.path))'
      BY <1>4, <2>3, <3>1 DEF Dav!NodeExists
    <3>3. r.parent \in 0..Len(nodes')
      BY <1>0, <1>3, <2>3
    <3>4. \/ Len(r.path) = 1 /\ r.parent = 0
          \/ Len(r.path) = 2 /\ r.parent \in Dav!Children(0, r.path[1])'
          \/ Len(r.path) = 2 /\ r.parent = 0 /\ {r.path, <<r.path[2]>>} \subseteq mixed'
      BY <1>0, <1>3, <2>3, <3>1
    <3> QED
      BY <3>2, <3>3, <3>4 DEF ParentKnown
  <2>8. \A d \in Clients : req[d].pc = "copy" => disk'[req[d].path] = "part" \/ req[d].path \in mixed
    BY <1>0, RequestOfClient DEF UploadKnows
  <2>9. DavGoesOn(c, r)
    BY <1>0, <1>1, <2>3, <2>8 DEF DavGoesOn
  <2> QED
    BY <1>0, <2>2, <2>4, <2>5, <2>6, <2>7, <2>9, DavGoes
<1>5. CASE Dav!NodeExists(par, Dav!Base(p))
  <2>1. PICK n \in Dav!Children(par, Dav!Base(p)) : TRUE
    BY <1>5 DEF Dav!NodeExists
  <2>2. n \in DOMAIN nodes
    BY DEF Dav!Children
  <2>3. ASSUME NEW f \in Folders, p = <<f>> PROVE Dav!Children(0, f) # {}
    <3>1. Len(p) = 1 /\ p[1] = f
      BY <2>3
    <3>2. par = 0 /\ Dav!Base(p) = f
      BY <1>3, <3>1 DEF Dav!Base
    <3> QED
      BY <2>1, <3>2
  <2>4. p \notin mixed => NodePath(n) = p
    <3>1. CASE Len(p) = 1
      <4>1. par = 0 /\ Dav!Base(p) = p[1]
        BY <1>3, <3>1 DEF Dav!Base
      <4> QED
        BY <2>1, <2>2, <3>1, <4>1, FoundAtPath
    <3>2. CASE Len(p) # 1 /\ p \notin mixed
      <4>1. par \in Dav!Children(0, p[1])
        BY <1>3, <3>2
      <4>2. par # 0
        BY <1>0, <4>1, ChildIsNode
      <4>3. Dav!Base(p) = p[2]
        BY <3>2, DirOfPath
      <4> QED
        BY <2>1, <2>2, <3>2, <4>1, <4>2, <4>3, FoundAtPath
    <3> QED
      BY <3>1, <3>2
  <2> QED
    BY <1>0, <1>1, <1>2, <1>5, <2>2, <2>3, <2>4, DavEnds
<1> QED
  BY <1>4, <1>5

LEMMA DavSoftDelete == ASSUME DavInv, NEW c \in Clients, Dav!SoftDelete(c) PROVE DavInv'
  BY DavEnds DEF Dav!SoftDelete

\* A write below storage marks the path, and no request notices it.
LEMMA DavLegacyWrite ==
    ASSUME DavInv, NEW p \in Dav!Files, NEW what \in {"none", "whole"}, Dav!LegacyWrite(p, what)
    PROVE  DavInv'
<1>0. p \in Dav!Paths
  BY DEF Dav!Paths
<1>1. /\ disk' = [disk EXCEPT ![p] = what]
      /\ mixed' = mixed \cup {p}
      /\ uploads' = uploads /\ nodes' = nodes /\ req' = req
  BY DEF Dav!LegacyWrite
<1>2. disk' \in [Dav!Paths -> {"none", "dir", "part", "whole"}]
      /\ \A q \in Dav!Paths \ {p} : disk'[q] = disk[q]
  BY <1>0, <1>1 DEF DavInv, DavTypes
<1>3. DavTypes'
  BY <1>0, <1>1, <1>2 DEF DavInv, DavTypes
<1>4. \A n : NodePath(n)' = NodePath(n)
  BY <1>1 DEF NodePath, PlacedAt
<1>5. \A x, y : Dav!Children(x, y)' = Dav!Children(x, y) /\ PlacedAt(x, y)' = PlacedAt(x, y)
  BY <1>1 DEF Dav!Children, PlacedAt
<1>6. TreeRight'
  BY <1>1, <1>4 DEF DavInv, TreeRight
<1>7. RequestsRight'
  <2> SUFFICES ASSUME NEW c \in Clients
               PROVE  MethodOf(req[c])' /\ UploadKnows(req[c])' /\ ParentKnown(req[c])' /\ MoveMarks(req[c])'
    BY DEF RequestsRight
  <2>1. MethodOf(req[c]) /\ UploadKnows(req[c]) /\ ParentKnown(req[c]) /\ MoveMarks(req[c])
    BY RequestOfClient
  <2>2. req[c].pc # "idle" => req[c].path \in Dav!Paths
    BY <2>1 DEF MethodOf
  <2>3. req[c].pc = "copy" => disk'[req[c].path] = "part" \/ req[c].path \in mixed'
    BY <1>1, <1>2, <2>1, <2>2 DEF UploadKnows
  <2>4. UploadKnows(req[c])'
    BY <1>1, <1>5, <2>1, <2>3 DEF UploadKnows
  <2>5. ParentKnown(req[c])'
    BY <1>1, <1>5, <2>1 DEF ParentKnown, Dav!NodeExists
  <2>6. MethodOf(req[c])' /\ MoveMarks(req[c])'
    BY <1>1, <2>1 DEF MethodOf, MoveMarks
  <2> QED
    BY <2>4, <2>5, <2>6
<1>8. OverlapMarks'
  BY <1>1 DEF DavInv, OverlapMarks
<1>9. OnceEach'
  <2>1. \A f \in Folders : disk'[<<f>>] = disk[<<f>>]
    <3> SUFFICES ASSUME NEW f \in Folders PROVE disk'[<<f>>] = disk[<<f>>]
      BY Zenon
    <3>1. <<f>> \in Dav!Dirs /\ p \notin Dav!Dirs
      BY <1>0, PathParts DEF Dav!Dirs
    <3>2. <<f>> \in Dav!Paths \ {p}
      BY <3>1 DEF Dav!Paths
    <3> QED
      BY <1>2, <3>2
  <2> QED
    BY <1>1, <1>5, <2>1 DEF DavInv, OnceEach
<1>10. WholeShown'
  BY <1>1, <1>2, <1>4 DEF DavInv, WholeShown, Dav!Paths
<1> QED
  BY <1>3, <1>6, <1>7, <1>8, <1>9, <1>10 DEF DavInv

LEMMA DavRegisterFile == ASSUME DavInv, NEW c \in Clients, Dav!RegisterFile(c) PROVE DavInv'
<1>1. PICK p \in Dav!Paths : p = req[c].path
  BY RequestOfClient DEF Dav!RegisterFile, MethodOf
<1>2. /\ req[c].pc = "insert" /\ req[c].op = "put" /\ p \in Dav!Files
      /\ (\A i \in DOMAIN uploads : uploads[i] # p) \/ p \in mixed
  BY <1>1, RequestOfClient DEF Dav!RegisterFile, MethodOf, UploadKnows
<1>3. PICK len \in Nat : len = Len(uploads)
  BY LenProperties DEF DavInv, DavTypes
<1>4. /\ uploads' = Append(uploads, p)
      /\ req' = [req EXCEPT ![c] = [req[c] EXCEPT !.pc = "node", !.id = len + 1]]
      /\ disk' = disk /\ nodes' = nodes /\ mixed' = mixed
  <2>1. req \in [Clients -> DavRequest]
    BY DEF DavInv, DavTypes
  <2> QED
    BY <1>1, <1>3, <2>1 DEF Dav!RegisterFile
<1>5. PICK r : r = [req[c] EXCEPT !.pc = "node", !.id = len + 1]
  OBVIOUS
<1>6. r \in DavRequest
  <2>1. "node" \in Dav!Pcs /\ len + 1 \in Nat /\ req[c] \in DavRequest
    BY RequestOfClient DEF Dav!Pcs
  <2> QED
    BY <1>5, <2>1, RequestEdited, ZenonT(30)
<1>7. r.pc = "node" /\ r.op = "put" /\ r.path = p /\ r.to = req[c].to /\ r.id = len + 1 /\ r.parent = req[c].parent
  BY <1>1, <1>2, <1>5, RequestOfClient DEF DavRequest
<1>8. /\ req' \in [Clients -> DavRequest]
      /\ req'[c] = r /\ \A d \in Clients \ {c} : req'[d] = req[d]
  BY <1>4, <1>5, <1>6 DEF DavInv, DavTypes
<1>9. /\ uploads' \in Seq(Dav!Paths) /\ Len(uploads') = len + 1 /\ uploads'[len + 1] = p
      /\ DOMAIN uploads = 1..len /\ DOMAIN uploads' = 1..(len + 1)
      /\ \A i \in 1..len : uploads'[i] = uploads[i]
  <2>1. uploads \in Seq(Dav!Paths)
    BY DEF DavInv, DavTypes
  <2> QED
    BY <1>3, <1>4, <2>1, AppendProperties, LenProperties
<1>10. DavTypes'
  BY <1>4, <1>8, <1>9 DEF DavInv, DavTypes
<1>11. \A x, y : Dav!Children(x, y)' = Dav!Children(x, y) /\ PlacedAt(x, y)' = PlacedAt(x, y)
  BY <1>4 DEF Dav!Children, PlacedAt
<1>12. \A n : NodePath(n)' = NodePath(n)
  BY <1>4 DEF NodePath, PlacedAt
<1>13. TreeRight'
  <2> SUFFICES ASSUME NEW n \in DOMAIN nodes
               PROVE  /\ nodes[n].file \in 0..(len + 1)
                      /\ nodes[n].file # 0 => uploads'[nodes[n].file] = NodePath(n) \/ NodePath(n) \in mixed
    BY <1>4, <1>9, <1>12 DEF DavInv, TreeRight
  <2>1. /\ nodes[n].file \in 0..len
        /\ nodes[n].file # 0 => uploads[nodes[n].file] = NodePath(n) \/ NodePath(n) \in mixed
    BY <1>3 DEF DavInv, TreeRight
  <2>2. nodes[n].file \in 0..(len + 1) /\ (nodes[n].file # 0 => nodes[n].file \in 1..len)
    BY <2>1, SMT
  <2> QED
    BY <1>9, <2>1, <2>2
<1>14. RequestsRight'
  <2> SUFFICES ASSUME NEW d \in Clients
               PROVE  MethodOf(req[d])' /\ UploadKnows(req[d])' /\ ParentKnown(req[d])' /\ MoveMarks(req[d])'
    BY DEF RequestsRight
  <2>1. CASE d = c
    <3>1. req'[d] = r /\ UploadKnows(req[c]) /\ ParentKnown(req[c])
      BY <1>8, <2>1, RequestOfClient
    <3>2. MethodOf(req[d])' /\ MoveMarks(req[d])'
      BY <1>2, <1>7, <3>1 DEF MethodOf, MoveMarks
    <3>3. UploadKnows(req[d])'
      <4>1. len + 1 \in 0..Len(uploads') /\ len + 1 # 0
        BY <1>9, SMT
      <4>2. Len(p) = 2 => Dav!Children(0, p[1])' # {} \/ {p, <<p[2]>>} \subseteq mixed'
        BY <1>1, <1>2, <1>4, <1>11, <3>1 DEF UploadKnows
      <4> QED
        BY <1>7, <1>9, <3>1, <4>1, <4>2 DEF UploadKnows
    <3>4. ParentKnown(req[d])'
      BY <1>4, <1>7, <3>1 DEF ParentKnown
    <3> QED
      BY <3>2, <3>3, <3>4
  <2>2. CASE d # c
    <3>1. req'[d] = req[d]
      BY <1>8, <2>2
    <3>2. MethodOf(req[d]) /\ UploadKnows(req[d]) /\ ParentKnown(req[d]) /\ MoveMarks(req[d]) /\ req[d] \in DavRequest
      BY RequestOfClient
    <3>3. MethodOf(req[d])' /\ MoveMarks(req[d])'
      BY <1>4, <3>1, <3>2 DEF MethodOf, MoveMarks
    <3>4. UploadKnows(req[d])'
      <4>1. req[d].id \in 0..len
        BY <1>3, <3>2 DEF UploadKnows
      <4>2. req[d].id \in 0..(len + 1) /\ (req[d].id # 0 => uploads'[req[d].id] = uploads[req[d].id])
        BY <1>9, <4>1, SMT
      <4>3. ASSUME req[d].pc = "insert"
            PROVE  (\A i \in DOMAIN uploads' : uploads'[i] # req[d].path) \/ req[d].path \in mixed'
        <5>1. CASE req[d].path = p
          <6>1. req[d].op = "put"
            BY <3>2, <4>3 DEF MethodOf
          <6> QED
            BY <1>1, <1>2, <1>4, <2>2, <4>3, <5>1, <6>1, UploadAlone
        <5>2. CASE req[d].path # p
          <6>1. (\A i \in 1..len : uploads[i] # req[d].path) \/ req[d].path \in mixed
            BY <1>9, <3>2, <4>3 DEF UploadKnows
          <6>2. \A i \in 1..(len + 1) : i \in 1..len \/ i = len + 1
            BY SMT
          <6> QED
            BY <1>4, <1>9, <5>2, <6>1, <6>2
        <5> QED
          BY <5>1, <5>2
      <4>4. req[d].pc \in {"node", "create"} =>
                IF req[d].op = "put" THEN req[d].id # 0 /\ uploads'[req[d].id] = req[d].path ELSE req[d].id = 0
        BY <3>2, <4>2 DEF UploadKnows
      <4>5. req[d].id \in 0..Len(uploads')
        BY <1>9, <4>2
      <4>6. /\ req[d].pc = "copy" => disk'[req[d].path] = "part" \/ req[d].path \in mixed'
            /\ req[d].pc # "idle" /\ req[d].op = "put" /\ Len(req[d].path) = 2 =>
                  Dav!Children(0, req[d].path[1])' # {} \/ {req[d].path, <<req[d].path[2]>>} \subseteq mixed'
        <5>1. \A f : Dav!Children(0, f)' = Dav!Children(0, f)
          BY <1>11
        <5>2. req[d].pc = "copy" => disk[req[d].path] = "part" \/ req[d].path \in mixed
          BY <3>2 DEF UploadKnows
        <5>3. req[d].pc # "idle" /\ req[d].op = "put" /\ Len(req[d].path) = 2 =>
                  Dav!Children(0, req[d].path[1]) # {} \/ {req[d].path, <<req[d].path[2]>>} \subseteq mixed
          BY <3>2 DEF UploadKnows
        <5> QED
          BY <1>4, <3>1, <5>1, <5>2, <5>3
      <4> QED
        BY <3>1, <4>3, <4>4, <4>5, <4>6 DEF UploadKnows
    <3>5. ParentKnown(req[d])'
      BY <1>4, <1>11, <3>1, <3>2 DEF ParentKnown, Dav!NodeExists
    <3> QED
      BY <3>3, <3>4, <3>5
  <2> QED
    BY <2>1, <2>2
<1>15. \A d \in Clients : req'[d].path = req[d].path /\ req'[d].op = req[d].op
                           /\ (req'[d].pc = req[d].pc \/ (d = c /\ req[d].pc = "insert" /\ req'[d].pc = "node"))
  BY <1>1, <1>2, <1>7, <1>8
<1>16. OverlapMarks'
  BY <1>4, <1>15 DEF DavInv, OverlapMarks
<1>17. OnceEach'
  <2>1. \A i, j \in DOMAIN uploads' : uploads'[i] = uploads'[j] /\ uploads'[i] \notin mixed' => i = j
    <3>1. \A i \in 1..(len + 1) : i \in 1..len \/ i = len + 1
      BY SMT
    <3>2. \A i, j \in 1..len : uploads[i] = uploads[j] /\ uploads[i] \notin mixed => i = j
      BY <1>9 DEF DavInv, OnceEach
    <3>3. \A i \in 1..len : uploads[i] # p \/ p \in mixed
      BY <1>2, <1>9
    <3> QED
      BY <1>4, <1>9, <3>1, <3>2, <3>3
  <2>2. \A f \in Folders :
           disk'[<<f>>] = "dir" => \/ Dav!Children(0, f)' # {}
                                   \/ \E d \in Clients : /\ req'[d].pc \in {"node", "create"}
                                                         /\ req'[d].op = "mkcol" /\ req'[d].path = <<f>>
    <3> SUFFICES ASSUME NEW f \in Folders, disk[<<f>>] = "dir"
                 PROVE  \/ Dav!Children(0, f) # {}
                        \/ \E d \in Clients : /\ req'[d].pc \in {"node", "create"}
                                              /\ req'[d].op = "mkcol" /\ req'[d].path = <<f>>
      BY <1>4, <1>11
    <3>1. \/ Dav!Children(0, f) # {}
          \/ \E d \in Clients : /\ req[d].pc \in {"node", "create"}
                                /\ req[d].op = "mkcol" /\ req[d].path = <<f>>
      BY DEF DavInv, OnceEach
    <3> QED
      BY <1>15, <3>1
  <2>3. \A f \in Folders : \A m, n \in Dav!Children(0, f)' : m = n \/ Dav!Below(<<f>>) \subseteq mixed'
    BY <1>4, <1>11 DEF DavInv, OnceEach
  <2>4. mixed' = {} => \A m, n \in DOMAIN nodes' :
           nodes'[m].parent = nodes'[n].parent /\ nodes'[m].name = nodes'[n].name => m = n
    BY <1>4 DEF DavInv, OnceEach
  <2> QED
    BY <2>1, <2>2, <2>3, <2>4 DEF OnceEach
<1>18. WholeShown'
  <2> SUFFICES ASSUME NEW q \in Dav!Files \ mixed, disk[q] = "whole"
               PROVE  \/ \E n \in DOMAIN nodes : NodePath(n) = q
                      \/ \E d \in Clients : /\ req'[d].pc \in {"close", "insert", "node", "create"}
                                            /\ req'[d].op = "put" /\ req'[d].path = q
    BY <1>4, <1>12 DEF WholeShown
  <2>1. \/ \E n \in DOMAIN nodes : NodePath(n) = q
        \/ \E d \in Clients : /\ req[d].pc \in {"close", "insert", "node", "create"}
                              /\ req[d].op = "put" /\ req[d].path = q
    BY DEF DavInv, WholeShown
  <2> QED
    BY <1>15, <2>1
<1> QED
  BY <1>10, <1>13, <1>14, <1>16, <1>17, <1>18 DEF DavInv

\* Where a request would put its node: at its path, or at the root where that is marked.
LEMMA PlaceWanted ==
    ASSUME DavInv, NEW c \in Clients, req[c].pc = "create"
    PROVE  /\ req[c].path \in Dav!Paths /\ Dav!Base(req[c].path) \in Names /\ req[c].op \in {"put", "mkcol"}
           /\ PlacedAt(req[c].parent, Dav!Base(req[c].path)) \in Dav!Paths
           /\ \/ PlacedAt(req[c].parent, Dav!Base(req[c].path)) = req[c].path
              \/ /\ req[c].path \in mixed /\ req[c].path \in Dav!Files
                 /\ PlacedAt(req[c].parent, Dav!Base(req[c].path)) \in mixed
                 /\ PlacedAt(req[c].parent, Dav!Base(req[c].path)) \in Dav!Files
           /\ req[c].parent # 0 => /\ Dav!Base(req[c].path) \notin Folders
                                   /\ nodes[req[c].parent].parent = 0
                                   /\ nodes[req[c].parent].name \in Folders
                                   /\ req[c].parent \in DOMAIN nodes
           /\ Len(req[c].path) = 1 => req[c].parent = 0
<1>1. PICK p \in Dav!Paths : p = req[c].path
  BY RequestOfClient DEF MethodOf
<1>2. PICK par : par = req[c].parent
  OBVIOUS
<1>3. /\ \/ Len(p) = 1 /\ par = 0
         \/ Len(p) = 2 /\ par \in Dav!Children(0, p[1])
         \/ Len(p) = 2 /\ par = 0 /\ {p, <<p[2]>>} \subseteq mixed
      /\ req[c].op \in {"put", "mkcol"}
  BY <1>1, <1>2, RequestOfClient DEF ParentKnown, MethodOf
<1>4. Dav!Base(p) \in Names
  BY PathParts, DavFacts
<1>5. CASE Len(p) = 1
  <2>1. par = 0
    BY <1>3, <1>5
  <2>2. p = <<p[1]>> /\ Dav!Base(p) = p[1]
    BY <1>5, PathParts, ZenonT(30)
  <2>3. PlacedAt(par, Dav!Base(p)) = p
    BY <2>1, <2>2 DEF PlacedAt
  <2> QED
    BY <1>1, <1>2, <1>3, <1>4, <2>1, <2>3
<1>6. CASE Len(p) # 1
  <2>1. p = <<p[1], p[2]>> /\ Dav!Base(p) = p[2] /\ p[1] \in Folders /\ p[2] \in Names \ Folders
    BY <1>6, DirOfPath
  <2>2. p \in Dav!Files /\ <<p[2]>> \in Dav!Files
    BY <2>1, PathsMade
  <2>3. CASE par \in Dav!Children(0, p[1])
    <3>1. par \in DOMAIN nodes /\ par # 0 /\ nodes[par].parent = 0 /\ nodes[par].name = p[1]
      BY <2>3, ChildIsNode DEF DavInv
    <3>2. PlacedAt(par, Dav!Base(p)) = p
      BY <2>1, <3>1 DEF PlacedAt
    <3> QED
      BY <1>1, <1>2, <1>3, <1>4, <1>6, <2>1, <3>1, <3>2
  <2>4. CASE par = 0 /\ {p, <<p[2]>>} \subseteq mixed
    <3>1. PlacedAt(par, Dav!Base(p)) = <<p[2]>>
      BY <2>1, <2>4 DEF PlacedAt
    <3>2. <<p[2]>> \in Dav!Paths
      BY <2>2 DEF Dav!Paths
    <3> QED
      BY <1>1, <1>2, <1>3, <1>4, <1>6, <2>2, <2>4, <3>1, <3>2
  <2> QED
    BY <1>3, <1>6, <2>3, <2>4
<1> QED
  BY <1>5, <1>6

\* Two requests that put a node at one place have marked it.
LEMMA PlaceShared ==
    ASSUME DavInv, NEW c \in Clients, NEW d \in Clients, c # d, req[c].pc = "create", req[d].pc = "create",
           req[d].parent = req[c].parent, Dav!Base(req[d].path) = Dav!Base(req[c].path)
    PROVE  Dav!Below(PlacedAt(req[c].parent, Dav!Base(req[c].path))) \subseteq mixed
<1>1. PICK pl : pl = PlacedAt(req[c].parent, Dav!Base(req[c].path))
  OBVIOUS
<1>2. /\ pl = req[c].path \/ (pl \in mixed /\ pl \in Dav!Files)
      /\ pl = req[d].path \/ (pl \in mixed /\ pl \in Dav!Files)
      /\ req[c].op # "move" /\ req[d].op # "move"
  BY <1>1, PlaceWanted
<1>3. CASE pl \in mixed /\ pl \in Dav!Files
  BY <1>1, <1>3, BelowFile
<1>4. CASE pl = req[c].path /\ pl = req[d].path
  BY <1>1, <1>2, <1>4, UploadAlone
<1> QED
  BY <1>2, <1>3, <1>4

LEMMA DavCreateNode == ASSUME DavInv, NEW c \in Clients, Dav!CreateNode(c) PROVE DavInv'
<1>1. req[c].pc = "create" /\ disk' = disk /\ uploads' = uploads /\ mixed' = mixed
      /\ DavTypes /\ req[c] \in DavRequest
  BY RequestOfClient DEF Dav!CreateNode, DavInv
<1>2. PICK p \in Dav!Paths : p = req[c].path
  BY <1>1, PlaceWanted
<1>3. PICK par \in Nat : par = req[c].parent
  BY <1>1 DEF DavRequest
<1>4. PICK b \in Names : b = Dav!Base(p)
  BY <1>1, <1>2, PlaceWanted
<1>5. PICK id \in Nat : id = req[c].id
  BY <1>1 DEF DavRequest
<1>6. PICK pl \in Dav!Paths : pl = PlacedAt(par, b)
  BY <1>1, <1>2, <1>3, <1>4, PlaceWanted
<1>7. PICK len \in Nat : len = Len(nodes)
  BY <1>1, LenProperties DEF DavTypes
<1>8. PICK new : new = [parent |-> par, name |-> b, file |-> id]
  OBVIOUS
<1>9. new \in DavNode /\ new.parent = par /\ new.name = b /\ new.file = id
  BY <1>8 DEF DavNode
<1>10. nodes' = Append(nodes, new) /\ req' = [req EXCEPT ![c] = Dav!Idle]
  BY <1>2, <1>3, <1>4, <1>5, <1>8 DEF Dav!CreateNode, Dav!End
<1>11. /\ nodes' \in Seq(DavNode) /\ Len(nodes') = len + 1 /\ nodes'[len + 1] = new
       /\ DOMAIN nodes = 1..len /\ DOMAIN nodes' = 1..(len + 1)
       /\ \A i \in 1..len : nodes'[i] = nodes[i]
  BY <1>1, <1>7, <1>9, <1>10, AppendProperties, LenProperties DEF DavTypes
<1>12. /\ pl = p \/ (p \in mixed /\ p \in Dav!Files /\ pl \in mixed /\ pl \in Dav!Files)
       /\ par # 0 => b \notin Folders /\ par \in 1..len /\ nodes[par].parent = 0 /\ nodes[par].name \in Folders
       /\ par \in 0..len
       /\ Len(p) = 1 => par = 0
       /\ req[c].op \in {"put", "mkcol"}
  <2>1. par \in 0..len
    BY <1>1, <1>3, <1>7, RequestOfClient DEF ParentKnown
  <2> QED
    BY <1>1, <1>2, <1>3, <1>4, <1>6, <1>11, <2>1, PlaceWanted
<1>13. \A i \in 1..(len + 1) : i \in 1..len \/ i = len + 1
  BY SMT
<1>14. \A x, y : x \in 0..len => PlacedAt(x, y)' = PlacedAt(x, y)
  <2> SUFFICES ASSUME NEW x \in 0..len, NEW y PROVE PlacedAt(x, y)' = PlacedAt(x, y)
    OBVIOUS
  <2>1. x = 0 \/ x \in 1..len
    BY SMT
  <2> QED
    BY <1>11, <2>1 DEF PlacedAt
<1>15. \A n \in 1..len : NodePath(n)' = NodePath(n) /\ nodes[n].parent \in 0..len
  <2> SUFFICES ASSUME NEW n \in 1..len PROVE NodePath(n)' = NodePath(n) /\ nodes[n].parent \in 0..len
    OBVIOUS
  <2>1. nodes[n].parent \in 0..(n - 1)
    BY <1>11 DEF DavInv, TreeRight
  <2>2. nodes[n].parent \in 0..len
    BY <2>1, SMT
  <2> QED
    BY <1>11, <1>14, <2>2 DEF NodePath
<1>16. NodePath(len + 1)' = pl
  BY <1>6, <1>9, <1>11, <1>12, <1>14 DEF NodePath
<1>17. \A x, y : /\ Dav!Children(x, y) \subseteq Dav!Children(x, y)'
                 /\ \A n \in Dav!Children(x, y)' :
                       n \in Dav!Children(x, y) \/ (n = len + 1 /\ x = par /\ y = b)
  <2> SUFFICES ASSUME NEW x, NEW y
               PROVE  /\ Dav!Children(x, y) \subseteq Dav!Children(x, y)'
                      /\ \A n \in Dav!Children(x, y)' :
                            n \in Dav!Children(x, y) \/ (n = len + 1 /\ x = par /\ y = b)
    OBVIOUS
  <2>1. ASSUME NEW n \in Dav!Children(x, y) PROVE n \in Dav!Children(x, y)'
    <3>1. n \in 1..len /\ nodes[n].parent = x /\ nodes[n].name = y
      BY <1>11, <2>1 DEF Dav!Children
    <3>2. n \in 1..(len + 1)
      BY <3>1, SMT
    <3> QED
      BY <1>11, <3>1, <3>2 DEF Dav!Children
  <2>2. ASSUME NEW n \in Dav!Children(x, y)' PROVE n \in Dav!Children(x, y) \/ (n = len + 1 /\ x = par /\ y = b)
    <3>1. n \in 1..(len + 1) /\ nodes'[n].parent = x /\ nodes'[n].name = y
      BY <1>11, <2>2 DEF Dav!Children
    <3>2. CASE n \in 1..len
      BY <1>11, <3>1, <3>2 DEF Dav!Children
    <3>3. CASE n = len + 1
      BY <1>9, <1>11, <3>1, <3>3
    <3> QED
      BY <1>13, <3>1, <3>2, <3>3
  <2> QED
    BY <2>1, <2>2
<1>18. len + 1 \in Dav!Children(par, b)'
  <2>1. len + 1 \in 1..(len + 1)
    BY SMT
  <2> QED
    BY <1>9, <1>11, <2>1 DEF Dav!Children
<1>19. Dav!Children(par, b) # {} => Dav!Below(pl) \subseteq mixed
  BY <1>1, <1>2, <1>3, <1>4, <1>6, RequestOfClient DEF ParentKnown, Dav!NodeExists
<1>20. req'[c] = Dav!Idle /\ \A d \in Clients \ {c} : req'[d] = req[d]
  BY <1>1, <1>10 DEF DavTypes
<1>21. DavTypes'
  BY <1>1, <1>10, <1>11, DavIdle DEF DavTypes
<1>22. TreeRight'
  <2> SUFFICES ASSUME NEW n \in 1..(len + 1)
               PROVE  /\ nodes'[n].parent \in 0..(n - 1)
                      /\ nodes'[n].parent # 0 => /\ nodes'[n].name \notin Folders
                                                 /\ nodes'[nodes'[n].parent].parent = 0
                                                 /\ nodes'[nodes'[n].parent].name \in Folders
                      /\ nodes'[n].file \in 0..Len(uploads)
                      /\ nodes'[n].file # 0 => uploads[nodes'[n].file] = NodePath(n)' \/ NodePath(n)' \in mixed
    BY <1>1, <1>11 DEF TreeRight
  <2>1. CASE n \in 1..len
    <3>1. nodes'[n] = nodes[n] /\ NodePath(n)' = NodePath(n) /\ nodes[n].parent \in 0..len
      BY <1>11, <1>15, <2>1
    <3>2. /\ nodes[n].parent \in 0..(n - 1)
          /\ nodes[n].parent # 0 => /\ nodes[n].name \notin Folders
                                    /\ nodes[nodes[n].parent].parent = 0
                                    /\ nodes[nodes[n].parent].name \in Folders
          /\ nodes[n].file \in 0..Len(uploads)
          /\ nodes[n].file # 0 => uploads[nodes[n].file] = NodePath(n) \/ NodePath(n) \in mixed
      BY <1>11, <2>1 DEF DavInv, TreeRight
    <3>3. nodes[n].parent # 0 => nodes[n].parent \in 1..len
      BY <3>1, SMT
    <3>4. nodes[n].parent # 0 => nodes'[nodes[n].parent] = nodes[nodes[n].parent]
      BY <1>11, <3>3
    <3> QED
      BY <3>1, <3>2, <3>4
  <2>2. CASE n = len + 1
    <3>1. nodes'[n] = new /\ NodePath(n)' = pl
      BY <1>11, <1>16, <2>2
    <3>2. par \in 0..(n - 1)
      BY <1>12, <2>2, SMT
    <3>3. par # 0 => nodes'[par] = nodes[par]
      BY <1>11, <1>12
    <3>4. UploadKnows(req[c])
      BY RequestOfClient
    <3>5. id \in 0..Len(uploads) /\ (id # 0 => uploads[id] = p)
      BY <1>1, <1>2, <1>5, <3>4 DEF UploadKnows
    <3> QED
      BY <1>9, <1>12, <3>1, <3>2, <3>3, <3>5
  <2> QED
    BY <1>13, <2>1, <2>2
<1>23. RequestsRight'
  <2> SUFFICES ASSUME NEW d \in Clients
               PROVE  MethodOf(req[d])' /\ UploadKnows(req[d])' /\ ParentKnown(req[d])' /\ MoveMarks(req[d])'
    BY DEF RequestsRight
  <2>1. CASE d = c
    <3>1. req'[d] = Dav!Idle
      BY <1>20, <2>1
    <3>2. MethodOf(Dav!Idle) /\ UploadKnows(Dav!Idle)' /\ ParentKnown(Dav!Idle)' /\ MoveMarks(Dav!Idle)'
      BY <1>1, <1>11, DavIdle DEF DavTypes
    <3>3. MethodOf(req[d])' /\ MoveMarks(req[d])'
      BY <3>1, <3>2 DEF MethodOf, MoveMarks
    <3>4. UploadKnows(req[d])'
      BY <3>1, <3>2 DEF UploadKnows
    <3>5. ParentKnown(req[d])'
      BY <3>1, <3>2 DEF ParentKnown
    <3> QED
      BY <3>3, <3>4, <3>5
  <2>2. CASE d # c
    <3>1. req'[d] = req[d]
      BY <1>20, <2>2
    <3>2. MethodOf(req[d]) /\ UploadKnows(req[d]) /\ ParentKnown(req[d]) /\ MoveMarks(req[d]) /\ req[d] \in DavRequest
      BY RequestOfClient
    <3>3. MethodOf(req[d])' /\ MoveMarks(req[d])'
      BY <1>1, <3>1, <3>2 DEF MethodOf, MoveMarks
    <3>4. UploadKnows(req[d])'
      <4>1. \A f : Dav!Children(0, f) # {} => Dav!Children(0, f)' # {}
        BY <1>17
      <4> QED
        BY <1>1, <3>1, <3>2, <4>1 DEF UploadKnows
    <3>5. ParentKnown(req[d])'
      <4>1. req[d].parent \in 0..len
        BY <1>7, <3>2 DEF ParentKnown
      <4>2. req[d].parent \in 0..Len(nodes')
        BY <1>11, <4>1, SMT
      <4>3. PICK x, y : x = req[d].parent /\ y = Dav!Base(req[d].path)
        OBVIOUS
      <4>4. ASSUME req[d].pc = "create"
            PROVE  /\ \/ Len(req[d].path) = 1 /\ x = 0
                      \/ Len(req[d].path) = 2 /\ x \in Dav!Children(0, req[d].path[1])
                      \/ Len(req[d].path) = 2 /\ x = 0 /\ {req[d].path, <<req[d].path[2]>>} \subseteq mixed
                   /\ Dav!Children(x, y) # {} => Dav!Below(PlacedAt(x, y)) \subseteq mixed
        BY <3>2, <4>3, <4>4 DEF ParentKnown, Dav!NodeExists
      <4>5. ASSUME req[d].pc = "create", Dav!Children(x, y)' # {}
            PROVE  Dav!Below(PlacedAt(x, y)) \subseteq mixed
        <5>1. CASE Dav!Children(x, y) # {}
          BY <4>4, <4>5, <5>1
        <5>2. CASE x = par /\ y = b
          BY <1>1, <1>2, <1>3, <1>4, <2>2, <4>3, <4>5, <5>2, PlaceShared
        <5> QED
          BY <1>17, <4>5, <5>1, <5>2
      <4>6. PlacedAt(x, y)' = PlacedAt(x, y)
        BY <1>14, <4>1, <4>3
      <4>7. \A f : Dav!Children(0, f) \subseteq Dav!Children(0, f)'
        BY <1>17
      <4>8. x = req'[d].parent /\ y = Dav!Base(req'[d].path)
        BY <3>1, <4>3
      <4>9. PICK f : f = req[d].path[1]
        OBVIOUS
      <4>10. ASSUME req'[d].pc = "create"
             PROVE  /\ \/ Len(req'[d].path) = 1 /\ x = 0
                       \/ Len(req'[d].path) = 2 /\ x \in Dav!Children(0, f)'
                       \/ Len(req'[d].path) = 2 /\ x = 0 /\ {req'[d].path, <<req'[d].path[2]>>} \subseteq mixed'
                    /\ Dav!Children(x, y)' # {} => Dav!Below(PlacedAt(x, y)') \subseteq mixed'
        <5>1. req[d].pc = "create"
          BY <3>1, <4>10
        <5>2. \/ Len(req'[d].path) = 1 /\ x = 0
              \/ Len(req'[d].path) = 2 /\ x \in Dav!Children(0, f)'
              \/ Len(req'[d].path) = 2 /\ x = 0 /\ {req'[d].path, <<req'[d].path[2]>>} \subseteq mixed'
          BY <1>1, <3>1, <4>4, <4>7, <4>9, <5>1
        <5>3. Dav!Children(x, y)' # {} => Dav!Below(PlacedAt(x, y)') \subseteq mixed'
          BY <1>1, <4>5, <4>6, <5>1
        <5> QED
          BY <5>2, <5>3
      <4>11. f = req'[d].path[1]
        BY <3>1, <4>9
      <4>12. x \in 0..Len(nodes')
        BY <4>2, <4>3
      <4> QED
        BY <4>8, <4>10, <4>11, <4>12 DEF ParentKnown, Dav!NodeExists
    <3> QED
      BY <3>3, <3>4, <3>5
  <2> QED
    BY <2>1, <2>2
<1>24. OverlapMarks'
  <2>1. \A d \in Clients : req'[d].pc # "idle" => req'[d] = req[d]
    BY <1>20, DavIdle
  <2> QED
    BY <1>1, <2>1 DEF DavInv, OverlapMarks
<1>25. OnceEach'
  <2>1. \A i, j \in DOMAIN uploads' : uploads'[i] = uploads'[j] /\ uploads'[i] \notin mixed' => i = j
    BY <1>1 DEF DavInv, OnceEach
  <2>2. ASSUME NEW m \in 1..(len + 1), NEW n \in 1..(len + 1), mixed = {},
               nodes'[m].parent = nodes'[n].parent, nodes'[m].name = nodes'[n].name
        PROVE  m = n
    <3>1. Dav!Children(par, b) = {}
      BY <1>19, <2>2, BelowItself
    <3>2. \A i \in 1..len : nodes[i].parent # par \/ nodes[i].name # b
      BY <1>11, <3>1 DEF Dav!Children
    <3>3. m \in 1..len /\ n \in 1..len => m = n
      BY <1>11, <2>2 DEF DavInv, OnceEach
    <3> QED
      BY <1>9, <1>11, <1>13, <2>2, <3>2, <3>3
  <2>3. ASSUME NEW f \in Folders, NEW m \in Dav!Children(0, f)', NEW n \in Dav!Children(0, f)'
        PROVE  m = n \/ Dav!Below(<<f>>) \subseteq mixed
    <3>1. CASE m \in Dav!Children(0, f) /\ n \in Dav!Children(0, f)
      BY <3>1 DEF DavInv, OnceEach
    <3>2. CASE 0 = par /\ f = b /\ Dav!Children(0, f) # {}
      <4>1. pl = <<f>>
        BY <1>6, <3>2 DEF PlacedAt
      <4> QED
        BY <1>19, <3>2, <4>1
    <3> QED
      BY <1>17, <2>3, <3>1, <3>2
  <2>4. ASSUME NEW f \in Folders, disk[<<f>>] = "dir"
        PROVE  \/ Dav!Children(0, f)' # {}
               \/ \E d \in Clients : /\ req'[d].pc \in {"node", "create"}
                                     /\ req'[d].op = "mkcol" /\ req'[d].path = <<f>>
    <3>1. CASE Dav!Children(0, f) # {}
      BY <1>17, <3>1
    <3>2. ASSUME NEW d \in Clients, req[d].pc \in {"node", "create"}, req[d].op = "mkcol", req[d].path = <<f>>
          PROVE  \/ Dav!Children(0, f)' # {}
                 \/ \E e \in Clients : /\ req'[e].pc \in {"node", "create"}
                                       /\ req'[e].op = "mkcol" /\ req'[e].path = <<f>>
      <4>1. CASE d = c
        <5>1. Len(p) = 1 /\ b = f
          <6>1. p = <<f>>
            BY <1>2, <3>2, <4>1
          <6>2. Len(p) = 1 /\ p[1] = f
            BY <6>1
          <6> QED
            BY <1>4, <6>2 DEF Dav!Base
        <5>2. par = 0
          BY <1>12, <5>1
        <5> QED
          BY <1>18, <5>1, <5>2
      <4>2. CASE d # c
        BY <1>20, <3>2, <4>2
      <4> QED
        BY <4>1, <4>2
    <3> QED
      BY <2>4, <3>1, <3>2 DEF DavInv, OnceEach
  <2> QED
    BY <1>1, <1>11, <2>1, <2>2, <2>3, <2>4 DEF OnceEach
<1>26. WholeShown'
  <2> SUFFICES ASSUME NEW q \in Dav!Files \ mixed, disk[q] = "whole"
               PROVE  \/ \E n \in 1..(len + 1) : NodePath(n)' = q
                      \/ \E d \in Clients : /\ req'[d].pc \in {"close", "insert", "node", "create"}
                                            /\ req'[d].op = "put" /\ req'[d].path = q
    BY <1>1, <1>11 DEF WholeShown
  <2>0. \A i \in 1..len : i \in 1..(len + 1)
    BY SMT
  <2>1. CASE \E n \in 1..len : NodePath(n) = q
    BY <1>15, <2>0, <2>1
  <2>2. ASSUME NEW d \in Clients, req[d].pc \in {"close", "insert", "node", "create"}, req[d].op = "put", req[d].path = q
        PROVE  \/ \E n \in 1..(len + 1) : NodePath(n)' = q
               \/ \E e \in Clients : /\ req'[e].pc \in {"close", "insert", "node", "create"}
                                     /\ req'[e].op = "put" /\ req'[e].path = q
    <3>1. CASE d = c
      <4>1. pl = q
        BY <1>2, <1>12, <2>2, <3>1
      <4>2. len + 1 \in 1..(len + 1)
        BY SMT
      <4> QED
        BY <1>16, <4>1, <4>2
    <3>2. CASE d # c
      BY <1>20, <2>2, <3>2
    <3> QED
      BY <3>1, <3>2
  <2> QED
    BY <1>11, <2>1, <2>2 DEF DavInv, WholeShown
<1> QED
  BY <1>21, <1>22, <1>23, <1>24, <1>25, <1>26 DEF DavInv

\* The node that a request renames is at its path, and no other node is below it.
LEMMA NodeRenamed ==
    ASSUME DavInv, NEW a \in Dav!Files, NEW n \in Dav!ResolveNode(a), n # 0
    PROVE  /\ n \in DOMAIN nodes /\ nodes[n] \in DavNode /\ NodePath(n) = a
           /\ nodes[n].name \notin Folders
           /\ Len(a) = 1 => nodes[n].parent = 0
           /\ Len(a) # 1 => /\ nodes[n].parent \in Dav!Children(0, a[1])
                            /\ nodes[n].parent # 0 /\ nodes[nodes[n].parent].name = a[1]
<1>0. a \in Dav!Paths /\ DavTypes
  BY DEF Dav!Paths, DavInv
<1>1. CASE Len(a) = 1
  <2>1. n \in Dav!Children(0, a[1])
    BY <1>1 DEF Dav!ResolveNode, Dav!AnyChild
  <2>2. n \in DOMAIN nodes /\ nodes[n] \in DavNode /\ nodes[n].parent = 0 /\ nodes[n].name = a[1]
    BY <1>0, <2>1, ChildIsNode
  <2>3. NodePath(n) = a
    BY <1>0, <1>1, <2>1, <2>2, FoundAtPath
  <2>4. a[1] \in Names \ Folders
    BY <1>0, <1>1, PathParts
  <2> QED
    BY <1>1, <2>2, <2>3, <2>4
<1>2. CASE Len(a) # 1
  <2>1. PICK m \in Dav!AnyChild(0, a[1]) : n \in (IF m = 0 THEN {0} ELSE Dav!AnyChild(m, a[2]))
    BY <1>2 DEF Dav!ResolveNode
  <2>2. m # 0 /\ n \in Dav!Children(m, a[2])
    BY <2>1 DEF Dav!AnyChild
  <2>3. m \in Dav!Children(0, a[1])
    BY <2>1, <2>2 DEF Dav!AnyChild
  <2>4. n \in DOMAIN nodes /\ nodes[n] \in DavNode /\ nodes[n].parent = m /\ nodes[n].name = a[2]
    BY <1>0, <2>2, ChildIsNode
  <2>5. nodes[m].name = a[1]
    BY <1>0, <2>3, ChildIsNode
  <2>6. NodePath(n) = a
    BY <1>0, <1>2, <2>2, <2>3, <2>4, FoundAtPath
  <2>7. a[2] \notin Folders
    BY <1>0, <1>2, DirOfPath
  <2> QED
    BY <1>2, <2>2, <2>3, <2>4, <2>5, <2>6, <2>7
<1> QED
  BY <1>1, <1>2

LEMMA DavRenameNode == ASSUME DavInv, NEW c \in Clients, Dav!RenameNode(c) PROVE DavInv'
<1>1. req[c].pc = "rename" /\ disk' = disk /\ uploads' = uploads /\ mixed' = mixed /\ Dav!End(c)
      /\ DavTypes
  BY DEF Dav!RenameNode, DavInv
<1>2. PICK a \in Dav!Files, t \in Dav!Files : a = req[c].path /\ t = req[c].to
  BY <1>1, RequestOfClient DEF MethodOf
<1>3. Dav!Tainted({a, t, Append(Dav!Dir(a), Dav!Base(t))}) \subseteq mixed
  BY <1>1, <1>2, RequestOfClient DEF MoveMarks
<1>4. a \in mixed /\ Append(Dav!Dir(a), Dav!Base(t)) \in mixed
  BY <1>3 DEF Dav!Tainted
<1>5. PICK n \in Dav!ResolveNode(a) : nodes' = IF n = 0 THEN nodes ELSE [nodes EXCEPT ![n].name = Dav!Base(t)]
  BY <1>2 DEF Dav!RenameNode
<1>6. CASE n = 0
  <2>1. UNCHANGED <<disk, uploads, nodes, mixed>>
    BY <1>1, <1>5, <1>6
  <2> QED
    BY <1>1, <2>1, DavEnds
<1>7. ASSUME n # 0 PROVE DavInv'
  <2>1. /\ n \in DOMAIN nodes /\ nodes[n] \in DavNode /\ NodePath(n) = a
        /\ nodes[n].name \notin Folders
        /\ Len(a) = 1 => nodes[n].parent = 0
        /\ Len(a) # 1 => /\ nodes[n].parent \in Dav!Children(0, a[1])
                         /\ nodes[n].parent # 0 /\ nodes[nodes[n].parent].name = a[1]
    BY <1>7, NodeRenamed
  <2>2. PICK b \in Names \ Folders : b = Dav!Base(t)
    BY DirAndBase
  <2>3. PICK x : x = nodes[n].parent
    OBVIOUS
  <2>4. nodes' = [nodes EXCEPT ![n].name = b] /\ nodes \in Seq(DavNode)
    BY <1>1, <1>5, <1>7, <2>2 DEF DavTypes
  <2>5. PICK len \in Nat : len = Len(nodes)
    BY <2>4, LenProperties
  <2>6. DOMAIN nodes = 1..len /\ nodes \in [1..len -> DavNode]
    BY <2>4, <2>5, LenProperties, SeqDef
  <2>7. /\ nodes' \in [1..len -> DavNode]
        /\ nodes'[n].parent = x /\ nodes'[n].name = b /\ nodes'[n].file = nodes[n].file
        /\ \A m \in 1..len \ {n} : nodes'[m] = nodes[m]
        /\ \A m \in 1..len : nodes'[m].parent = nodes[m].parent /\ nodes'[m].file = nodes[m].file
    <3>1. PICK new : new = [nodes[n] EXCEPT !.name = b]
      OBVIOUS
    <3>2. new \in DavNode /\ new.parent = x /\ new.name = b /\ new.file = nodes[n].file
      BY <2>1, <2>2, <2>3, <3>1 DEF DavNode
    <3>3. nodes' = [nodes EXCEPT ![n] = new]
      BY <2>1, <2>4, <2>6, <3>1
    <3> QED
      BY <2>1, <2>3, <2>6, <3>2, <3>3
  <2>8. nodes' \in Seq(DavNode) /\ Len(nodes') = len /\ DOMAIN nodes' = 1..len
    <3>1. nodes' \in Seq(DavNode) /\ DOMAIN nodes' = 1..len
      BY <2>5, <2>7, SeqDef
    <3> QED
      BY <2>5, <3>1, LenProperties, SMT
  <2>9. \A m \in 1..len : /\ nodes[m].parent \in 0..(m - 1)
                          /\ nodes[m].parent # 0 => /\ nodes[m].name \notin Folders
                                                    /\ nodes[nodes[m].parent].parent = 0
                                                    /\ nodes[nodes[m].parent].name \in Folders
                          /\ nodes[m].file \in 0..Len(uploads)
                          /\ nodes[m].file # 0 => uploads[nodes[m].file] = NodePath(m) \/ NodePath(m) \in mixed
    BY <2>6 DEF DavInv, TreeRight
  <2>10. \A m \in 1..len : nodes[m].parent # 0 =>
             nodes[m].parent # n /\ nodes'[nodes[m].parent] = nodes[nodes[m].parent]
    <3> SUFFICES ASSUME NEW m \in 1..len, nodes[m].parent # 0
                 PROVE  nodes[m].parent # n /\ nodes'[nodes[m].parent] = nodes[nodes[m].parent]
      OBVIOUS
    <3>1. nodes[m].parent # n
      BY <2>1, <2>9
    <3>2. nodes[m].parent \in 1..len
      BY <2>9, SMT
    <3> QED
      BY <2>7, <3>1, <3>2
  <2>11. \A m \in 1..len \ {n} : NodePath(m)' = NodePath(m)
    BY <2>7, <2>10 DEF NodePath, PlacedAt
  <2>12. PICK pl : pl = Append(Dav!Dir(a), Dav!Base(t))
    OBVIOUS
  <2>13. PlacedAt(x, b) = pl /\ pl \in mixed /\ pl \in Dav!Files /\ NodePath(n)' = pl
    <3>1. pl \in mixed /\ pl \in Dav!Files
      BY <1>4, <2>12, DirAndBase
    <3>2. PlacedAt(x, b) = pl
      <4>1. CASE Len(a) = 1
        BY <2>1, <2>2, <2>3, <2>12, <4>1, DirAndBase DEF PlacedAt
      <4>2. CASE Len(a) # 1
        BY <2>1, <2>2, <2>3, <2>12, <4>2, DirAndBase DEF PlacedAt
      <4> QED
        BY <4>1, <4>2
    <3>3. PlacedAt(x, b)' = PlacedAt(x, b)
      <4>1. x # 0 => nodes'[x] = nodes[x]
        BY <2>1, <2>3, <2>6, <2>10
      <4> QED
        BY <4>1 DEF PlacedAt
    <3>4. NodePath(n)' = PlacedAt(x, b)'
      BY <2>7 DEF NodePath
    <3> QED
      BY <3>1, <3>2, <3>3, <3>4
  <2>14. \A f \in Folders : Dav!Children(0, f)' = Dav!Children(0, f)
    <3> SUFFICES ASSUME NEW f \in Folders, NEW m \in 1..len
                 PROVE  nodes'[m].parent = 0 /\ nodes'[m].name = f <=> nodes[m].parent = 0 /\ nodes[m].name = f
      BY <2>6, <2>8 DEF Dav!Children
    <3>1. CASE m = n
      BY <2>1, <2>2, <2>7, <3>1
    <3>2. CASE m # n
      BY <2>7, <3>2
    <3> QED
      BY <3>1, <3>2
  <2>15. \A u, v : Dav!Children(u, v)' # {} => Dav!Children(u, v) # {} \/ (u = x /\ v = b)
    <3> SUFFICES ASSUME NEW u, NEW v, NEW m \in Dav!Children(u, v)'
                 PROVE  Dav!Children(u, v) # {} \/ (u = x /\ v = b)
      OBVIOUS
    <3>1. m \in 1..len /\ nodes'[m].parent = u /\ nodes'[m].name = v
      BY <2>8 DEF Dav!Children
    <3>2. CASE m = n
      BY <2>7, <3>1, <3>2
    <3>3. CASE m # n
      <4>1. m \in Dav!Children(u, v)
        BY <2>6, <2>7, <3>1, <3>3 DEF Dav!Children
      <4> QED
        BY <4>1
    <3> QED
      BY <3>2, <3>3
  <2>16. req' = [req EXCEPT ![c] = Dav!Idle] /\ req \in [Clients -> DavRequest]
    BY <1>1 DEF Dav!End, DavTypes
  <2>17. req'[c] = Dav!Idle /\ \A d \in Clients \ {c} : req'[d] = req[d]
    BY <2>16
  <2>18. DavTypes'
    BY <1>1, <2>8, <2>16, DavIdle DEF DavTypes
  <2>19. TreeRight'
    <3> SUFFICES ASSUME NEW m \in 1..len
                 PROVE  /\ nodes'[m].parent \in 0..(m - 1)
                        /\ nodes'[m].parent # 0 => /\ nodes'[m].name \notin Folders
                                                   /\ nodes'[nodes'[m].parent].parent = 0
                                                   /\ nodes'[nodes'[m].parent].name \in Folders
                        /\ nodes'[m].file \in 0..Len(uploads)
                        /\ nodes'[m].file # 0 => uploads[nodes'[m].file] = NodePath(m)' \/ NodePath(m)' \in mixed
      BY <1>1, <2>8 DEF TreeRight
    <3>1. PICK y, f : y = nodes[m].parent /\ f = nodes[m].file
      OBVIOUS
    <3>2. nodes'[m].parent = y /\ nodes'[m].file = f /\ (y # 0 => nodes'[y] = nodes[y])
      BY <2>7, <2>10, <3>1
    <3>3. /\ y \in 0..(m - 1)
          /\ y # 0 => nodes[m].name \notin Folders /\ nodes[y].parent = 0 /\ nodes[y].name \in Folders
          /\ f \in 0..Len(uploads)
          /\ f # 0 => uploads[f] = NodePath(m) \/ NodePath(m) \in mixed
      BY <2>9, <3>1
    <3>4. y # 0 => nodes'[m].name \notin Folders
      BY <2>2, <2>7, <3>3
    <3>5. f # 0 => uploads[f] = NodePath(m)' \/ NodePath(m)' \in mixed
      BY <2>11, <2>13, <3>3
    <3> QED
      BY <3>2, <3>3, <3>4, <3>5
  <2>20. RequestsRight'
    <3> SUFFICES ASSUME NEW d \in Clients
                 PROVE  MethodOf(req[d])' /\ UploadKnows(req[d])' /\ ParentKnown(req[d])' /\ MoveMarks(req[d])'
      BY DEF RequestsRight
    <3>1. CASE d = c
      <4>1. req'[d] = Dav!Idle
        BY <2>17, <3>1
      <4>2. MethodOf(Dav!Idle) /\ UploadKnows(Dav!Idle)' /\ ParentKnown(Dav!Idle)' /\ MoveMarks(Dav!Idle)'
        BY <1>1, <2>8, DavIdle DEF DavTypes
      <4>3. MethodOf(req[d])' /\ MoveMarks(req[d])'
        BY <4>1, <4>2 DEF MethodOf, MoveMarks
      <4>4. UploadKnows(req[d])'
        BY <4>1, <4>2 DEF UploadKnows
      <4>5. ParentKnown(req[d])'
        BY <4>1, <4>2 DEF ParentKnown
      <4> QED
        BY <4>3, <4>4, <4>5
    <3>2. CASE d # c
      <4>1. req'[d] = req[d]
        BY <2>17, <3>2
      <4>2. MethodOf(req[d]) /\ UploadKnows(req[d]) /\ ParentKnown(req[d]) /\ MoveMarks(req[d]) /\ req[d] \in DavRequest
        BY RequestOfClient
      <4>3. MethodOf(req[d])' /\ MoveMarks(req[d])'
        BY <1>1, <4>1, <4>2 DEF MethodOf, MoveMarks
      <4>4. UploadKnows(req[d])'
        <5>1. req[d].pc # "idle" /\ req[d].op = "put" /\ Len(req[d].path) = 2 => req[d].path[1] \in Folders
          <6> SUFFICES ASSUME req[d].path \in Dav!Paths, Len(req[d].path) = 2 PROVE req[d].path[1] \in Folders
            BY <4>2 DEF MethodOf
          <6>1. Len(req[d].path) # 1
            OBVIOUS
          <6> QED
            BY <6>1, DirOfPath
        <5>2. req[d].pc # "idle" /\ req[d].op = "put" /\ Len(req[d].path) = 2 =>
                  Dav!Children(0, req[d].path[1])' # {} \/ {req[d].path, <<req[d].path[2]>>} \subseteq mixed'
          BY <1>1, <2>14, <4>1, <4>2, <5>1 DEF UploadKnows
        <5> QED
          BY <1>1, <4>1, <4>2, <5>2 DEF UploadKnows
      <4>5. ParentKnown(req[d])'
        <5>1. PICK u, v : u = req[d].parent /\ v = Dav!Base(req[d].path)
          OBVIOUS
        <5>2. u \in 0..Len(nodes')
          BY <2>5, <2>8, <4>2, <5>1 DEF ParentKnown
        <5>3. u = req'[d].parent /\ v = Dav!Base(req'[d].path)
          BY <4>1, <5>1
        <5>4. ASSUME req[d].pc = "create"
              PROVE  /\ \/ Len(req[d].path) = 1 /\ u = 0
                        \/ Len(req[d].path) = 2 /\ u \in Dav!Children(0, req[d].path[1])
                        \/ Len(req[d].path) = 2 /\ u = 0 /\ {req[d].path, <<req[d].path[2]>>} \subseteq mixed
                     /\ Dav!Children(u, v) # {} => Dav!Below(PlacedAt(u, v)) \subseteq mixed
          BY <4>2, <5>1, <5>4 DEF ParentKnown, Dav!NodeExists
        <5>5. req[d].pc = "create" => PlacedAt(u, v)' = PlacedAt(u, v)
          <6> SUFFICES ASSUME req[d].pc = "create", u # 0 PROVE nodes'[u] = nodes[u]
            BY DEF PlacedAt
          <6>1. u \in DOMAIN nodes /\ nodes[u].name \in Folders
            BY <5>1, PlaceWanted
          <6> QED
            BY <2>1, <2>6, <2>7, <6>1
        <5>6. ASSUME req[d].pc = "create", Dav!Children(u, v)' # {}
              PROVE  Dav!Below(PlacedAt(u, v)) \subseteq mixed
          <6>1. CASE Dav!Children(u, v) # {}
            BY <5>4, <5>6, <6>1
          <6>2. CASE u = x /\ v = b
            BY <2>13, <6>2, BelowFile
          <6> QED
            BY <2>15, <5>6, <6>1, <6>2
        <5>7. PICK f : f = req[d].path[1]
          OBVIOUS
        <5>8. req[d].pc = "create" /\ Len(req[d].path) = 2 => Dav!Children(0, f)' = Dav!Children(0, f)
          <6> SUFFICES ASSUME req[d].pc = "create", Len(req[d].path) = 2 PROVE f \in Folders
            BY <2>14
          <6>1. Len(req[d].path) # 1 /\ req[d].path \in Dav!Paths
            BY PlaceWanted
          <6> QED
            BY <5>7, <6>1, DirOfPath
        <5>9. f = req'[d].path[1]
          BY <4>1, <5>7
        <5>10. ASSUME req'[d].pc = "create"
               PROVE  /\ \/ Len(req'[d].path) = 1 /\ u = 0
                         \/ Len(req'[d].path) = 2 /\ u \in Dav!Children(0, f)'
                         \/ Len(req'[d].path) = 2 /\ u = 0 /\ {req'[d].path, <<req'[d].path[2]>>} \subseteq mixed'
                      /\ Dav!Children(u, v)' # {} => Dav!Below(PlacedAt(u, v)') \subseteq mixed'
          <6>1. req[d].pc = "create"
            BY <4>1, <5>10
          <6>2. \/ Len(req'[d].path) = 1 /\ u = 0
                \/ Len(req'[d].path) = 2 /\ u \in Dav!Children(0, f)'
                \/ Len(req'[d].path) = 2 /\ u = 0 /\ {req'[d].path, <<req'[d].path[2]>>} \subseteq mixed'
            BY <1>1, <4>1, <5>4, <5>7, <5>8, <6>1
          <6>3. Dav!Children(u, v)' # {} => Dav!Below(PlacedAt(u, v)') \subseteq mixed'
            BY <1>1, <5>5, <5>6, <6>1
          <6> QED
            BY <6>2, <6>3
        <5> QED
          BY <5>2, <5>3, <5>9, <5>10 DEF ParentKnown, Dav!NodeExists
      <4> QED
        BY <4>3, <4>4, <4>5
    <3> QED
      BY <3>1, <3>2
  <2>21. OverlapMarks'
    <3>1. \A d \in Clients : req'[d].pc # "idle" => req'[d] = req[d]
      BY <2>17, DavIdle
    <3> QED
      BY <1>1, <3>1 DEF DavInv, OverlapMarks
  <2>22. OnceEach'
    <3>1. \A i, j \in DOMAIN uploads' : uploads'[i] = uploads'[j] /\ uploads'[i] \notin mixed' => i = j
      BY <1>1 DEF DavInv, OnceEach
    <3>2. mixed' # {}
      BY <1>1, <1>4
    <3>3. \A f \in Folders : \A m, l \in Dav!Children(0, f)' : m = l \/ Dav!Below(<<f>>) \subseteq mixed'
      BY <1>1, <2>14 DEF DavInv, OnceEach
    <3>4. ASSUME NEW f \in Folders, disk'[<<f>>] = "dir"
          PROVE  \/ Dav!Children(0, f)' # {}
                 \/ \E d \in Clients : /\ req'[d].pc \in {"node", "create"}
                                       /\ req'[d].op = "mkcol" /\ req'[d].path = <<f>>
      <4>1. \/ Dav!Children(0, f) # {}
            \/ \E d \in Clients : /\ req[d].pc \in {"node", "create"}
                                  /\ req[d].op = "mkcol" /\ req[d].path = <<f>>
        BY <1>1, <3>4 DEF DavInv, OnceEach
      <4> QED
        BY <1>1, <2>14, <2>17, <4>1
    <3> QED
      BY <3>1, <3>2, <3>3, <3>4 DEF OnceEach
  <2>23. WholeShown'
    <3> SUFFICES ASSUME NEW q \in Dav!Files \ mixed, disk[q] = "whole"
                 PROVE  \/ \E m \in 1..len : NodePath(m)' = q
                        \/ \E d \in Clients : /\ req'[d].pc \in {"close", "insert", "node", "create"}
                                              /\ req'[d].op = "put" /\ req'[d].path = q
      BY <1>1, <2>8 DEF WholeShown
    <3>1. \/ \E m \in 1..len : NodePath(m) = q
          \/ \E d \in Clients : /\ req[d].pc \in {"close", "insert", "node", "create"}
                                /\ req[d].op = "put" /\ req[d].path = q
      BY <2>6 DEF DavInv, WholeShown
    <3>2. CASE \E m \in 1..len : NodePath(m) = q
      <4>1. PICK m \in 1..len : NodePath(m) = q
        BY <3>2
      <4>2. m # n
        BY <1>4, <2>1, <4>1
      <4> QED
        BY <2>11, <4>1, <4>2
    <3>3. CASE \E d \in Clients : /\ req[d].pc \in {"close", "insert", "node", "create"}
                                  /\ req[d].op = "put" /\ req[d].path = q
      BY <1>1, <2>17, <3>3
    <3> QED
      BY <3>1, <3>2, <3>3
  <2> QED
    BY <2>18, <2>19, <2>20, <2>21, <2>22, <2>23 DEF DavInv
<1> QED
  BY <1>6, <1>7

LEMMA DavInit == Dav!Init => DavInv
<1> SUFFICES ASSUME Dav!Init PROVE DavInv
  OBVIOUS
<1>1. /\ disk = [p \in Dav!Paths |-> "none"] /\ uploads = <<>> /\ nodes = <<>>
      /\ req = [c \in Clients |-> Dav!Idle] /\ mixed = {}
  BY DEF Dav!Init
<1>2. Len(uploads) = 0 /\ DOMAIN uploads = {} /\ Len(nodes) = 0 /\ DOMAIN nodes = {}
      /\ uploads \in Seq(Dav!Paths) /\ nodes \in Seq(DavNode)
  BY <1>1, EmptySeq, SMT
<1>3. \A c \in Clients : req[c] = Dav!Idle
  BY <1>1
<1>4. Dav!Idle.pc = "idle" /\ Dav!Idle.id = 0 /\ Dav!Idle.parent = 0
  BY DEF Dav!Idle
<1>5. DavTypes
  BY <1>1, <1>2, DavIdle DEF DavTypes
<1>6. TreeRight
  BY <1>2 DEF TreeRight
<1>7. RequestsRight
  <2> SUFFICES ASSUME NEW c \in Clients
               PROVE  MethodOf(req[c]) /\ UploadKnows(req[c]) /\ ParentKnown(req[c]) /\ MoveMarks(req[c])
    BY DEF RequestsRight
  <2>1. req[c].pc = "idle" /\ req[c].id = 0 /\ req[c].parent = 0
    BY <1>3, <1>4
  <2>2. 0 \in 0..Len(uploads) /\ 0 \in 0..Len(nodes)
    BY <1>2
  <2>3. UploadKnows(req[c])
    BY <2>1, <2>2 DEF UploadKnows
  <2>4. ParentKnown(req[c])
    BY <2>1, <2>2 DEF ParentKnown
  <2> QED
    BY <2>1, <2>3, <2>4 DEF MethodOf, MoveMarks
<1>8. OverlapMarks
  BY <1>3, <1>4 DEF OverlapMarks
<1>9. \A p \in Dav!Paths : disk[p] = "none"
  BY <1>1
<1>10. OnceEach
  <2>1. \A f \in Folders : disk[<<f>>] = "none" /\ Dav!Children(0, f) = {}
    BY <1>2, <1>9 DEF Dav!Children, Dav!Dirs, Dav!Paths
  <2> QED
    BY <1>2, <2>1 DEF OnceEach
<1>11. WholeShown
  BY <1>9 DEF WholeShown, Dav!Paths
<1> QED
  BY <1>5, <1>6, <1>7, <1>8, <1>10, <1>11 DEF DavInv

LEMMA DavRests == ASSUME DavInv, UNCHANGED dav PROVE DavInv'
<1>1. disk' = disk /\ uploads' = uploads /\ nodes' = nodes /\ req' = req /\ mixed' = mixed
  BY DEF dav
<1>2. DavTypes'
  BY <1>1 DEF DavInv, DavTypes
<1>3. TreeRight'
  BY <1>1 DEF DavInv, TreeRight, NodePath, PlacedAt
<1>4. RequestsRight'
  <2> SUFFICES ASSUME NEW c \in Clients
               PROVE  MethodOf(req[c])' /\ UploadKnows(req[c])' /\ ParentKnown(req[c])' /\ MoveMarks(req[c])'
    BY DEF RequestsRight
  <2>1. MethodOf(req[c]) /\ UploadKnows(req[c]) /\ ParentKnown(req[c]) /\ MoveMarks(req[c])
    BY RequestOfClient
  <2>2. MethodOf(req[c])' /\ MoveMarks(req[c])'
    BY <1>1, <2>1 DEF MethodOf, MoveMarks
  <2>3. UploadKnows(req[c])'
    BY <1>1, <2>1 DEF UploadKnows, Dav!Children
  <2>4. ParentKnown(req[c])'
    BY <1>1, <2>1 DEF ParentKnown, Dav!Children, Dav!NodeExists, PlacedAt
  <2> QED
    BY <2>2, <2>3, <2>4
<1>5. OverlapMarks'
  BY <1>1 DEF DavInv, OverlapMarks
<1>6. OnceEach'
  BY <1>1 DEF DavInv, OnceEach, Dav!Children
<1>7. WholeShown'
  BY <1>1 DEF DavInv, WholeShown, NodePath, PlacedAt
<1> QED
  BY <1>2, <1>3, <1>4, <1>5, <1>6, <1>7 DEF DavInv

LEMMA DavStep == ASSUME DavInv, [Dav!Next]_dav PROVE DavInv'
  BY DavOpenWrite, DavMkdir, DavRemoveAll, DavRename, DavCopyBody, DavBodyLost, DavCloseUpload,
     DavRegisterFile, DavFindParent, DavCreateNode, DavSoftDelete, DavRenameNode, DavLegacyWrite, DavRests
     DEF Dav!Next

\* With no request under way, every node that a path resolves to shows the whole file there.
LEMMA DavVisible ==
    ASSUME DavInv, Dav!Quiet, NEW p \in Dav!Files, p \notin mixed, disk[p] = "whole"
    PROVE  Dav!Stat(p) /\ Dav!Opens(p)
<1>0. p \in Dav!Paths /\ DavTypes
  BY DEF Dav!Paths, DavInv
<1>1. PICK n \in DOMAIN nodes : NodePath(n) = p
  <2>1. \A c \in Clients : req[c].pc = "idle"
    BY DEF Dav!Quiet
  <2>2. ~ \E c \in Clients : /\ req[c].pc \in {"close", "insert", "node", "create"}
                             /\ req[c].op = "put" /\ req[c].path = p
    BY <2>1
  <2> QED
    BY <2>2 DEF DavInv, WholeShown
<1>2. PICK x : x = nodes[n].parent
  OBVIOUS
<1>3. IF x = 0 THEN p = <<nodes[n].name>> ELSE p = <<nodes[x].name, nodes[n].name>>
  BY <1>1, <1>2 DEF NodePath, PlacedAt
<1>4. \A m \in DOMAIN nodes : NodePath(m) = p => (nodes[m].file # 0 => disk[uploads[nodes[m].file]] # "none")
  BY DEF DavInv, TreeRight
<1>5. CASE Len(p) = 1
  <2>1. x = 0 /\ p[1] = nodes[n].name
    <3>1. x # 0 => Len(p) = 2
      BY <1>3
    <3>2. x = 0
      BY <1>5, <3>1
    <3> QED
      BY <1>3, <3>2
  <2>2. n \in Dav!Children(0, p[1])
    BY <1>1, <1>2, <2>1 DEF Dav!Children
  <2>3. Dav!ResolveNode(p) = Dav!Children(0, p[1])
    BY <1>5, <2>2 DEF Dav!ResolveNode, Dav!AnyChild
  <2>4. \A m \in Dav!Children(0, p[1]) : m \in DOMAIN nodes /\ m # 0 /\ NodePath(m) = p
    BY <1>0, <1>5, ChildIsNode, FoundAtPath
  <2> QED
    BY <1>4, <2>2, <2>3, <2>4 DEF Dav!Stat, Dav!Opens
<1>6. CASE Len(p) # 1
  <2>1. p = <<p[1], p[2]>> /\ p[1] \in Folders
    BY <1>0, <1>6, DirOfPath
  <2>2. x # 0 /\ nodes[x].name = p[1] /\ nodes[n].name = p[2]
    <3>1. x = 0 => Len(p) = 1
      BY <1>3
    <3>2. x # 0
      BY <1>6, <3>1
    <3> QED
      BY <1>3, <3>2
  <2>3. x \in Dav!Children(0, p[1])
    <3>1. nodes[x].parent = 0 /\ x \in 0..(n - 1)
      BY <1>1, <1>2, <2>2 DEF DavInv, TreeRight
    <3>2. n \in 1..Len(nodes) /\ DOMAIN nodes = 1..Len(nodes) /\ Len(nodes) \in Nat
      BY <1>0, <1>1, LenProperties DEF DavTypes
    <3>3. x \in 1..Len(nodes)
      BY <2>2, <3>1, <3>2, SMT
    <3> QED
      BY <2>2, <3>1, <3>2, <3>3 DEF Dav!Children
  <2>4. p \in Dav!Below(<<p[1]>>)
    BY <1>0, <2>1, BelowDir
  <2>5. \A m \in Dav!Children(0, p[1]) : m = x
    BY <2>1, <2>3, <2>4 DEF DavInv, OnceEach
  <2>6. Dav!AnyChild(0, p[1]) = {x}
    BY <2>3, <2>5 DEF Dav!AnyChild
  <2>7. n \in Dav!Children(x, p[2])
    BY <1>1, <1>2, <2>2 DEF Dav!Children
  <2>8. Dav!ResolveNode(p) = Dav!Children(x, p[2])
    BY <1>6, <2>2, <2>6, <2>7 DEF Dav!ResolveNode, Dav!AnyChild
  <2>9. ASSUME NEW m \in Dav!Children(x, p[2]) PROVE m \in DOMAIN nodes /\ m # 0 /\ NodePath(m) = p
    <3>1. m \in DOMAIN nodes /\ m # 0
      BY <1>0, <2>9, ChildIsNode
    <3> QED
      BY <1>0, <1>6, <2>2, <2>3, <2>9, <3>1, FoundAtPath
  <2> QED
    BY <1>4, <2>7, <2>8, <2>9 DEF Dav!Stat, Dav!Opens
<1> QED
  BY <1>5, <1>6

\* WebDAVFiles: with no request under way, a whole file that no other request for it or its
\* folder overlapped is found by its path and opens, however uploads, folders, deletions and
\* moves interleaved statement by statement; uploads that did not overlap leave one row for a
\* path, and one node for a name in a folder.  For any names, folders, clients and bounds.
THEOREM UploadsHoldAlways == MCSpec => []UploadsHold
<1>1. MCInit => DavInv
  BY DavInit DEF MCInit
<1>2. DavInv /\ [ShareNext \/ DavNext \/ AptNext \/ PipNext \/ RuleNext \/ LoopNext]_<<focus, share, dav, apt, pip, rule, loops>>
        => DavInv'
  BY StepsOfEach, DavStep
<1>3. DavInv => UploadsHold
  <2> SUFFICES ASSUME DavInv PROVE Dav!TypeOK /\ Dav!UploadVisible /\ Dav!NoDuplicates
    BY DEF UploadsHold
  <2>1. Dav!TypeOK
    <3>1. \A n \in DOMAIN nodes : nodes[n] \in DavNode
      BY ElementOfSeq, LenProperties DEF DavInv, DavTypes
    <3>2. \A n \in DOMAIN nodes : /\ nodes[n].parent \in 0..(n - 1)
                                  /\ nodes[n].name \in Names
                                  /\ nodes[n].file \in 0..Len(uploads)
      BY <3>1 DEF DavInv, TreeRight, DavNode
    <3>3. \A c \in Clients : req[c].pc \in Dav!Pcs /\ req[c].id \in 0..Len(uploads) /\ req[c].parent \in 0..Len(nodes)
      BY RequestOfClient DEF DavRequest, UploadKnows, ParentKnown
    <3> QED
      BY <3>2, <3>3 DEF DavInv, DavTypes, Dav!TypeOK
  <2>2. Dav!UploadVisible
    BY DavVisible DEF Dav!UploadVisible
  <2>3. Dav!NoDuplicates
    BY DEF DavInv, OnceEach, Dav!NoDuplicates
  <2> QED
    BY <2>1, <2>2, <2>3
<1> QED
  BY <1>1, <1>2, <1>3, PTL DEF MCSpec

-----------------------------------------------------------------------------
(* RuleEntries. *)

Matcher  == [pc : {"idle", "list", "insert"}, of : RuleFiles \cup {None},
             what : Metas \cup {None}, todo : SUBSET RuleFolders]
Backfiller == [pc : {"idle", "list", "insert"}, of : RuleFolders \cup {None},
               what : Rules \cup {None, Bad}, todo : SUBSET RuleFiles]

\* The types; what events name is there.
RuleTypes ==
    /\ files \in [RuleFiles -> Metas \cup {None}]
    /\ rules \in [RuleFolders -> Rule!Node \cup {None}]
    /\ entries \subseteq RuleFolders \X RuleFiles
    /\ checkpoint \in [RuleFolders -> {None, "indexing", "ready"}]
    /\ toPublish \subseteq RuleFiles \cup RuleFolders
    /\ published \in Seq(RuleFiles) /\ Len(published) <= Buffer
    /\ created \in Seq(RuleFolders) /\ Len(created) <= Buffer
    /\ matcher \in Matcher
    /\ backfill \in Backfiller

\* An event is of a row that is there, and a goroutine holds what the row says.
EventsHold ==
    /\ \A f \in RuleFiles : f \in toPublish \cup Rule!Range(published) => files[f] # None
    /\ \A n \in RuleFolders : n \in toPublish \cup Rule!Range(created) => rules[n] # None
    /\ matcher.pc = "idle" => matcher = Rule!Resting
    /\ matcher.pc # "idle" => /\ matcher.of \in RuleFiles
                              /\ files[matcher.of] # None
                              /\ matcher.what = files[matcher.of]
    /\ backfill.pc = "idle" => backfill = Rule!Resting
    /\ backfill.pc # "idle" => /\ backfill.of \in RuleFolders
                               /\ rules[backfill.of] # None
                               /\ backfill.what = rules[backfill.of].rule

\* The event of the file will still match it with the folder.
FileWaits(n, f) ==
    \/ f \in toPublish \cup Rule!Range(published)
    \/ matcher.of = f /\ (matcher.pc = "list" \/ (matcher.pc = "insert" /\ n \in matcher.todo))

\* The event of the folder, or a Backfill, will still match it with the file.
FolderWaits(n, f) ==
    \/ n \in toPublish \cup Rule!Range(created)
    \/ backfill.of = n /\ (backfill.pc = "list" \/ (backfill.pc = "insert" /\ f \in backfill.todo))

\* Whichever of the two came later has an event that covers the pair, which is handled,
\* lost or still to come.
Covered ==
    \A n \in RuleFolders, f \in RuleFiles :
        Rule!Due(n, f) => \/ <<n, f>> \in entries
                          \/ <<n, f>> \in missed
                          \/ FileWaits(n, f)
                          \/ FolderWaits(n, f)

RuleInv == RuleTypes /\ EventsHold /\ Covered

LEMMA RuleNumbers ==
    /\ RuleFiles \cap RuleFolders = {}
    /\ None \notin RuleFiles /\ None \notin RuleFolders /\ None \notin Metas /\ None \notin Rule!Node
    /\ Buffer \in Nat /\ Buffer >= 1 /\ MaxCrash \in Nat
  BY FileAccessAssumption, SMT DEF Rule!Constants

\* Receiving takes one element off a buffer, and sending adds one.
LEMMA Received ==
    ASSUME NEW S, NEW s \in Seq(S), s # <<>>
    PROVE  /\ Head(s) \in S /\ Tail(s) \in Seq(S) /\ Len(Tail(s)) <= Len(s)
           /\ Rule!Range(s) = {Head(s)} \cup Rule!Range(Tail(s))
<1>1. /\ Head(s) \in S /\ Tail(s) \in Seq(S) /\ Len(s) \in Nat /\ Len(s) >= 1 /\ Len(Tail(s)) = Len(s) - 1
      /\ \A i \in 1..(Len(s) - 1) : Tail(s)[i] = s[i + 1]
      /\ Head(s) = s[1]
  BY SMT
<1>2. DOMAIN s = 1..Len(s) /\ DOMAIN Tail(s) = 1..(Len(s) - 1)
  BY <1>1, LenProperties
<1>3. \A x \in Rule!Range(s) : x = Head(s) \/ x \in Rule!Range(Tail(s))
  <2> SUFFICES ASSUME NEW i \in 1..Len(s), s[i] # Head(s) PROVE s[i] \in Rule!Range(Tail(s))
    BY <1>2 DEF Rule!Range
  <2>1. i - 1 \in 1..(Len(s) - 1) /\ (i - 1) + 1 = i
    BY <1>1, SMT
  <2> QED
    BY <1>1, <1>2, <2>1 DEF Rule!Range
<1>4. Head(s) \in Rule!Range(s)
  BY <1>1, <1>2, SMT DEF Rule!Range
<1>5. \A x \in Rule!Range(Tail(s)) : x \in Rule!Range(s)
  <2> SUFFICES ASSUME NEW i \in 1..(Len(s) - 1) PROVE Tail(s)[i] \in Rule!Range(s)
    BY <1>2 DEF Rule!Range
  <2>1. i + 1 \in 1..Len(s)
    BY <1>1, SMT
  <2> QED
    BY <1>1, <1>2, <2>1 DEF Rule!Range
<1> QED
  BY <1>1, <1>3, <1>4, <1>5, SMT

LEMMA Sent ==
    ASSUME NEW S, NEW s \in Seq(S), NEW x \in S
    PROVE  /\ Append(s, x) \in Seq(S) /\ Len(Append(s, x)) = Len(s) + 1
           /\ Rule!Range(Append(s, x)) = Rule!Range(s) \cup {x}
<1>1. /\ Append(s, x) \in Seq(S) /\ Len(Append(s, x)) = Len(s) + 1 /\ Len(s) \in Nat
      /\ \A i \in 1..Len(s) : Append(s, x)[i] = s[i]
      /\ Append(s, x)[Len(s) + 1] = x
  BY AppendProperties, LenProperties
<1>2. DOMAIN s = 1..Len(s) /\ DOMAIN Append(s, x) = 1..(Len(s) + 1)
  BY <1>1, LenProperties
<1>3. \A i \in 1..(Len(s) + 1) : i \in 1..Len(s) \/ i = Len(s) + 1
  BY <1>1, SMT
<1>4. \A i \in 1..Len(s) : i \in 1..(Len(s) + 1)
  BY <1>1, SMT
<1>5. Len(s) + 1 \in 1..(Len(s) + 1)
  BY <1>1, SMT
<1>6. \A y \in Rule!Range(Append(s, x)) : y \in Rule!Range(s) \cup {x}
  BY <1>1, <1>2, <1>3 DEF Rule!Range
<1>7. \A y \in Rule!Range(s) : y \in Rule!Range(Append(s, x))
  BY <1>1, <1>2, <1>4 DEF Rule!Range
<1>8. x \in Rule!Range(Append(s, x))
  BY <1>1, <1>2, <1>5 DEF Rule!Range
<1> QED
  BY <1>1, <1>6, <1>7, <1>8

\* An empty buffer has no event.
LEMMA NoEvents == Rule!Range(<<>>) = {}
  BY SMT DEF Rule!Range

LEMMA RestingType ==
    /\ Rule!Resting \in Matcher /\ Rule!Resting \in Backfiller
    /\ Rule!Resting.pc = "idle" /\ Rule!Resting.of = None /\ Rule!Resting.todo = {}
  BY DEF Rule!Resting, Matcher, Backfiller

LEMMA RuleInit == ASSUME Rule!Init PROVE RuleInv
<1>1. RuleTypes
  BY RuleNumbers, RestingType, EmptySeq, SMT DEF Rule!Init, RuleTypes
<1>2. EventsHold
  BY NoEvents, RestingType DEF Rule!Init, EventsHold
<1>3. Covered
  BY DEF Rule!Init, Covered, Rule!Due
<1> QED
  BY <1>1, <1>2, <1>3 DEF RuleInv

\* Rows that appear with their event, or are only hidden, leave what was covered so.
LEMMA RuleRegister ==
    ASSUME RuleInv, NEW f \in RuleFiles, NEW meta \in Metas, Rule!RegisterFile(f, meta)
    PROVE  RuleInv'
<1>1. /\ files[f] = None /\ files' = [files EXCEPT ![f] = meta] /\ toPublish' = toPublish \cup {f}
      /\ UNCHANGED <<rules, entries, checkpoint, published, created, matcher, backfill, missed, crashes>>
  BY DEF Rule!RegisterFile
<1>2. files'[f] = meta /\ meta # None /\ files' \in [RuleFiles -> Metas \cup {None}]
      /\ \A g \in RuleFiles : g # f => files'[g] = files[g]
  BY <1>1, RuleNumbers DEF RuleInv, RuleTypes
<1>3. RuleTypes'
  BY <1>1, <1>2 DEF RuleInv, RuleTypes
<1>4. EventsHold'
  BY <1>1, <1>2, RuleNumbers DEF RuleInv, EventsHold
<1>5. Covered'
  <2> SUFFICES ASSUME NEW n \in RuleFolders, NEW g \in RuleFiles, Rule!Due(n, g)'
               PROVE  \/ <<n, g>> \in entries \/ <<n, g>> \in missed
                      \/ FileWaits(n, g)' \/ FolderWaits(n, g)'
    BY <1>1 DEF Covered
  <2>1. CASE g = f
    BY <1>1, <2>1 DEF FileWaits
  <2>2. CASE g # f
    <3>1. Rule!Due(n, g)
      BY <1>1, <1>2, <2>2 DEF Rule!Due, Rule!Parsed
    <3> QED
      BY <1>1, <3>1 DEF RuleInv, Covered, FileWaits, FolderWaits
  <2> QED
    BY <2>1, <2>2
<1> QED
  BY <1>3, <1>4, <1>5 DEF RuleInv

LEMMA RuleCreate ==
    ASSUME RuleInv, NEW n \in RuleFolders, NEW r \in Rules \cup {None, Bad}, Rule!CreateNode(n, r)
    PROVE  RuleInv'
<1>0. PICK x : x = [rule |-> r, visible |-> TRUE]
  OBVIOUS
<1>1. /\ rules[n] = None /\ rules' = [rules EXCEPT ![n] = x] /\ toPublish' = toPublish \cup {n}
      /\ UNCHANGED <<files, entries, checkpoint, published, created, matcher, backfill, missed, crashes>>
  BY <1>0 DEF Rule!CreateNode
<1>a. x \in Rule!Node /\ x # None
  <2>1. [rule |-> r, visible |-> TRUE] \in [rule : Rules \cup {None, Bad}, visible : BOOLEAN]
    OBVIOUS
  <2>2. x \in Rule!Node
    BY <1>0, <2>1, Zenon DEF Rule!Node
  <2> QED
    BY <2>2, RuleNumbers, Zenon
<1>2. rules'[n] = x /\ x # None /\ rules' \in [RuleFolders -> Rule!Node \cup {None}]
      /\ \A m \in RuleFolders : m # n => rules'[m] = rules[m]
  BY <1>a, <1>1 DEF RuleInv, RuleTypes
<1>3. RuleTypes'
  BY <1>1, <1>2 DEF RuleInv, RuleTypes
<1>4. EventsHold'
  BY <1>1, <1>2, RuleNumbers DEF RuleInv, EventsHold
<1>5. Covered'
  <2> SUFFICES ASSUME NEW m \in RuleFolders, NEW g \in RuleFiles, Rule!Due(m, g)'
               PROVE  \/ <<m, g>> \in entries \/ <<m, g>> \in missed
                      \/ FileWaits(m, g)' \/ FolderWaits(m, g)'
    BY <1>1 DEF Covered
  <2>1. CASE m = n
    BY <1>1, <2>1 DEF FolderWaits
  <2>2. CASE m # n
    <3>1. Rule!Due(m, g)
      BY <1>1, <1>2, <2>2 DEF Rule!Due, Rule!Parsed
    <3> QED
      BY <1>1, <3>1 DEF RuleInv, Covered, FileWaits, FolderWaits
  <2> QED
    BY <2>1, <2>2
<1> QED
  BY <1>3, <1>4, <1>5 DEF RuleInv

LEMMA RuleHide ==
    ASSUME RuleInv, NEW n \in RuleFolders, Rule!SoftDeleteNode(n)
    PROVE  RuleInv'
<1>0. PICK x : x = [rules[n] EXCEPT !.visible = FALSE]
  OBVIOUS
<1>1. /\ rules[n] # None /\ rules' = [rules EXCEPT ![n] = x]
      /\ UNCHANGED <<files, entries, checkpoint, toPublish, published, created, matcher, backfill, missed, crashes>>
  BY <1>0 DEF Rule!SoftDeleteNode
<1>2. rules[n] \in Rule!Node
  BY <1>1 DEF RuleInv, RuleTypes
<1>3. x \in Rule!Node /\ x.rule = rules[n].rule /\ x.visible = FALSE /\ x # None
  BY <1>0, <1>2, RuleNumbers DEF Rule!Node
<1>4. /\ rules'[n] = x /\ rules' \in [RuleFolders -> Rule!Node \cup {None}]
      /\ \A m \in RuleFolders : m # n => rules'[m] = rules[m]
  BY <1>1, <1>3 DEF RuleInv, RuleTypes
<1>5. RuleTypes'
  BY <1>1, <1>4 DEF RuleInv, RuleTypes
<1>6. EventsHold'
  BY <1>1, <1>3, <1>4 DEF RuleInv, EventsHold
<1>7. Covered'
  <2> SUFFICES ASSUME NEW m \in RuleFolders, NEW g \in RuleFiles, Rule!Due(m, g)'
               PROVE  \/ <<m, g>> \in entries \/ <<m, g>> \in missed
                      \/ FileWaits(m, g)' \/ FolderWaits(m, g)'
    BY <1>1 DEF Covered
  <2>1. m # n
    BY <1>3, <1>4 DEF Rule!Due
  <2>2. Rule!Due(m, g)
    BY <1>1, <1>4, <2>1 DEF Rule!Due, Rule!Parsed
  <2> QED
    BY <1>1, <2>2 DEF RuleInv, Covered, FileWaits, FolderWaits
<1> QED
  BY <1>5, <1>6, <1>7 DEF RuleInv

\* Steps that change no row: what is due stays so.
LEMMA DueStays ==
    ASSUME UNCHANGED <<files, rules>>
    PROVE  \A n \in RuleFolders, f \in RuleFiles : Rule!Due(n, f)' <=> Rule!Due(n, f)
  BY DEF Rule!Due, Rule!Parsed

LEMMA RulePublishFile ==
    ASSUME RuleInv, NEW f \in RuleFiles, Rule!PublishFile(f)
    PROVE  RuleInv'
<1>1. /\ f \in toPublish /\ toPublish' = toPublish \ {f}
      /\ UNCHANGED <<files, rules, entries, checkpoint, created, matcher, backfill, crashes>>
  BY DEF Rule!PublishFile
<1>2. \/ Len(published) < Buffer /\ published' = Append(published, f) /\ missed' = missed
      \/ published' = published /\ missed' = missed \cup Rule!Undone({f})
  BY DEF Rule!PublishFile
<1>3. published \in Seq(RuleFiles) /\ Len(published) <= Buffer /\ Len(published) \in Nat
  BY LenProperties DEF RuleInv, RuleTypes
<1>4. /\ Append(published, f) \in Seq(RuleFiles) /\ Len(Append(published, f)) = Len(published) + 1
      /\ Rule!Range(Append(published, f)) = Rule!Range(published) \cup {f}
  BY <1>3, Sent
<1>5. published' \in Seq(RuleFiles) /\ Len(published') <= Buffer
  BY <1>2, <1>3, <1>4, RuleNumbers, SMT
<1>6. /\ Rule!Range(published') \subseteq Rule!Range(published) \cup {f}
      /\ Rule!Range(published) \subseteq Rule!Range(published')
      /\ missed \subseteq missed'
      /\ f \in Rule!Range(published') \/ missed' = missed \cup Rule!Undone({f})
  BY <1>2, <1>4
<1>7. RuleTypes'
  BY <1>1, <1>5 DEF RuleInv, RuleTypes
<1>8. EventsHold'
  <2>1. Rule!Range(published)' = Rule!Range(published') /\ Rule!Range(created)' = Rule!Range(created)
    BY <1>1 DEF Rule!Range
  <2> QED
    BY <1>1, <1>6, <2>1 DEF RuleInv, EventsHold
<1>9. Covered'
  <2> SUFFICES ASSUME NEW n \in RuleFolders, NEW g \in RuleFiles, Rule!Due(n, g)'
               PROVE  \/ <<n, g>> \in entries \/ <<n, g>> \in missed'
                      \/ FileWaits(n, g)' \/ FolderWaits(n, g)'
    BY <1>1 DEF Covered
  <2>0. Rule!Range(published)' = Rule!Range(published') /\ Rule!Range(created)' = Rule!Range(created)
    BY <1>1 DEF Rule!Range
  <2>1. Rule!Due(n, g)
    BY <1>1, DueStays
  <2>2. \/ <<n, g>> \in entries \/ <<n, g>> \in missed \/ FileWaits(n, g) \/ FolderWaits(n, g)
    BY <2>1 DEF RuleInv, Covered
  <2>3. FolderWaits(n, g) => FolderWaits(n, g)'
    BY <1>1, <2>0, RuleNumbers DEF FolderWaits
  <2>4. ASSUME g = f, f \notin Rule!Range(published') PROVE <<n, g>> \in missed'
    BY <1>6, <2>1, <2>4 DEF Rule!Undone, Rule!Due
  <2>5. FileWaits(n, g) => FileWaits(n, g)' \/ <<n, g>> \in missed'
    BY <1>1, <1>6, <2>0, <2>4 DEF FileWaits
  <2> QED
    BY <1>6, <2>2, <2>3, <2>5
<1> QED
  BY <1>7, <1>8, <1>9 DEF RuleInv

LEMMA RulePublishFolder ==
    ASSUME RuleInv, NEW n \in RuleFolders, Rule!PublishFolder(n)
    PROVE  RuleInv'
<1>1. /\ n \in toPublish /\ toPublish' = toPublish \ {n}
      /\ UNCHANGED <<files, rules, entries, checkpoint, published, matcher, backfill, crashes>>
  BY DEF Rule!PublishFolder
<1>2. \/ Len(created) < Buffer /\ created' = Append(created, n) /\ missed' = missed
      \/ created' = created /\ missed' = missed \cup Rule!Undone({n})
  BY DEF Rule!PublishFolder
<1>3. created \in Seq(RuleFolders) /\ Len(created) <= Buffer /\ Len(created) \in Nat
  BY LenProperties DEF RuleInv, RuleTypes
<1>4. /\ Append(created, n) \in Seq(RuleFolders) /\ Len(Append(created, n)) = Len(created) + 1
      /\ Rule!Range(Append(created, n)) = Rule!Range(created) \cup {n}
  BY <1>3, Sent
<1>5. created' \in Seq(RuleFolders) /\ Len(created') <= Buffer
  BY <1>2, <1>3, <1>4, RuleNumbers, SMT
<1>6. /\ Rule!Range(created') \subseteq Rule!Range(created) \cup {n}
      /\ Rule!Range(created) \subseteq Rule!Range(created')
      /\ missed \subseteq missed'
      /\ n \in Rule!Range(created') \/ missed' = missed \cup Rule!Undone({n})
  BY <1>2, <1>4
<1>7. RuleTypes'
  BY <1>1, <1>5 DEF RuleInv, RuleTypes
<1>0. Rule!Range(published)' = Rule!Range(published) /\ Rule!Range(created)' = Rule!Range(created')
  BY <1>1 DEF Rule!Range
<1>8. EventsHold'
  BY <1>0, <1>1, <1>6 DEF RuleInv, EventsHold
<1>9. Covered'
  <2> SUFFICES ASSUME NEW m \in RuleFolders, NEW g \in RuleFiles, Rule!Due(m, g)'
               PROVE  \/ <<m, g>> \in entries \/ <<m, g>> \in missed'
                      \/ FileWaits(m, g)' \/ FolderWaits(m, g)'
    BY <1>1 DEF Covered
  <2>1. Rule!Due(m, g)
    BY <1>1, DueStays
  <2>2. \/ <<m, g>> \in entries \/ <<m, g>> \in missed \/ FileWaits(m, g) \/ FolderWaits(m, g)
    BY <2>1 DEF RuleInv, Covered
  <2>3. FileWaits(m, g) => FileWaits(m, g)'
    BY <1>0, <1>1, RuleNumbers DEF FileWaits
  <2>4. ASSUME m = n, n \notin Rule!Range(created') PROVE <<m, g>> \in missed'
    BY <1>6, <2>1, <2>4 DEF Rule!Undone, Rule!Due
  <2>5. FolderWaits(m, g) => FolderWaits(m, g)' \/ <<m, g>> \in missed'
    BY <1>0, <1>1, <1>6, <2>4 DEF FolderWaits
  <2> QED
    BY <1>6, <2>2, <2>3, <2>5
<1> QED
  BY <1>7, <1>8, <1>9 DEF RuleInv

LEMMA RuleFileReceived == ASSUME RuleInv, Rule!HandleFilePublished PROVE RuleInv'
<1>0. PICK f : f = Head(published)
  OBVIOUS
<1>1. /\ matcher.pc = "idle" /\ published # <<>> /\ published' = Tail(published)
      /\ matcher' = [Rule!Resting EXCEPT !.pc = "list", !.of = f, !.what = files[f]]
      /\ UNCHANGED <<files, rules, entries, checkpoint, toPublish, created, backfill, missed, crashes>>
  BY <1>0 DEF Rule!HandleFilePublished
<1>2. published \in Seq(RuleFiles) /\ Len(published) <= Buffer /\ Len(published) \in Nat
  BY LenProperties DEF RuleInv, RuleTypes
<1>3. /\ f \in RuleFiles /\ published' \in Seq(RuleFiles) /\ Len(published') <= Buffer
      /\ Rule!Range(published) = {f} \cup Rule!Range(published')
  <2>1. /\ f \in RuleFiles /\ Tail(published) \in Seq(RuleFiles) /\ Len(Tail(published)) <= Len(published)
        /\ Rule!Range(published) = {f} \cup Rule!Range(Tail(published))
    BY <1>0, <1>1, <1>2, Received
  <2>2. Len(Tail(published)) \in Nat
    BY <2>1, LenProperties
  <2>3. Len(Tail(published)) <= Buffer
    BY <1>2, <2>1, <2>2, RuleNumbers, SMT
  <2> QED
    BY <1>1, <2>1, <2>3
<1>4. files[f] \in Metas /\ files[f] # None
  BY <1>3 DEF RuleInv, RuleTypes, EventsHold
<1>5. matcher' \in Matcher /\ matcher'.pc = "list" /\ matcher'.of = f /\ matcher'.what = files[f]
  BY <1>1, <1>3, <1>4 DEF Rule!Resting, Matcher
<1>6. RuleTypes'
  BY <1>1, <1>3, <1>5 DEF RuleInv, RuleTypes
<1>7. Rule!Range(published)' = Rule!Range(published') /\ Rule!Range(created)' = Rule!Range(created)
  BY <1>1 DEF Rule!Range
<1>8. EventsHold'
  BY <1>1, <1>3, <1>4, <1>5, <1>7 DEF RuleInv, EventsHold
<1>9. Covered'
  <2> SUFFICES ASSUME NEW n \in RuleFolders, NEW g \in RuleFiles, Rule!Due(n, g)'
               PROVE  \/ <<n, g>> \in entries \/ <<n, g>> \in missed
                      \/ FileWaits(n, g)' \/ FolderWaits(n, g)'
    BY <1>1 DEF Covered
  <2>1. \/ <<n, g>> \in entries \/ <<n, g>> \in missed \/ FileWaits(n, g) \/ FolderWaits(n, g)
    BY <1>1, DueStays DEF RuleInv, Covered
  <2>2. FolderWaits(n, g) => FolderWaits(n, g)'
    BY <1>1, <1>7 DEF FolderWaits
  <2>3. FileWaits(n, g) => FileWaits(n, g)'
    BY <1>1, <1>3, <1>5, <1>7 DEF FileWaits
  <2> QED
    BY <2>1, <2>2, <2>3
<1> QED
  BY <1>6, <1>8, <1>9 DEF RuleInv

LEMMA RuleFileMatched ==
    ASSUME RuleInv,
           Rule!MatchFolders \/ Rule!FileHandled \/ \E n \in RuleFolders : Rule!InsertForFile(n)
    PROVE  RuleInv'
<1>0. matcher \in Matcher /\ matcher.pc # "idle" /\ matcher.of \in RuleFiles /\ matcher.what = files[matcher.of]
      /\ files[matcher.of] # None
      /\ UNCHANGED <<files, rules, checkpoint, toPublish, published, created, backfill, missed, crashes>>
  BY DEF RuleInv, RuleTypes, EventsHold, Rule!MatchFolders, Rule!FileHandled, Rule!InsertForFile
<1>1. Rule!Range(published)' = Rule!Range(published) /\ Rule!Range(created)' = Rule!Range(created)
  BY <1>0 DEF Rule!Range
<1>2. ASSUME entries \subseteq entries', entries' \subseteq RuleFolders \X RuleFiles,
             matcher' \in Matcher,
             \/ matcher' = Rule!Resting
             \/ /\ matcher'.pc = "insert" /\ matcher'.of = matcher.of /\ matcher'.what = matcher.what,
             \A n \in RuleFolders :
                 Rule!Due(n, matcher.of) /\ (matcher.pc = "list" \/ n \in matcher.todo) =>
                     \/ <<n, matcher.of>> \in entries'
                     \/ matcher'.pc = "insert" /\ n \in matcher'.todo
      PROVE  RuleInv'
  <2>1. RuleTypes'
    BY <1>0, <1>2 DEF RuleInv, RuleTypes
  <2>2. EventsHold'
    BY <1>0, <1>1, <1>2, RestingType DEF RuleInv, EventsHold
  <2>3. Covered'
    <3> SUFFICES ASSUME NEW n \in RuleFolders, NEW g \in RuleFiles, Rule!Due(n, g)'
                 PROVE  \/ <<n, g>> \in entries' \/ <<n, g>> \in missed
                        \/ FileWaits(n, g)' \/ FolderWaits(n, g)'
      BY <1>0 DEF Covered
    <3>1. Rule!Due(n, g)
      BY <1>0, DueStays
    <3>2. \/ <<n, g>> \in entries \/ <<n, g>> \in missed \/ FileWaits(n, g) \/ FolderWaits(n, g)
      BY <3>1 DEF RuleInv, Covered
    <3>3. FolderWaits(n, g) => FolderWaits(n, g)'
      BY <1>0, <1>1 DEF FolderWaits
    <3>4. FileWaits(n, g) => FileWaits(n, g)' \/ <<n, g>> \in entries'
      <4>1. CASE g \in toPublish \cup Rule!Range(published)
        BY <1>0, <1>1, <4>1 DEF FileWaits
      <4>2. CASE matcher.of = g /\ (matcher.pc = "list" \/ (matcher.pc = "insert" /\ n \in matcher.todo))
        <5>1. <<n, matcher.of>> \in entries' \/ (matcher'.pc = "insert" /\ n \in matcher'.todo)
          BY <1>2, <3>1, <4>2
        <5>2. CASE <<n, matcher.of>> \in entries'
          BY <4>2, <5>2
        <5>3. CASE matcher'.pc = "insert" /\ n \in matcher'.todo
          BY <1>2, <4>2, <5>3, RestingType DEF FileWaits
        <5> QED
          BY <5>1, <5>2, <5>3
      <4> QED
        BY <4>1, <4>2 DEF FileWaits
    <3> QED
      BY <1>2, <3>2, <3>3, <3>4
  <2> QED
    BY <2>1, <2>2, <2>3 DEF RuleInv
<1>3. CASE Rule!MatchFolders
  <2>1. PICK T : T = {n \in Rule!ListRuleFolders : Rule!Parsed(rules[n].rule) /\ Rule!Matches(rules[n].rule, matcher.what)}
    OBVIOUS
  <2>2. matcher' = [matcher EXCEPT !.pc = "insert", !.todo = T] /\ entries' = entries
    BY <1>3, <2>1 DEF Rule!MatchFolders
  <2>3. T \subseteq RuleFolders
    BY <2>1 DEF Rule!ListRuleFolders
  <2>4. matcher' \in Matcher /\ matcher'.pc = "insert" /\ matcher'.of = matcher.of
        /\ matcher'.what = matcher.what /\ matcher'.todo = T
    BY <1>0, <2>2, <2>3 DEF Matcher
  <2>5. \A n \in RuleFolders : Rule!Due(n, matcher.of) => n \in T
    BY <1>0, <2>1 DEF Rule!Due, Rule!ListRuleFolders, Rule!Matches
  <2>6. entries' \subseteq RuleFolders \X RuleFiles
    BY <2>2 DEF RuleInv, RuleTypes
  <2> QED
    BY <1>2, <2>2, <2>4, <2>5, <2>6
<1>4. CASE Rule!FileHandled
  <2>1. matcher.pc = "insert" /\ matcher.todo = {} /\ matcher' = Rule!Resting /\ entries' = entries
    BY <1>4 DEF Rule!FileHandled
  <2>2. entries' \subseteq RuleFolders \X RuleFiles
    BY <2>1 DEF RuleInv, RuleTypes
  <2> QED
    BY <1>2, <2>1, <2>2, RestingType
<1>5. ASSUME NEW n \in RuleFolders, Rule!InsertForFile(n) PROVE RuleInv'
  <2>1. /\ matcher.pc = "insert" /\ entries' = entries \cup {<<n, matcher.of>>}
        /\ matcher' = [matcher EXCEPT !.todo = matcher.todo \ {n}]
    BY <1>5 DEF Rule!InsertForFile
  <2>2. matcher' \in Matcher /\ matcher'.pc = "insert" /\ matcher'.of = matcher.of
        /\ matcher'.what = matcher.what /\ matcher'.todo = matcher.todo \ {n}
    BY <1>0, <2>1 DEF Matcher
  <2>3. entries' \subseteq RuleFolders \X RuleFiles
    BY <1>0, <2>1 DEF RuleInv, RuleTypes
  <2>4. \A m \in RuleFolders : m \in matcher.todo => <<m, matcher.of>> \in entries' \/ m \in matcher'.todo
    BY <2>1, <2>2
  <2> QED
    BY <1>2, <2>1, <2>2, <2>3, <2>4
<1> QED
  BY <1>3, <1>4, <1>5

\* A backfill begins, of a folder whose event was received or that is asked for again.
LEMMA RuleBackfillStarts ==
    ASSUME RuleInv, NEW n \in RuleFolders, rules[n] # None, backfill.pc = "idle",
           backfill' = Rule!StartBackfill(n),
           checkpoint' = IF Rule!Parsed(rules[n].rule) THEN [checkpoint EXCEPT ![n] = "indexing"] ELSE checkpoint,
           created' \in Seq(RuleFolders), Len(created') <= Buffer,
           Rule!Range(created') \subseteq Rule!Range(created),
           Rule!Range(created) \subseteq {n} \cup Rule!Range(created'),
           UNCHANGED <<files, rules, entries, toPublish, published, matcher, missed, crashes>>
    PROVE  RuleInv'
<1>1. rules[n] \in Rule!Node /\ rules[n].rule \in Rules \cup {None, Bad}
  BY DEF RuleInv, RuleTypes, Rule!Node
<1>2. \/ ~Rule!Parsed(rules[n].rule) /\ backfill' = Rule!Resting
      \/ /\ Rule!Parsed(rules[n].rule)
         /\ backfill' = [Rule!Resting EXCEPT !.pc = "list", !.of = n, !.what = rules[n].rule]
  BY DEF Rule!StartBackfill
<1>3. \/ ~Rule!Parsed(rules[n].rule) /\ backfill' = Rule!Resting
      \/ backfill'.pc = "list" /\ backfill'.of = n /\ backfill'.what = rules[n].rule
  BY <1>2 DEF Rule!Resting
<1>4. backfill' \in Backfiller
  BY <1>1, <1>2, RestingType DEF Rule!Resting, Backfiller
<1>5. checkpoint' \in [RuleFolders -> {None, "indexing", "ready"}]
  BY DEF RuleInv, RuleTypes
<1>6. RuleTypes'
  BY <1>4, <1>5 DEF RuleInv, RuleTypes
<1>7. Rule!Range(published)' = Rule!Range(published) /\ Rule!Range(created)' = Rule!Range(created')
  BY DEF Rule!Range
<1>8. EventsHold'
  BY <1>3, <1>7, RestingType DEF RuleInv, EventsHold
<1>9. Covered'
  <2> SUFFICES ASSUME NEW m \in RuleFolders, NEW g \in RuleFiles, Rule!Due(m, g)'
               PROVE  \/ <<m, g>> \in entries \/ <<m, g>> \in missed
                      \/ FileWaits(m, g)' \/ FolderWaits(m, g)'
    BY DEF Covered
  <2>0. Rule!Due(m, g)
    BY DueStays
  <2>1. \/ <<m, g>> \in entries \/ <<m, g>> \in missed \/ FileWaits(m, g) \/ FolderWaits(m, g)
    BY <2>0 DEF RuleInv, Covered
  <2>2. FileWaits(m, g) => FileWaits(m, g)'
    BY <1>7 DEF FileWaits
  <2>3. m = n => Rule!Parsed(rules[n].rule)
    BY <2>0 DEF Rule!Due
  <2>4. FolderWaits(m, g) => FolderWaits(m, g)'
    BY <1>3, <1>7, <2>3 DEF FolderWaits
  <2> QED
    BY <2>1, <2>2, <2>4
<1> QED
  BY <1>6, <1>8, <1>9 DEF RuleInv

LEMMA RuleFolderReceived ==
    ASSUME RuleInv, Rule!HandleRuleFolderCreated \/ \E n \in RuleFolders : Rule!Backfill(n)
    PROVE  RuleInv'
<1>0. created \in Seq(RuleFolders) /\ Len(created) <= Buffer /\ Len(created) \in Nat
  BY LenProperties DEF RuleInv, RuleTypes
<1>1. CASE Rule!HandleRuleFolderCreated
  <2>0. PICK n : n = Head(created)
    OBVIOUS
  <2>1. /\ backfill.pc = "idle" /\ created # <<>> /\ created' = Tail(created)
        /\ backfill' = Rule!StartBackfill(n)
        /\ checkpoint' = IF Rule!Parsed(rules[n].rule) THEN [checkpoint EXCEPT ![n] = "indexing"] ELSE checkpoint
        /\ UNCHANGED <<files, rules, entries, toPublish, published, matcher, missed, crashes>>
    BY <1>1, <2>0 DEF Rule!HandleRuleFolderCreated
  <2>2. /\ n \in RuleFolders /\ Tail(created) \in Seq(RuleFolders) /\ Len(Tail(created)) <= Len(created)
        /\ Rule!Range(created) = {n} \cup Rule!Range(Tail(created))
    BY <1>0, <2>0, <2>1, Received
  <2>3. Len(Tail(created)) \in Nat
    BY <2>2, LenProperties
  <2>4. Len(Tail(created)) <= Buffer
    BY <1>0, <2>2, <2>3, RuleNumbers, SMT
  <2>5. rules[n] # None
    BY <2>2 DEF RuleInv, EventsHold
  <2> QED
    BY <2>1, <2>2, <2>4, <2>5, RuleBackfillStarts
<1>2. ASSUME NEW n \in RuleFolders, Rule!Backfill(n) PROVE RuleInv'
  <2>1. /\ backfill.pc = "idle" /\ rules[n] # None /\ Rule!Parsed(rules[n].rule)
        /\ backfill' = Rule!StartBackfill(n)
        /\ checkpoint' = [checkpoint EXCEPT ![n] = "indexing"]
        /\ UNCHANGED <<files, rules, entries, toPublish, published, created, matcher, missed, crashes>>
    BY <1>2 DEF Rule!Backfill
  <2> QED
    BY <1>0, <2>1, RuleBackfillStarts
<1> QED
  BY <1>1, <1>2

LEMMA RuleFolderMatched ==
    ASSUME RuleInv,
           Rule!MatchFiles \/ Rule!FolderReady \/ \E f \in RuleFiles : Rule!InsertForFolder(f)
    PROVE  RuleInv'
<1>0. backfill \in Backfiller /\ backfill.pc # "idle" /\ backfill.of \in RuleFolders
      /\ rules[backfill.of] # None /\ backfill.what = rules[backfill.of].rule
      /\ UNCHANGED <<files, rules, toPublish, published, created, matcher, crashes>>
  BY DEF RuleInv, RuleTypes, EventsHold, Rule!MatchFiles, Rule!FolderReady, Rule!Filled, Rule!InsertForFolder
<1>1. Rule!Range(published)' = Rule!Range(published) /\ Rule!Range(created)' = Rule!Range(created)
  BY <1>0 DEF Rule!Range
<1>2. ASSUME entries \subseteq entries', entries' \subseteq RuleFolders \X RuleFiles,
             checkpoint' \in [RuleFolders -> {None, "indexing", "ready"}],
             backfill' \in Backfiller,
             \/ backfill' = Rule!Resting
             \/ /\ backfill'.pc = "insert" /\ backfill'.of = backfill.of /\ backfill'.what = backfill.what,
             \A m \in missed : m \in missed' \/ (m[1] = backfill.of /\ backfill.pc = "list"),
             \A f \in RuleFiles :
                 Rule!Due(backfill.of, f) /\ (backfill.pc = "list" \/ f \in backfill.todo) =>
                     \/ <<backfill.of, f>> \in entries'
                     \/ backfill'.pc = "insert" /\ f \in backfill'.todo
      PROVE  RuleInv'
  <2>1. RuleTypes'
    BY <1>0, <1>2 DEF RuleInv, RuleTypes
  <2>2. EventsHold'
    BY <1>0, <1>1, <1>2, RestingType DEF RuleInv, EventsHold
  <2>3. Covered'
    <3> SUFFICES ASSUME NEW n \in RuleFolders, NEW g \in RuleFiles, Rule!Due(n, g)'
                 PROVE  \/ <<n, g>> \in entries' \/ <<n, g>> \in missed'
                        \/ FileWaits(n, g)' \/ FolderWaits(n, g)'
      BY DEF Covered
    <3>1. Rule!Due(n, g)
      BY <1>0, DueStays
    <3>2. \/ <<n, g>> \in entries \/ <<n, g>> \in missed \/ FileWaits(n, g) \/ FolderWaits(n, g)
      BY <3>1 DEF RuleInv, Covered
    <3>3. FileWaits(n, g) => FileWaits(n, g)'
      BY <1>0, <1>1 DEF FileWaits
    <3>4. CASE n \in toPublish \cup Rule!Range(created)
      BY <1>0, <1>1, <3>4 DEF FolderWaits
    <3>5. ASSUME backfill.of = n, backfill.pc = "list" \/ g \in backfill.todo
          PROVE  <<n, g>> \in entries' \/ FolderWaits(n, g)'
      <4>1. <<n, g>> \in entries' \/ (backfill'.pc = "insert" /\ g \in backfill'.todo)
        BY <1>2, <3>1, <3>5
      <4>2. CASE backfill'.pc = "insert" /\ g \in backfill'.todo
        BY <1>2, <3>5, <4>2, RestingType DEF FolderWaits
      <4> QED
        BY <4>1, <4>2
    <3>6. FolderWaits(n, g) => <<n, g>> \in entries' \/ FolderWaits(n, g)'
      <4>1. FolderWaits(n, g) => \/ n \in toPublish \cup Rule!Range(created)
                                 \/ backfill.of = n /\ (backfill.pc = "list" \/ g \in backfill.todo)
        BY DEF FolderWaits
      <4>2. n \in toPublish \cup Rule!Range(created) => FolderWaits(n, g)'
        BY <1>0, <1>1 DEF FolderWaits
      <4> QED
        BY <3>5, <4>1, <4>2
    <3>7. <<n, g>> \in missed => \/ <<n, g>> \in missed' \/ <<n, g>> \in entries' \/ FolderWaits(n, g)'
      <4>1. CASE n = backfill.of /\ backfill.pc = "list"
        BY <3>5, <4>1
      <4>2. CASE ~(n = backfill.of /\ backfill.pc = "list")
        <5>1. <<n, g>>[1] = n
          OBVIOUS
        <5> QED
          BY <1>2, <4>2, <5>1
      <4> QED
        BY <4>1, <4>2
    <3> QED
      BY <1>2, <3>2, <3>3, <3>6, <3>7
  <2> QED
    BY <2>1, <2>2, <2>3 DEF RuleInv
<1>a. entries \subseteq RuleFolders \X RuleFiles /\ checkpoint \in [RuleFolders -> {None, "indexing", "ready"}]
  BY DEF RuleInv, RuleTypes
<1>3. CASE Rule!MatchFiles
  <2>1. PICK T : T = {f \in Rule!ListActiveFiles : Rule!Matches(backfill.what, files[f])}
    OBVIOUS
  <2>2. /\ backfill.pc = "list" /\ backfill' = [backfill EXCEPT !.pc = "insert", !.todo = T]
        /\ missed' = {m \in missed : m[1] # backfill.of}
        /\ entries' = entries /\ checkpoint' = checkpoint
    BY <1>3, <2>1 DEF Rule!MatchFiles
  <2>3. T \subseteq RuleFiles
    BY <2>1 DEF Rule!ListActiveFiles
  <2>4. backfill' \in Backfiller /\ backfill'.pc = "insert" /\ backfill'.of = backfill.of
        /\ backfill'.what = backfill.what /\ backfill'.todo = T
    BY <1>0, <2>2, <2>3 DEF Backfiller
  <2>5. \A f \in RuleFiles : Rule!Due(backfill.of, f) => f \in T
    BY <1>0, <2>1 DEF Rule!Due, Rule!ListActiveFiles, Rule!Matches
  <2> QED
    BY <1>a, <1>2, <2>2, <2>4, <2>5
<1>4. CASE Rule!FolderReady
  <2>1. backfill.pc = "insert" /\ backfill.todo = {} /\ backfill' = Rule!Resting
        /\ entries' = entries /\ missed' = missed /\ checkpoint' = [checkpoint EXCEPT ![backfill.of] = "ready"]
    BY <1>4 DEF Rule!FolderReady, Rule!Filled
  <2>2. checkpoint' \in [RuleFolders -> {None, "indexing", "ready"}]
    BY <1>0, <1>a, <2>1
  <2> QED
    BY <1>a, <1>2, <2>1, <2>2, RestingType
<1>5. ASSUME NEW f \in RuleFiles, Rule!InsertForFolder(f) PROVE RuleInv'
  <2>1. /\ backfill.pc = "insert" /\ entries' = entries \cup {<<backfill.of, f>>}
        /\ backfill' = [backfill EXCEPT !.todo = backfill.todo \ {f}]
        /\ missed' = missed /\ checkpoint' = checkpoint
    BY <1>5 DEF Rule!InsertForFolder
  <2>2. backfill' \in Backfiller /\ backfill'.pc = "insert" /\ backfill'.of = backfill.of
        /\ backfill'.what = backfill.what /\ backfill'.todo = backfill.todo \ {f}
    BY <1>0, <2>1 DEF Backfiller
  <2>3. entries' \subseteq RuleFolders \X RuleFiles
    BY <1>0, <1>a, <2>1
  <2>4. \A g \in RuleFiles : g \in backfill.todo => <<backfill.of, g>> \in entries' \/ g \in backfill'.todo
    BY <2>1, <2>2
  <2> QED
    BY <1>a, <1>2, <2>1, <2>2, <2>3, <2>4
<1> QED
  BY <1>3, <1>4, <1>5

LEMMA RuleCrash == ASSUME RuleInv, Rule!Crash PROVE RuleInv'
<1>0. PICK lost : lost = toPublish \cup Rule!Range(published) \cup Rule!Range(created) \cup {matcher.of, backfill.of}
  OBVIOUS
<1>1. /\ missed' = missed \cup Rule!Undone(lost)
      /\ toPublish' = {} /\ published' = <<>> /\ created' = <<>>
      /\ matcher' = Rule!Resting /\ backfill' = Rule!Resting
      /\ UNCHANGED <<files, rules, entries, checkpoint>>
  BY <1>0 DEF Rule!Crash
<1>2. RuleTypes'
  <2>1. published' \in Seq(RuleFiles) /\ Len(published') <= Buffer /\ created' \in Seq(RuleFolders) /\ Len(created') <= Buffer
    BY <1>1, RuleNumbers, SMT
  <2> QED
    BY <1>1, <2>1, RestingType DEF RuleInv, RuleTypes
<1>3. Rule!Range(published)' = {} /\ Rule!Range(created)' = {}
  BY <1>1, SMT DEF Rule!Range
<1>4. EventsHold'
  BY <1>1, <1>3, RestingType DEF EventsHold
<1>5. Covered'
  <2> SUFFICES ASSUME NEW n \in RuleFolders, NEW g \in RuleFiles, Rule!Due(n, g)'
               PROVE  <<n, g>> \in entries \/ <<n, g>> \in missed'
    BY <1>1 DEF Covered
  <2>1. Rule!Due(n, g)
    BY <1>1, DueStays
  <2>2. \/ <<n, g>> \in entries \/ <<n, g>> \in missed \/ n \in lost \/ g \in lost
    BY <1>0, <2>1 DEF RuleInv, Covered, FileWaits, FolderWaits
  <2>3. n \in lost \/ g \in lost => <<n, g>> \in Rule!Undone(lost)
    BY <2>1 DEF Rule!Undone, Rule!Due
  <2> QED
    BY <1>1, <2>2, <2>3
<1> QED
  BY <1>2, <1>4, <1>5 DEF RuleInv

LEMMA RuleStep == ASSUME RuleInv, [Rule!Next]_rule PROVE RuleInv'
<1>1. CASE UNCHANGED rule
  <2>1. UNCHANGED <<files, rules, entries, checkpoint, toPublish, published, created, matcher, backfill, missed>>
    BY <1>1 DEF rule
  <2>2. Rule!Range(published)' = Rule!Range(published) /\ Rule!Range(created)' = Rule!Range(created)
    BY <2>1 DEF Rule!Range
  <2>3. RuleTypes' /\ EventsHold'
    BY <2>1, <2>2 DEF RuleInv, RuleTypes, EventsHold
  <2>4. Covered'
    BY <2>1, <2>2, DueStays DEF RuleInv, Covered, FileWaits, FolderWaits
  <2> QED
    BY <2>3, <2>4 DEF RuleInv
<1> QED
  BY <1>1, RuleRegister, RuleCreate, RuleHide, RulePublishFile, RulePublishFolder, RuleFileReceived,
     RuleFileMatched, RuleFolderReceived, RuleFolderMatched, RuleCrash DEF Rule!Next

\* RuleEntries: once no event of a file or a folder is outstanding, the folder shows the file if
\* its rule asks for it, whichever came first and however the two goroutines interleave, unless
\* a full buffer or a crash lost the event.  For any files, folders, rules, metadata and buffers.
THEOREM EntriesCompleteAlways == MCSpec => []EntriesComplete
<1>1. MCInit => RuleInv
  BY RuleInit DEF MCInit
<1>2. RuleInv /\ [ShareNext \/ DavNext \/ AptNext \/ PipNext \/ RuleNext \/ LoopNext]_<<focus, share, dav, apt, pip, rule, loops>>
        => RuleInv'
  BY StepsOfEach, RuleStep
<1>3. RuleInv => EntriesComplete
  <2> SUFFICES ASSUME RuleInv PROVE Rule!TypeOK /\ Rule!EntriesComplete
    BY DEF EntriesComplete
  <2>1. Rule!TypeOK
    BY DEF RuleInv, RuleTypes, Matcher, Backfiller, Rule!TypeOK
  <2>2. ASSUME NEW n \in RuleFolders, NEW f \in RuleFiles, Rule!Due(n, f), ~Rule!Pending(n), ~Rule!Pending(f)
        PROVE  <<n, f>> \in entries \/ <<n, f>> \in missed
    <3>1. ~FileWaits(n, f) /\ ~FolderWaits(n, f)
      BY <2>2 DEF FileWaits, FolderWaits, Rule!Pending
    <3> QED
      BY <2>2, <3>1 DEF RuleInv, Covered
  <2>3. Rule!EntriesComplete
    BY <2>2 DEF Rule!EntriesComplete
  <2> QED
    BY <2>1, <2>3
<1> QED
  BY <1>1, <1>2, <1>3, PTL DEF MCSpec

-----------------------------------------------------------------------------
(* The pages of the PyPI index. *)

PipProjects == 1..MaxProject

PipTypes ==
    /\ projects \in [PipProjects -> {None} \cup [name : PyNames, pypi : BOOLEAN, live : BOOLEAN]]
    /\ dists \in [Dists -> PipProjects \cup {None}]
    /\ pypi # None => DOMAIN pypi = {"byProject", "packages", "fresh"}
    /\ pyLock \in PageClients \cup {None}
    /\ page \subseteq Dists

\* A row goes with its project.
DistsLive == \A d \in Dists : dists[d] # None => Pip!Live(dists[d])

\* the PyPI projects there are, each with the normalised form of its name
ByProject == [p \in {q \in PipProjects : Pip!Live(q) /\ projects[q].pypi} |-> PyNorm[projects[p].name]]

\* What was read of the projects, and then the index, is what there is until something changes.
IndexFits ==
    ~changed => /\ pyLock # None => building = ByProject
                /\ pyLock = None /\ pypi # None => /\ pypi.byProject = ByProject
                                                   /\ pypi.packages = Pip!Packages(ByProject)

PipInv == PipTypes /\ DistsLive /\ IndexFits

LEMMA PipNumbers ==
    /\ DOMAIN PyNorm = PyNames
    /\ None \notin PageClients
    /\ PipProjects = Pip!Projects
  BY FileAccessAssumption DEF Pip!Constants, PipProjects, Pip!Projects

LEMMA PipInit == ASSUME Pip!Init PROVE PipInv
  BY PipNumbers DEF Pip!Init, PipInv, PipTypes, DistsLive, IndexFits

\* Rows or projects that change leave the invariant to what they are of.
LEMMA PipChanges ==
    ASSUME PipInv, changed', UNCHANGED <<pypi, pyLock, building, page>>, DistsLive',
           projects' \in [PipProjects -> {None} \cup [name : PyNames, pypi : BOOLEAN, live : BOOLEAN]],
           dists' \in [Dists -> PipProjects \cup {None}]
    PROVE  PipInv'
  BY DEF PipInv, PipTypes, IndexFits

LEMMA PipCreate ==
    ASSUME PipInv, NEW n \in PyNames, NEW b \in BOOLEAN, Pip!CreateProject(n, b)
    PROVE  PipInv'
<1>1. PICK p \in PipProjects :
          /\ \A q \in PipProjects : IF q < p THEN projects[q] # None ELSE projects[q] = None
          /\ projects' = [projects EXCEPT ![p] = [name |-> n, pypi |-> b, live |-> TRUE]]
  BY PipNumbers DEF Pip!CreateProject
<1>2. projects[p] = None
  BY <1>1 DEF PipProjects
<1>3. [name |-> n, pypi |-> b, live |-> TRUE] \in [name : PyNames, pypi : BOOLEAN, live : BOOLEAN]
  OBVIOUS
<1>4. projects' \in [PipProjects -> {None} \cup [name : PyNames, pypi : BOOLEAN, live : BOOLEAN]]
  BY <1>1, <1>3 DEF PipInv, PipTypes
<1>5. DistsLive'
  <2> SUFFICES ASSUME NEW d \in Dists, dists'[d] # None
               PROVE  Pip!Live(dists[d])'
    BY DEF DistsLive
  <2>1. dists' = dists
    BY DEF Pip!CreateProject
  <2>2. Pip!Live(dists[d]) /\ dists[d] \in PipProjects
    BY <2>1 DEF PipInv, PipTypes, DistsLive
  <2>3. dists[d] # p
    BY <1>2, <2>2 DEF Pip!Live
  <2>4. projects'[dists[d]] = projects[dists[d]]
    BY <1>1, <2>2, <2>3 DEF PipInv, PipTypes
  <2> QED
    BY <2>1, <2>2, <2>4 DEF Pip!Live
<1> QED
  BY <1>4, <1>5, PipChanges DEF Pip!CreateProject, PipInv, PipTypes

LEMMA PipDelete ==
    ASSUME PipInv, NEW p \in PipProjects, Pip!DeleteProject(p)
    PROVE  PipInv'
<1>1. projects' \in [PipProjects -> {None} \cup [name : PyNames, pypi : BOOLEAN, live : BOOLEAN]]
  BY DEF Pip!DeleteProject, Pip!Live, PipInv, PipTypes
<1>2. dists' = [f \in Dists |-> IF dists[f] = p THEN None ELSE dists[f]]
  BY DEF Pip!DeleteProject
<1>3. dists' \in [Dists -> PipProjects \cup {None}]
  BY <1>2 DEF PipInv, PipTypes
<1>4. DistsLive'
  <2> SUFFICES ASSUME NEW d \in Dists, dists'[d] # None
               PROVE  Pip!Live(dists[d])'
    BY DEF DistsLive
  <2>1. dists'[d] = dists[d] /\ dists[d] # p /\ dists[d] \in PipProjects
    BY <1>2 DEF PipInv, PipTypes
  <2>2. projects'[dists[d]] = projects[dists[d]]
    BY <2>1 DEF Pip!DeleteProject, PipInv, PipTypes
  <2> QED
    BY <2>1, <2>2 DEF Pip!Live, PipInv, DistsLive
<1> QED
  BY <1>1, <1>3, <1>4, PipChanges DEF Pip!DeleteProject

LEMMA PipComplete ==
    ASSUME PipInv, NEW d \in Dists, NEW p \in PipProjects, Pip!CompleteRow(d, p)
    PROVE  PipInv'
<1>1. dists' \in [Dists -> PipProjects \cup {None}]
  BY DEF Pip!CompleteRow, PipInv, PipTypes
<1>2. DistsLive'
  BY DEF Pip!CompleteRow, Pip!Live, PipInv, PipTypes, DistsLive
<1> QED
  BY <1>1, <1>2, PipChanges DEF Pip!CompleteRow, PipInv, PipTypes

\* While rows and projects stay, so does what an index of them is.
LEMMA PipSame ==
    ASSUME PipInv, UNCHANGED <<projects, dists>>
    PROVE  /\ DistsLive'
           /\ ByProject' = ByProject
           /\ Pip!Packages(ByProject)' = Pip!Packages(ByProject)
<1>1. DistsLive'
  BY DEF PipInv, DistsLive, Pip!Live
<1>2. ByProject' = ByProject
  BY DEF ByProject, Pip!Live
<1> QED
  BY <1>1, <1>2 DEF Pip!Packages, Pip!ListComplete

LEMMA PipExpire == ASSUME PipInv, Pip!Expire PROVE PipInv'
<1>1. /\ pypi # None /\ pypi' = [pypi EXCEPT !.fresh = FALSE]
      /\ UNCHANGED <<projects, dists, pyLock, building, page, changed>>
  BY DEF Pip!Expire, Pip!Fresh
<1>2. /\ DOMAIN pypi' = {"byProject", "packages", "fresh"}
      /\ pypi'.byProject = pypi.byProject /\ pypi'.packages = pypi.packages
  BY <1>1 DEF PipInv, PipTypes
<1>3. PipTypes'
  BY <1>1, <1>2 DEF PipInv, PipTypes
<1>4. IndexFits'
  BY <1>1, <1>2, PipSame DEF PipInv, IndexFits
<1> QED
  BY <1>1, <1>3, <1>4, PipSame DEF PipInv

LEMMA PipBuild ==
    ASSUME PipInv, NEW c \in PageClients, Pip!BuildIndex(c)
    PROVE  PipInv'
<1>1. PipTypes'
  BY DEF Pip!BuildIndex, PipInv, PipTypes
<1>2. building' = ByProject /\ pyLock' # None
  BY PipNumbers DEF Pip!BuildIndex, ByProject
<1>3. IndexFits'
  BY <1>2, PipSame DEF Pip!BuildIndex, IndexFits
<1> QED
  BY <1>1, <1>3, PipSame DEF Pip!BuildIndex, PipInv

LEMMA PipStore ==
    ASSUME PipInv, NEW c \in PageClients, Pip!StoreIndex(c)
    PROVE  PipInv'
<1>1. /\ pypi' = [byProject |-> building, packages |-> Pip!Packages(building), fresh |-> TRUE]
      /\ pyLock' = None /\ pyLock # None
      /\ UNCHANGED <<projects, dists, page, changed>>
  BY PipNumbers DEF Pip!StoreIndex
<1>2. /\ DOMAIN pypi' = {"byProject", "packages", "fresh"}
      /\ pypi'.byProject = building /\ pypi'.packages = Pip!Packages(building)
  BY <1>1
<1>3. PipTypes'
  BY <1>1, <1>2 DEF PipInv, PipTypes
<1>4. IndexFits'
  BY <1>1, <1>2, PipSame DEF PipInv, IndexFits
<1> QED
  BY <1>1, <1>3, <1>4, PipSame DEF PipInv

\* Requests, which only read.
LEMMA PipServe ==
    ASSUME PipInv, UNCHANGED <<projects, dists, pypi, pyLock, building, changed>>, page' \subseteq Dists
    PROVE  PipInv'
<1>1. PipTypes'
  BY DEF PipInv, PipTypes
<1>2. IndexFits'
  BY PipSame DEF PipInv, IndexFits
<1> QED
  BY <1>1, <1>2, PipSame DEF PipInv

LEMMA PipStep == ASSUME PipInv, [Pip!Next]_pip PROVE PipInv'
<1>1. CASE UNCHANGED pip
  BY <1>1, PipServe DEF pip, PipInv, PipTypes
<1>2. CASE Pip!Next
  <2>1. ASSUME NEW n \in PyNames, NEW b \in BOOLEAN, Pip!CreateProject(n, b) PROVE PipInv'
    BY <2>1, PipCreate
  <2>2. ASSUME NEW p \in Pip!Projects, Pip!DeleteProject(p) PROVE PipInv'
    BY <2>2, PipDelete, PipNumbers
  <2>3. ASSUME NEW d \in Dists, NEW p \in Pip!Projects, Pip!CompleteRow(d, p) PROVE PipInv'
    BY <2>3, PipComplete, PipNumbers
  <2>4. ASSUME NEW c \in PageClients, NEW n \in PyNames, Pip!GetIndex(c, PyNorm[n]) PROVE PipInv'
    BY <2>4, PipServe DEF Pip!GetIndex, PipInv, PipTypes
  <2>5. ASSUME NEW c \in PageClients, Pip!ServeProjectIndex(c) PROVE PipInv'
    BY <2>5, PipServe DEF Pip!ServeProjectIndex, Pip!Listed, Pip!ListComplete
  <2> QED
    BY <1>2, <2>1, <2>2, <2>3, <2>4, <2>5, PipExpire, PipBuild, PipStore DEF Pip!Next
<1> QED
  BY <1>1, <1>2

LEMMA PipPages == ASSUME PipInv PROVE Pip!TypeOK /\ Pip!PagesRight
<1>1. Pip!TypeOK
  BY PipNumbers DEF PipInv, PipTypes, Pip!TypeOK
<1>2. ASSUME pypi # None, pyLock = None, ~changed
      PROVE  /\ \A n \in pypi.packages : Pip!Listed(pypi, n) # {}
             /\ \A d \in Pip!ListComplete :
                    projects[dists[d]].pypi => d \in Pip!Listed(pypi, PyNorm[projects[dists[d]].name])
  <2>1. pypi.byProject = ByProject /\ pypi.packages = Pip!Packages(ByProject)
    BY <1>2 DEF PipInv, IndexFits
  <2>2. ASSUME NEW n \in pypi.packages PROVE Pip!Listed(pypi, n) # {}
    <3>1. PICK d \in Pip!ListComplete : dists[d] \in DOMAIN ByProject /\ ByProject[dists[d]] = n
      BY <2>1, <2>2 DEF Pip!Packages
    <3>2. d \in Pip!Listed(pypi, n)
      BY <2>1, <2>2, <3>1 DEF Pip!Listed
    <3> QED
      BY <3>2
  <2>3. ASSUME NEW d \in Pip!ListComplete, projects[dists[d]].pypi
        PROVE  d \in Pip!Listed(pypi, PyNorm[projects[dists[d]].name])
    <3>1. d \in Dists /\ dists[d] \in PipProjects /\ Pip!Live(dists[d])
      BY DEF Pip!ListComplete, PipInv, PipTypes, DistsLive
    <3>2. dists[d] \in DOMAIN ByProject /\ ByProject[dists[d]] = PyNorm[projects[dists[d]].name]
      BY <2>3, <3>1 DEF ByProject
    <3>3. ByProject[dists[d]] \in Pip!Packages(ByProject)
      BY <3>2 DEF Pip!Packages
    <3> QED
      BY <2>1, <3>2, <3>3 DEF Pip!Listed
  <2> QED
    BY <2>2, <2>3
<1>3. Pip!PagesRight
  BY <1>2 DEF Pip!PagesRight
<1> QED
  BY <1>1, <1>3

-----------------------------------------------------------------------------
(* The index of the APT repository. *)

AptFile == [mtime : 1..MaxMtime, info : Archs \cup {Broken}]
AptMemo == [mtime : 1..MaxMtime, info : Archs]
AptRequest ==
    [pc : {"idle", "sig", "lock", "parse", "read"}, debs : SUBSET Debs, todo : SUBSET Debs,
     sig : SUBSET (Debs \X Nat), entries : SUBSET (Debs \X Archs), seen : Nat]

AptTypes ==
    /\ complete \cup deleted \subseteq Debs
    /\ debs \in [Debs -> AptFile \cup {None}]
    /\ debMemo \in [Debs -> AptMemo \cup {None}]
    /\ time \in 0..MaxMtime
    /\ lock \in Clients \cup {None}
    /\ aptReq \in [Clients -> AptRequest]

\* No file is younger than the last modification time given, and what is remembered of one
\* is of a time given too: while the time of the file is that, so is its control file.
MemoRight ==
    \A f \in Debs :
        /\ debs[f] # None => debs[f].mtime <= time
        /\ debMemo[f] # None =>
               /\ debMemo[f].mtime <= time
               /\ debs[f] # None /\ debs[f].mtime = debMemo[f].mtime => debs[f].info = debMemo[f].info

\* A signature has a time given for each file of D, and for no other.
SigOf(sig, D) ==
    /\ sig \subseteq D \X (0..time)
    /\ \A f \in D : \E m : <<f, m>> \in sig

\* Entries are those of the files of D that the signature still fits.
EntriesOf(sig, E, D) ==
    /\ E \subseteq D \X Archs
    /\ \A f \in D : debs[f] # None /\ <<f, debs[f].mtime>> \in sig =>
                        \A i \in Archs : <<f, i>> \in E <=> i = debs[f].info

RequestRight(r) ==
    /\ r.todo \subseteq r.debs
    /\ SigOf(r.sig, IF r.pc = "sig" THEN r.debs \ r.todo ELSE r.debs)
    /\ r.pc \notin {"parse", "read"} => r.entries = {}
    /\ r.pc \in {"parse", "read"} => EntriesOf(r.sig, r.entries, r.debs \ r.todo)
    /\ r.pc = "read" => r.todo # {} /\ r.seen \in 1..time

CacheRight ==
    aptCache # None =>
        \E D \in SUBSET Debs, E \in SUBSET (Debs \X Archs) :
            /\ SigOf(aptCache.sig, D)
            /\ EntriesOf(aptCache.sig, E, D)
            /\ aptCache.files = Apt!GenerateRepo(E)

AptInv ==
    /\ AptTypes /\ MemoRight /\ CacheRight
    /\ \A c \in Clients : RequestRight(aptReq[c])

LEMMA AptNumbers ==
    /\ Debs \subseteq Nat
    /\ "all" \in Archs /\ Broken \notin Archs
    /\ MaxMtime \in Nat
  BY FileAccessAssumption DEF Apt!Constants

LEMMA AptIdle == Apt!Idle \in AptRequest /\ RequestRight(Apt!Idle)
  BY DEF Apt!Idle, AptRequest, RequestRight, SigOf

LEMMA AptInit == ASSUME Apt!Init PROVE AptInv
<1>1. AptTypes
  BY AptIdle, AptNumbers DEF Apt!Init, AptTypes
<1>2. MemoRight /\ CacheRight
  BY DEF Apt!Init, MemoRight, CacheRight
<1>3. ASSUME NEW c \in Clients PROVE RequestRight(aptReq[c])
  <2>1. aptReq[c] = Apt!Idle
    BY DEF Apt!Init
  <2> QED
    BY <2>1, AptIdle
<1> QED
  BY <1>1, <1>2, <1>3 DEF AptInv

\* A set of ids has a first one.
LEMMA FirstIn == ASSUME NEW S \in SUBSET Debs, S # {} PROVE Apt!First(S) \in S
<1>1. S \subseteq Nat
  BY AptNumbers
<1>2. PICK m \in S : \A y \in S : ~(<<y, m>> \in OpToRel(<, Nat))
  BY <1>1, NatLessThanWellFounded, WFMin, Zenon
<1>3. \A y \in S : ~(y < m)
  BY <1>1, <1>2 DEF OpToRel
<1>4. \A y \in S : m <= y
  BY <1>1, <1>3
<1> QED
  BY <1>4, Zenon DEF Apt!First

\* What was right stays right when a file changes, as its time is then a later one.
LEMMA FileChanges ==
    ASSUME AptInv, time' \in time..MaxMtime, debs' \in [Debs -> AptFile \cup {None}],
           \A f \in Debs : \/ debs'[f] = debs[f]
                           \/ debs'[f] = None
                           \/ debs'[f].mtime \in (time + 1)..time',
           complete' \cup deleted' \subseteq Debs,
           UNCHANGED <<aptCache, debMemo, lock, aptReq>>
    PROVE  AptInv'
<1>0. time \in Nat /\ time' \in Nat /\ MaxMtime \in Nat
  BY AptNumbers DEF AptInv, AptTypes
<1>1. AptTypes'
  BY <1>0 DEF AptInv, AptTypes
<1>2. MemoRight'
  <2> SUFFICES ASSUME NEW f \in Debs
               PROVE  /\ debs'[f] # None => debs'[f].mtime <= time'
                      /\ debMemo[f] # None =>
                             /\ debMemo[f].mtime <= time'
                             /\ debs'[f] # None /\ debs'[f].mtime = debMemo[f].mtime =>
                                    debs'[f].info = debMemo[f].info
    BY DEF MemoRight
  <2>0. /\ debs[f] # None => debs[f].mtime <= time /\ debs[f].mtime \in Nat
        /\ debMemo[f] # None => debMemo[f].mtime <= time /\ debMemo[f].mtime \in Nat
    BY DEF AptInv, AptTypes, MemoRight, AptFile, AptMemo
  <2>1. CASE debs'[f] = debs[f]
    BY <1>0, <2>0, <2>1 DEF AptInv, MemoRight
  <2>2. CASE debs'[f] = None
    BY <1>0, <2>0, <2>2
  <2>3. CASE debs'[f].mtime \in (time + 1)..time'
    BY <1>0, <2>0, <2>3
  <2> QED
    BY <2>1, <2>2, <2>3
<1>3. ASSUME NEW sig, NEW D, SigOf(sig, D) PROVE SigOf(sig, D)'
  <2>1. 0..time \subseteq 0..time'
    BY <1>0
  <2>2. D \X (0..time) \subseteq D \X (0..time')
    BY <2>1
  <2> QED
    BY <1>3, <2>2 DEF SigOf
<1>4. ASSUME NEW sig, NEW D \in SUBSET Debs, NEW D2 \in SUBSET Debs, NEW E,
             SigOf(sig, D2), EntriesOf(sig, E, D)
      PROVE  EntriesOf(sig, E, D)'
  <2> SUFFICES ASSUME NEW f \in D, debs'[f] # None, <<f, debs'[f].mtime>> \in sig,
                      NEW i \in Archs
               PROVE  <<f, i>> \in E <=> i = debs'[f].info
    BY <1>4 DEF EntriesOf
  <2>1. debs'[f].mtime \in 0..time
    BY <1>4 DEF SigOf
  <2>2. debs'[f] = debs[f]
    BY <1>0, <2>1
  <2> QED
    BY <1>4, <2>2 DEF EntriesOf
<1>5. CacheRight'
  <2> SUFFICES ASSUME aptCache # None
               PROVE  \E D \in SUBSET Debs, E \in SUBSET (Debs \X Archs) :
                          /\ SigOf(aptCache.sig, D)'
                          /\ EntriesOf(aptCache.sig, E, D)'
                          /\ aptCache.files = Apt!GenerateRepo(E)
    BY DEF CacheRight, Apt!GenerateRepo, Apt!ArchsOf, Apt!FilterByArch
  <2>1. PICK D \in SUBSET Debs, E \in SUBSET (Debs \X Archs) :
            /\ SigOf(aptCache.sig, D)
            /\ EntriesOf(aptCache.sig, E, D)
            /\ aptCache.files = Apt!GenerateRepo(E)
    BY DEF AptInv, CacheRight
  <2>2. SigOf(aptCache.sig, D)'
    BY <1>3, <2>1 DEF SigOf
  <2>3. EntriesOf(aptCache.sig, E, D)'
    BY <1>4, <2>1 DEF EntriesOf
  <2> QED
    BY <2>1, <2>2, <2>3
<1>6. ASSUME NEW c \in Clients PROVE RequestRight(aptReq[c])'
  <2>1. PICK r \in AptRequest : r = aptReq[c]
    BY DEF AptInv, AptTypes
  <2>2. RequestRight(r)
    BY <2>1 DEF AptInv
  <2>3. r.debs \in SUBSET Debs /\ r.debs \ r.todo \in SUBSET Debs
    BY DEF AptRequest
  <2>4. PICK D \in SUBSET Debs : D = IF r.pc = "sig" THEN r.debs \ r.todo ELSE r.debs
    BY <2>3
  <2>5. SigOf(r.sig, D)
    BY <2>2, <2>4 DEF RequestRight
  <2>6. SigOf(r.sig, D)'
    BY <1>3, <2>5
  <2>7. r.pc \in {"parse", "read"} => EntriesOf(r.sig, r.entries, r.debs \ r.todo)'
    BY <1>4, <2>2, <2>3, <2>5 DEF RequestRight
  <2>8. r.pc = "read" => r.seen \in 1..time'
    BY <1>0, <2>2 DEF RequestRight
  <2> QED
    BY <2>1, <2>2, <2>4, <2>6, <2>7, <2>8 DEF RequestRight
<1> QED
  BY <1>1, <1>2, <1>5, <1>6 DEF AptInv

\* A step of one request, which leaves the files and the time alone.
LEMMA RequestMoves ==
    ASSUME AptInv, NEW c \in Clients, NEW r \in AptRequest,
           aptReq' = [aptReq EXCEPT ![c] = r], RequestRight(r),
           debMemo' \in [Debs -> AptMemo \cup {None}], MemoRight', CacheRight',
           lock' \in Clients \cup {None},
           UNCHANGED <<complete, deleted, debs, time>>
    PROVE  AptInv'
<1>1. AptTypes'
  BY DEF AptInv, AptTypes
<1>2. ASSUME NEW d \in Clients PROVE RequestRight(aptReq[d])'
  <2>1. PICK q : q = aptReq'[d]
    OBVIOUS
  <2>2. RequestRight(q)
    BY <2>1 DEF AptInv, AptTypes
  <2> QED
    BY <2>1, <2>2 DEF RequestRight, SigOf, EntriesOf
<1> QED
  BY <1>1, <1>2 DEF AptInv

LEMMA MemoStays == ASSUME AptInv, UNCHANGED <<debs, time, debMemo>> PROVE MemoRight'
  BY DEF AptInv, MemoRight

LEMMA CacheStays == ASSUME AptInv, UNCHANGED <<debs, time, aptCache>> PROVE CacheRight'
<1> SUFFICES ASSUME aptCache # None
             PROVE  \E D \in SUBSET Debs, E \in SUBSET (Debs \X Archs) :
                        /\ SigOf(aptCache.sig, D)'
                        /\ EntriesOf(aptCache.sig, E, D)'
                        /\ aptCache.files = Apt!GenerateRepo(E)
  BY DEF CacheRight, Apt!GenerateRepo, Apt!ArchsOf, Apt!FilterByArch
<1>1. PICK D \in SUBSET Debs, E \in SUBSET (Debs \X Archs) :
          /\ SigOf(aptCache.sig, D)
          /\ EntriesOf(aptCache.sig, E, D)
          /\ aptCache.files = Apt!GenerateRepo(E)
  BY DEF AptInv, CacheRight
<1>2. SigOf(aptCache.sig, D)' /\ EntriesOf(aptCache.sig, E, D)'
  BY <1>1 DEF SigOf, EntriesOf
<1> QED
  BY <1>1, <1>2

\* ... and the rest as well, but for who holds the lock.
LEMMA RequestSteps ==
    ASSUME AptInv, NEW c \in Clients, NEW r \in AptRequest,
           aptReq' = [aptReq EXCEPT ![c] = r], RequestRight(r),
           lock' \in Clients \cup {None},
           UNCHANGED <<complete, deleted, debs, time, aptCache, debMemo>>
    PROVE  AptInv'
<1>1. debMemo' \in [Debs -> AptMemo \cup {None}]
  BY DEF AptInv, AptTypes
<1>2. MemoRight' /\ CacheRight'
  BY MemoStays, CacheStays
<1> QED
  BY <1>1, <1>2, RequestMoves

LEMMA AptServe == ASSUME AptInv, NEW c \in Clients, Apt!Serve(c) PROVE AptInv'
<1>1. PICK r : r = [Apt!Idle EXCEPT !.pc = "sig", !.debs = complete, !.todo = complete]
  OBVIOUS
<1>2. /\ r.pc = "sig" /\ r.debs = complete /\ r.todo = complete
      /\ r.sig = {} /\ r.entries = {}
  BY <1>1 DEF Apt!Idle
<1>3. r \in AptRequest
  BY <1>1 DEF Apt!Idle, AptRequest, AptInv, AptTypes
<1>4. SigOf(r.sig, r.debs \ r.todo)
  BY <1>2 DEF SigOf
<1>5. RequestRight(r)
  BY <1>2, <1>4 DEF RequestRight
<1> QED
  BY <1>1, <1>3, <1>5, RequestSteps DEF Apt!Serve, AptInv, AptTypes

LEMMA AptSignature == ASSUME AptInv, NEW c \in Clients, Apt!DebSignature(c) PROVE AptInv'
<1>1. PICK r \in AptRequest : r = aptReq[c]
  BY DEF AptInv, AptTypes
<1>2. r.pc = "sig" /\ r.todo # {} /\ RequestRight(r)
  BY <1>1 DEF Apt!DebSignature, AptInv
<1>3. PICK f : f = Apt!First(r.todo)
  OBVIOUS
<1>4. f \in r.todo /\ f \in Debs /\ f \in r.debs
  BY <1>2, <1>3, FirstIn DEF AptRequest, RequestRight
<1>5. SigOf(r.sig, r.debs \ r.todo) /\ r.entries = {} /\ r.todo \subseteq r.debs
  BY <1>2 DEF RequestRight
<1>6. time \in Nat
  BY AptNumbers DEF AptInv, AptTypes
<1>7. PICK q : q = IF debs[f] = None
                     THEN [r EXCEPT !.todo = {}, !.sig = Apt!NoMtime(r.debs)]
                     ELSE [r EXCEPT !.todo = r.todo \ {f}, !.sig = r.sig \cup {Apt!Stamp(f)}]
  OBVIOUS
<1>8. q \in AptRequest /\ RequestRight(q)
  <2>1. CASE debs[f] = None
    <3>1. /\ q.pc = "sig" /\ q.debs = r.debs /\ q.todo = {} /\ q.entries = {}
          /\ q.sig = {<<g, 0>> : g \in r.debs}
      BY <1>2, <1>5, <1>7, <2>1 DEF AptRequest, Apt!NoMtime
    <3>2. {<<g, 0>> : g \in r.debs} \in SUBSET (Debs \X Nat)
      BY DEF AptRequest
    <3>3. q \in AptRequest
      BY <1>7, <2>1, <3>2, ZenonT(30) DEF AptRequest, Apt!NoMtime
    <3>4. SigOf(q.sig, r.debs)
      BY <1>6, <3>1 DEF SigOf
    <3>5. q.debs \ q.todo = r.debs
      BY <3>1
    <3> QED
      BY <3>1, <3>3, <3>4, <3>5 DEF RequestRight
  <2>2. CASE debs[f] # None
    <3>0. debs[f].mtime \in 0..time /\ Apt!Stamp(f) = <<f, debs[f].mtime>>
      BY <1>4, <1>6, <2>2 DEF AptInv, AptTypes, MemoRight, AptFile, Apt!Stamp
    <3>1. /\ q.pc = "sig" /\ q.debs = r.debs /\ q.todo = r.todo \ {f} /\ q.entries = {}
          /\ q.sig = r.sig \cup {<<f, debs[f].mtime>>}
      BY <1>2, <1>5, <1>7, <2>2, <3>0 DEF AptRequest
    <3>2. r.sig \cup {<<f, debs[f].mtime>>} \in SUBSET (Debs \X Nat)
      BY <1>4, <3>0 DEF AptRequest
    <3>3. q \in AptRequest
      BY <1>7, <2>2, <3>0, <3>2 DEF AptRequest
    <3>4. q.debs \ q.todo = (r.debs \ r.todo) \cup {f}
      BY <1>4, <3>1
    <3>5. SigOf(q.sig, (r.debs \ r.todo) \cup {f})
      <4>1. \A g \in (r.debs \ r.todo) \cup {f} : \E m : <<g, m>> \in q.sig
        BY <1>5, <3>1 DEF SigOf
      <4>2. <<f, debs[f].mtime>> \in ((r.debs \ r.todo) \cup {f}) \X (0..time)
        BY <3>0
      <4>3. r.sig \subseteq (r.debs \ r.todo) \X (0..time)
        BY <1>5 DEF SigOf
      <4>4. (r.debs \ r.todo) \X (0..time) \subseteq ((r.debs \ r.todo) \cup {f}) \X (0..time)
        OBVIOUS
      <4> QED
        BY <3>1, <4>1, <4>2, <4>3, <4>4 DEF SigOf
    <3> QED
      BY <1>5, <3>1, <3>3, <3>4, <3>5 DEF RequestRight
  <2> QED
    BY <2>1, <2>2
<1>9. aptReq' = [aptReq EXCEPT ![c] = q]
  BY <1>1, <1>3, <1>7 DEF Apt!DebSignature
<1> QED
  BY <1>8, <1>9, RequestSteps DEF Apt!DebSignature, AptInv, AptTypes

LEMMA AptRepoFiles == ASSUME AptInv, NEW c \in Clients, Apt!RepoFiles(c) PROVE AptInv'
<1>1. PICK r \in AptRequest : r = aptReq[c]
  BY DEF AptInv, AptTypes
<1>2. r.pc = "sig" /\ r.todo = {} /\ RequestRight(r)
  BY <1>1 DEF Apt!RepoFiles, AptInv
<1>3. PICK q : q = IF Apt!Hit(c) THEN Apt!Idle ELSE [r EXCEPT !.pc = "lock"]
  OBVIOUS
<1>4. aptReq' = [aptReq EXCEPT ![c] = q]
  BY <1>1, <1>3 DEF Apt!RepoFiles, AptInv, AptTypes
<1>5. q \in AptRequest /\ RequestRight(q)
  <2>1. CASE Apt!Hit(c)
    BY <1>3, <2>1, AptIdle
  <2>2. CASE ~Apt!Hit(c)
    <3>1. q \in AptRequest
      BY <1>3, <2>2 DEF AptRequest
    <3>2. /\ q.pc = "lock" /\ q.debs = r.debs /\ q.todo = {} /\ q.sig = r.sig /\ q.entries = r.entries
      BY <1>2, <1>3, <2>2 DEF AptRequest
    <3>3. SigOf(r.sig, r.debs \ r.todo) /\ r.entries = {} /\ r.debs \ r.todo = r.debs
      BY <1>2 DEF RequestRight
    <3> QED
      BY <3>1, <3>2, <3>3 DEF RequestRight
  <2> QED
    BY <2>1, <2>2
<1> QED
  BY <1>4, <1>5, RequestSteps DEF Apt!RepoFiles, AptInv, AptTypes

LEMMA AptRecheck == ASSUME AptInv, NEW c \in Clients, Apt!Recheck(c) PROVE AptInv'
<1>1. PICK r \in AptRequest : r = aptReq[c]
  BY DEF AptInv, AptTypes
<1>2. r.pc = "lock" /\ RequestRight(r)
  BY <1>1 DEF Apt!Recheck, AptInv
<1>3. CASE Apt!Hit(c)
  BY <1>3, AptIdle, RequestSteps DEF Apt!Recheck, AptInv, AptTypes
<1>4. CASE ~Apt!Hit(c)
  <2>1. PICK q : q = [r EXCEPT !.pc = "parse", !.todo = r.debs]
    OBVIOUS
  <2>2. aptReq' = [aptReq EXCEPT ![c] = q]
    BY <1>1, <1>4, <2>1 DEF Apt!Recheck, AptInv, AptTypes
  <2>3. q \in AptRequest
    BY <2>1 DEF AptRequest
  <2>4. q.pc = "parse" /\ q.debs = r.debs /\ q.todo = r.debs /\ q.sig = r.sig /\ q.entries = r.entries
    BY <2>1 DEF AptRequest
  <2>5. SigOf(r.sig, r.debs) /\ r.entries = {}
    BY <1>2 DEF RequestRight
  <2>6. EntriesOf(q.sig, q.entries, q.debs \ q.todo)
    BY <2>4, <2>5 DEF EntriesOf
  <2>7. RequestRight(q)
    BY <2>4, <2>5, <2>6 DEF RequestRight
  <2> QED
    BY <1>4, <2>2, <2>3, <2>7, RequestSteps DEF Apt!Recheck
<1> QED
  BY <1>3, <1>4

\* A file of which nothing is listed yet is listed with its control file, or with none if
\* it is gone or broken.
LEMMA EntryAdded ==
    ASSUME AptInv, NEW sig, NEW D \in SUBSET Debs, NEW E, EntriesOf(sig, E, D),
           NEW f \in Debs \ D, NEW E2,
           \/ E2 = E /\ (debs[f] = None \/ debs[f].info = Broken)
           \/ debs[f] # None /\ debs[f].info \in Archs /\ E2 = E \cup {<<f, debs[f].info>>}
    PROVE  EntriesOf(sig, E2, D \cup {f})
<1>1. \A i : <<f, i>> \notin E
  BY DEF EntriesOf
<1>2. E \subseteq (D \cup {f}) \X Archs
  BY DEF EntriesOf
<1>3. E2 \subseteq (D \cup {f}) \X Archs
  BY <1>2
<1>4. ASSUME NEW g \in D \cup {f}, debs[g] # None, <<g, debs[g].mtime>> \in sig, NEW i \in Archs
      PROVE  <<g, i>> \in E2 <=> i = debs[g].info
  <2>1. CASE g # f
    <3>1. <<g, i>> \in E2 <=> <<g, i>> \in E
      BY <2>1
    <3> QED
      BY <1>4, <2>1, <3>1 DEF EntriesOf
  <2>2. CASE g = f
    BY <1>1, <1>4, <2>2, AptNumbers
  <2> QED
    BY <2>1, <2>2
<1> QED
  BY <1>3, <1>4 DEF EntriesOf

\* A request that has done with a file.
LEMMA FileDone ==
    ASSUME AptInv, NEW r \in AptRequest, RequestRight(r), r.pc \in {"parse", "read"},
           NEW f \in r.todo, NEW q \in AptRequest,
           q.pc = "parse", q.debs = r.debs, q.todo = r.todo \ {f}, q.sig = r.sig,
           \/ q.entries = r.entries /\ (debs[f] = None \/ debs[f].info = Broken)
           \/ /\ debs[f] # None /\ debs[f].info \in Archs
              /\ q.entries = r.entries \cup {<<f, debs[f].info>>}
    PROVE  RequestRight(q)
<1>1. /\ r.todo \subseteq r.debs /\ SigOf(r.sig, r.debs)
      /\ EntriesOf(r.sig, r.entries, r.debs \ r.todo)
  BY DEF RequestRight
<1>2. r.debs \ r.todo \in SUBSET Debs /\ f \in Debs \ (r.debs \ r.todo)
  BY DEF AptRequest
<1>3. EntriesOf(r.sig, q.entries, (r.debs \ r.todo) \cup {f})
  BY <1>1, <1>2, EntryAdded
<1>4. q.debs \ q.todo = (r.debs \ r.todo) \cup {f}
  BY <1>1
<1> QED
  BY <1>1, <1>3, <1>4 DEF RequestRight

LEMMA AptStat == ASSUME AptInv, NEW c \in Clients, Apt!Stat(c) PROVE AptInv'
<1>1. PICK r \in AptRequest : r = aptReq[c]
  BY DEF AptInv, AptTypes
<1>2. r.pc = "parse" /\ r.todo # {} /\ RequestRight(r)
  BY <1>1 DEF Apt!Stat, AptInv
<1>3. PICK f : f = Apt!First(r.todo)
  OBVIOUS
<1>4. f \in r.todo /\ f \in Debs
  BY <1>2, <1>3, FirstIn DEF AptRequest
<1>5. /\ debs[f] # None => debs[f] \in AptFile /\ debs[f].mtime \in 1..time /\ debs[f].mtime \in Nat
      /\ debMemo[f] # None => debMemo[f] \in AptMemo
  BY <1>4, AptNumbers DEF AptInv, AptTypes, MemoRight, AptFile
<1>6. PICK q : q =
          CASE debs[f] = None -> [r EXCEPT !.todo = @ \ {f}]
            [] debs[f] # None /\ debMemo[f] # None /\ debMemo[f].mtime = debs[f].mtime ->
                  [r EXCEPT !.todo = @ \ {f}, !.entries = @ \cup {<<f, debMemo[f].info>>}]
            [] OTHER -> [r EXCEPT !.pc = "read", !.seen = debs[f].mtime]
  OBVIOUS
<1>7. aptReq' = [aptReq EXCEPT ![c] = q]
  BY <1>1, <1>3, <1>6 DEF Apt!Stat
<1>8. q \in AptRequest /\ RequestRight(q)
  <2>1. CASE debs[f] = None
    <3>1. q = [r EXCEPT !.todo = @ \ {f}]
      BY <1>6, <2>1
    <3>2. q \in AptRequest
      BY <3>1 DEF AptRequest
    <3>3. /\ q.pc = "parse" /\ q.debs = r.debs /\ q.todo = r.todo \ {f} /\ q.sig = r.sig
          /\ q.entries = r.entries
      BY <1>2, <3>1 DEF AptRequest
    <3> QED
      BY <1>2, <1>4, <2>1, <3>2, <3>3, FileDone
  <2>2. CASE debs[f] # None /\ debMemo[f] # None /\ debMemo[f].mtime = debs[f].mtime
    <3>1. q = [r EXCEPT !.todo = @ \ {f}, !.entries = @ \cup {<<f, debMemo[f].info>>}]
      BY <1>6, <2>2
    <3>2. debMemo[f].info = debs[f].info /\ debs[f].info \in Archs
      BY <1>4, <1>5, <2>2 DEF AptInv, MemoRight, AptMemo
    <3>3. r.entries \cup {<<f, debs[f].info>>} \in SUBSET (Debs \X Archs)
      BY <1>4, <3>2 DEF AptRequest
    <3>4. q \in AptRequest
      BY <3>1, <3>2, <3>3 DEF AptRequest
    <3>5. /\ q.pc = "parse" /\ q.debs = r.debs /\ q.todo = r.todo \ {f} /\ q.sig = r.sig
          /\ q.entries = r.entries \cup {<<f, debs[f].info>>}
      BY <1>2, <3>1, <3>2 DEF AptRequest
    <3> QED
      BY <1>2, <1>4, <2>2, <3>2, <3>4, <3>5, FileDone
  <2>3. CASE debs[f] # None /\ ~(debMemo[f] # None /\ debMemo[f].mtime = debs[f].mtime)
    <3>1. q = [r EXCEPT !.pc = "read", !.seen = debs[f].mtime]
      BY <1>6, <2>3
    <3>2. q \in AptRequest
      BY <1>5, <2>3, <3>1 DEF AptRequest
    <3>3. /\ q.pc = "read" /\ q.debs = r.debs /\ q.todo = r.todo /\ q.sig = r.sig
          /\ q.entries = r.entries /\ q.seen = debs[f].mtime
      BY <3>1 DEF AptRequest
    <3> QED
      <4>1. q.debs \ q.todo = r.debs \ r.todo
        BY <3>3
      <4> QED
        BY <1>2, <1>5, <2>3, <3>2, <3>3, <4>1, SMTT(40) DEF RequestRight
  <2> QED
    BY <2>1, <2>2, <2>3
<1> QED
  BY <1>7, <1>8, RequestSteps DEF Apt!Stat, AptInv, AptTypes

LEMMA AptRead == ASSUME AptInv, NEW c \in Clients, Apt!Read(c) PROVE AptInv'
<1>1. PICK r \in AptRequest : r = aptReq[c]
  BY DEF AptInv, AptTypes
<1>2. r.pc = "read" /\ RequestRight(r) /\ r.todo # {} /\ r.seen \in 1..time
  BY <1>1 DEF Apt!Read, AptInv, RequestRight
<1>3. PICK f : f = Apt!First(r.todo)
  OBVIOUS
<1>4. f \in r.todo /\ f \in Debs
  BY <1>2, <1>3, FirstIn DEF AptRequest
<1>5. debs[f] # None => debs[f] \in AptFile
  BY <1>4 DEF AptInv, AptTypes
<1>6. CASE Apt!ParseDeb(f) = Broken
  <2>1. debs[f] = None \/ debs[f].info = Broken
    BY <1>6 DEF Apt!ParseDeb
  <2>2. PICK q : q = [r EXCEPT !.pc = "parse", !.todo = @ \ {f}]
    OBVIOUS
  <2>3. aptReq' = [aptReq EXCEPT ![c] = q] /\ debMemo' = debMemo
    BY <1>1, <1>3, <1>6, <2>2 DEF Apt!Read
  <2>4. q \in AptRequest
    BY <2>2 DEF AptRequest
  <2>5. /\ q.pc = "parse" /\ q.debs = r.debs /\ q.todo = r.todo \ {f} /\ q.sig = r.sig
        /\ q.entries = r.entries
    BY <2>2 DEF AptRequest
  <2>6. RequestRight(q)
    BY <1>2, <1>4, <2>1, <2>4, <2>5, FileDone
  <2> QED
    BY <2>3, <2>4, <2>6, RequestSteps DEF Apt!Read, AptInv, AptTypes
<1>7. CASE Apt!ParseDeb(f) # Broken
  <2>1. debs[f] # None /\ Apt!ParseDeb(f) = debs[f].info /\ debs[f].info \in Archs
    BY <1>5, <1>7 DEF Apt!ParseDeb, AptFile
  <2>2. PICK q : q = [r EXCEPT !.pc = "parse", !.todo = @ \ {f},
                               !.entries = @ \cup {<<f, Apt!ParseDeb(f)>>}]
    OBVIOUS
  <2>3. aptReq' = [aptReq EXCEPT ![c] = q]
    BY <1>1, <1>3, <1>7, <2>2 DEF Apt!Read
  <2>4. r.entries \cup {<<f, debs[f].info>>} \in SUBSET (Debs \X Archs)
    BY <1>4, <2>1 DEF AptRequest
  <2>5. q \in AptRequest
    BY <2>1, <2>2, <2>4 DEF AptRequest
  <2>6. /\ q.pc = "parse" /\ q.debs = r.debs /\ q.todo = r.todo \ {f} /\ q.sig = r.sig
        /\ q.entries = r.entries \cup {<<f, debs[f].info>>}
    BY <2>1, <2>2 DEF AptRequest
  <2>7. RequestRight(q)
    BY <1>2, <1>4, <2>1, <2>5, <2>6, FileDone
  <2>8. PICK m : m = [mtime |-> r.seen, info |-> debs[f].info]
    OBVIOUS
  <2>9. m \in AptMemo /\ m.mtime = r.seen /\ m.info = debs[f].info
    BY <1>2, <2>1, <2>8, AptNumbers DEF AptInv, AptTypes, AptMemo
  <2>10. debMemo' = [debMemo EXCEPT ![f] = m] /\ UNCHANGED <<complete, deleted, debs, time, aptCache, lock>>
    BY <1>1, <1>3, <1>7, <2>1, <2>8 DEF Apt!Read
  <2>11. debMemo' \in [Debs -> AptMemo \cup {None}]
    BY <2>9, <2>10 DEF AptInv, AptTypes
  <2>12. MemoRight'
    <3>1. r.seen <= time
      BY <1>2, AptNumbers DEF AptInv, AptTypes
    <3>2. debMemo'[f] = m /\ \A g \in Debs : g # f => debMemo'[g] = debMemo[g]
      BY <1>4, <2>10 DEF AptInv, AptTypes
    <3> QED
      BY <2>9, <2>10, <3>1, <3>2 DEF AptInv, MemoRight
  <2> QED
    BY <2>3, <2>5, <2>7, <2>10, <2>11, <2>12, CacheStays, RequestMoves DEF AptInv, AptTypes
<1> QED
  BY <1>6, <1>7

LEMMA AptStore == ASSUME AptInv, NEW c \in Clients, Apt!Store(c) PROVE AptInv'
<1>1. PICK r \in AptRequest : r = aptReq[c]
  BY DEF AptInv, AptTypes
<1>2. r.pc = "parse" /\ r.todo = {} /\ RequestRight(r)
  BY <1>1 DEF Apt!Store, AptInv
<1>3. r.debs \ r.todo = r.debs
  BY <1>2
<1>4. /\ r.debs \in SUBSET Debs /\ r.entries \in SUBSET (Debs \X Archs)
      /\ SigOf(r.sig, r.debs) /\ EntriesOf(r.sig, r.entries, r.debs)
  BY <1>2, <1>3 DEF RequestRight, AptRequest
<1>5. /\ aptCache'.sig = r.sig /\ aptCache'.files = Apt!GenerateRepo(r.entries)
      /\ UNCHANGED <<complete, deleted, debs, time, debMemo>>
  BY <1>1 DEF Apt!Store
<1>6. CacheRight'
  <2> SUFFICES \E D \in SUBSET Debs, E \in SUBSET (Debs \X Archs) :
                   /\ SigOf(aptCache.sig, D)'
                   /\ EntriesOf(aptCache.sig, E, D)'
                   /\ aptCache'.files = Apt!GenerateRepo(E)
    BY DEF CacheRight, Apt!GenerateRepo, Apt!ArchsOf, Apt!FilterByArch
  <2>1. PICK D \in SUBSET Debs, E \in SUBSET (Debs \X Archs) : D = r.debs /\ E = r.entries
    BY <1>4
  <2>2. SigOf(aptCache.sig, D)' /\ EntriesOf(aptCache.sig, E, D)'
    BY <1>4, <1>5, <2>1 DEF SigOf, EntriesOf
  <2> QED
    BY <1>5, <2>1, <2>2
<1>7. debMemo' \in [Debs -> AptMemo \cup {None}] /\ MemoRight'
  BY <1>5, MemoStays DEF AptInv, AptTypes
<1> QED
  BY <1>5, <1>6, <1>7, AptIdle, RequestMoves DEF Apt!Store

LEMMA AptStep == ASSUME AptInv, [Apt!Next]_apt PROVE AptInv'
<1>0. time \in Nat /\ MaxMtime \in Nat /\ time \in time..MaxMtime
  BY AptNumbers DEF AptInv, AptTypes
<1>1. CASE UNCHANGED apt
  BY <1>0, <1>1, FileChanges DEF apt, AptInv, AptTypes
<1>2. ASSUME NEW f \in Debs, NEW i \in Archs \cup {Broken}, Apt!WriteFile(f, i) PROVE AptInv'
  <2>1. PICK d : d = [mtime |-> time + 1, info |-> i]
    OBVIOUS
  <2>2. d \in AptFile /\ d.mtime = time + 1
    BY <1>0, <1>2, <2>1 DEF AptFile, Apt!WriteFile
  <2>3. debs' = [debs EXCEPT ![f] = d] /\ time' = time + 1 /\ time' \in time..MaxMtime
    BY <1>0, <1>2, <2>1 DEF Apt!WriteFile
  <2>4. debs' \in [Debs -> AptFile \cup {None}]
    BY <2>2, <2>3 DEF AptInv, AptTypes
  <2>5. \A g \in Debs : debs'[g] = debs[g] \/ debs'[g].mtime \in (time + 1)..time'
    BY <1>0, <2>2, <2>3 DEF AptInv, AptTypes
  <2> QED
    BY <1>2, <2>3, <2>4, <2>5, FileChanges DEF Apt!WriteFile, AptInv, AptTypes
<1>3. ASSUME NEW f \in Debs, Apt!RemoveFile(f) PROVE AptInv'
  <2>1. debs' = [debs EXCEPT ![f] = None]
    BY <1>3 DEF Apt!RemoveFile
  <2>2. debs' \in [Debs -> AptFile \cup {None}]
    BY <2>1 DEF AptInv, AptTypes
  <2>3. \A g \in Debs : debs'[g] = debs[g] \/ debs'[g] = None
    BY <2>1 DEF AptInv, AptTypes
  <2> QED
    BY <1>0, <1>3, <2>2, <2>3, FileChanges DEF Apt!RemoveFile, AptInv, AptTypes
<1>4. ASSUME NEW f \in Debs, Apt!CompleteRow(f) \/ Apt!DeleteRow(f) PROVE AptInv'
  <2>1. /\ complete' \cup deleted' \subseteq Debs
        /\ UNCHANGED <<debs, time, aptCache, debMemo, lock, aptReq>>
    BY <1>4 DEF Apt!CompleteRow, Apt!DeleteRow, AptInv, AptTypes
  <2> QED
    BY <1>0, <2>1, FileChanges DEF AptInv, AptTypes
<1>5. ASSUME NEW c \in Clients, Apt!Request(c) PROVE AptInv'
  BY <1>5, AptServe, AptSignature, AptRepoFiles, AptRecheck, AptStat, AptRead, AptStore DEF Apt!Request
<1> QED
  BY <1>1, <1>2, <1>3, <1>4, <1>5 DEF Apt!Next

\* Between them the Packages files of a repository have every entry, each in the file of its
\* architecture or, for all, in every one.
LEMMA RepoLists ==
    ASSUME NEW E, \A e \in E : e[2] \in Archs
    PROVE  /\ UNION {Apt!GenerateRepo(E)[arch] : arch \in DOMAIN Apt!GenerateRepo(E)} = E
           /\ \A e \in E, arch \in DOMAIN Apt!GenerateRepo(E) :
                  e \in Apt!GenerateRepo(E)[arch] <=> e[2] \in {arch, "all"}
<1>1. PICK repo : repo = Apt!GenerateRepo(E)
  OBVIOUS
<1>2. DOMAIN repo = Apt!ArchsOf(E) /\ \A arch \in Apt!ArchsOf(E) : repo[arch] = Apt!FilterByArch(E, arch)
  BY <1>1 DEF Apt!GenerateRepo
<1>3. \A e \in E, arch \in DOMAIN repo : e \in repo[arch] <=> e[2] \in {arch, "all"}
  BY <1>2 DEF Apt!FilterByArch
<1>4. \A arch \in DOMAIN repo : repo[arch] \subseteq E
  BY <1>2 DEF Apt!FilterByArch
<1>5. PICK Named : Named = {e[2] : e \in E} \ {"all"}
  OBVIOUS
<1>6. Apt!ArchsOf(E) = IF Named = {} THEN {"amd64"} ELSE Named
  BY <1>5 DEF Apt!ArchsOf
<1>7. ASSUME NEW e \in E PROVE \E arch \in DOMAIN repo : e \in repo[arch]
  <2>1. CASE e[2] = "all"
    <3>1. PICK arch : arch \in DOMAIN repo
      BY <1>2, <1>6
    <3> QED
      BY <1>3, <2>1, <3>1
  <2>2. CASE e[2] # "all"
    <3>1. e[2] \in Named
      BY <1>5, <2>2
    <3>2. e[2] \in DOMAIN repo
      BY <1>2, <1>6, <3>1
    <3> QED
      BY <1>3, <3>2
  <2> QED
    BY <2>1, <2>2
<1>8. UNION {repo[arch] : arch \in DOMAIN repo} = E
  BY <1>4, <1>7
<1> QED
  BY <1>1, <1>3, <1>8

LEMMA AptCurrent == ASSUME AptInv PROVE Apt!TypeOK /\ Apt!IndexCurrent
<1>1. Apt!TypeOK
  BY DEF AptInv, AptTypes, Apt!TypeOK, AptFile, AptMemo
<1>2. ASSUME aptCache # None, \A f \in complete : debs[f] # None,
             aptCache.sig = {Apt!Stamp(f) : f \in complete}
      PROVE  /\ UNION {aptCache.files[arch] : arch \in DOMAIN aptCache.files} = Apt!Current
             /\ \A e \in Apt!Current, arch \in DOMAIN aptCache.files :
                    e \in aptCache.files[arch] <=> e[2] \in {arch, "all"}
  <2>1. PICK D \in SUBSET Debs, E \in SUBSET (Debs \X Archs) :
            /\ SigOf(aptCache.sig, D)
            /\ EntriesOf(aptCache.sig, E, D)
            /\ aptCache.files = Apt!GenerateRepo(E)
    BY <1>2 DEF AptInv, CacheRight
  <2>2. \A f \in complete : <<f, debs[f].mtime>> \in aptCache.sig
    BY <1>2 DEF Apt!Stamp
  <2>3. complete \subseteq D
    BY <2>1, <2>2 DEF SigOf
  <2>4. D \subseteq complete
    <3> SUFFICES ASSUME NEW f \in D PROVE f \in complete
      OBVIOUS
    <3>1. PICK m : <<f, m>> \in aptCache.sig
      BY <2>1 DEF SigOf
    <3>2. PICK g \in complete : <<f, m>> = <<g, debs[g].mtime>>
      BY <1>2, <3>1 DEF Apt!Stamp
    <3> QED
      BY <3>2
  <2>5. \A f \in complete, i \in Archs : <<f, i>> \in E <=> i = debs[f].info
    BY <1>2, <2>1, <2>2, <2>3, ZenonT(30) DEF EntriesOf
  <2>6. \A f \in complete : debs[f].info \in Archs <=> debs[f].info # Broken
    BY <1>2, AptNumbers DEF AptInv, AptTypes, AptFile
  <2>7. E \subseteq complete \X Archs
    BY <2>1, <2>3, <2>4 DEF EntriesOf
  <2>8. ASSUME NEW e \in E PROVE e \in Apt!Current
    <3>1. PICK f \in complete, i \in Archs : e = <<f, i>>
      BY <2>7, <2>8
    <3>2. i = debs[f].info /\ i # Broken /\ debs[f] # None
      BY <1>2, <2>5, <2>6, <2>8, <3>1
    <3> QED
      BY <3>1, <3>2 DEF Apt!Current
  <2>9. ASSUME NEW e \in Apt!Current PROVE e \in E
    <3>1. PICK f \in complete : e = <<f, debs[f].info>> /\ debs[f].info # Broken
      BY <2>9 DEF Apt!Current
    <3> QED
      BY <2>5, <2>6, <3>1
  <2>10. E = Apt!Current
    BY <2>8, <2>9
  <2>11. \A e \in E : e[2] \in Archs
    BY <2>7
  <2> QED
    BY <2>1, <2>10, <2>11, RepoLists
<1>3. Apt!IndexCurrent
  BY <1>2 DEF Apt!IndexCurrent
<1> QED
  BY <1>1, <1>3

\* Whatever files, rows and projects change between the reads of a rebuild, and whichever
\* requests rebuild at once, the APT index lists what a rebuild would while its signature
\* fits (repoFiles, debMemo.parse), and the PyPI pages have every distribution until
\* something changes (buildOrGetIndex, serveProjectIndex).
THEOREM IndexesRightAlways == MCSpec => []IndexesRight
<1>1. MCInit => AptInv /\ PipInv
  BY AptInit, PipInit DEF MCInit
<1>2. AptInv /\ PipInv /\ [ShareNext \/ DavNext \/ AptNext \/ PipNext \/ RuleNext \/ LoopNext]_<<focus, share, dav, apt, pip, rule, loops>>
          => (AptInv /\ PipInv)'
  BY StepsOfEach, AptStep, PipStep
<1>3. AptInv /\ PipInv => IndexesRight
  BY AptCurrent, PipPages DEF IndexesRight
<1> QED
  BY <1>1, <1>2, <1>3, PTL DEF MCSpec

(* Lifecycle. *)

StartPcs == {"services", "monitor", "listen", "crawl", "scripts", "catalog", "backup", "notify"}
StopPcs  == {"wait", "http", "https", "cancel", "drain", "stop", "join", "rest", "exited"}
AllLoops == {"retry", "vpath", "disk", "retention", "monitor", "crawl", "scripts", "catalog", "backup"}

\* main is past a server's Shutdown
PastHttp  == pc \in {"https", "cancel", "drain", "stop", "join", "rest", "exited"}
PastHttps == pc \in {"cancel", "drain", "stop", "join", "rest", "exited"}

LifeTypes ==
    /\ TypeOK
    /\ opts \subseteq Options
    /\ pc \in StartPcs \cup StopPcs \cup {"killed"}
    /\ running \subseteq AllLoops
    /\ restores \in 0..MaxRestore /\ asking <= restores
    /\ deadline \in BOOLEAN

\* A server that main has shut down accepts nothing, and has a request under way only
\* after the deadline; the second one is used only if the configuration turns it on.
ServersDown ==
    /\ up \cup busy \subseteq {"http"} \cup (opts \cap {"https"})
    /\ PastHttp => "http" \notin up /\ ("http" \in busy => deadline)
    /\ PastHttps => "https" \notin up /\ ("https" \in busy => deadline)

\* The contexts that main has cancelled by the time it is at a statement.
LoopsTold ==
    /\ pc \in {"drain", "stop", "join", "rest", "exited"} =>
           running \cap {"disk", "retention", "vpath"} \subseteq cancelled
    /\ pc \in {"join", "rest", "exited"} => running \cap {"crawl", "scripts"} \subseteq cancelled
    /\ pc = "exited" => running \cap {"monitor", "catalog", "backup", "retry"} \subseteq cancelled

LifeInv == LifeTypes /\ ServersDown /\ LoopsTold

LEMMA LifeInit == Init => LifeInv
<1> SUFFICES ASSUME Init PROVE LifeInv
  OBVIOUS
<1>1. 0 \in 0..MaxRestore /\ 0 <= 0
  BY LifecycleAssumption, SMT DEF Constants
<1>a. TypeOK
  BY <1>1, SMT DEF Init, TypeOK
<1>b. opts \subseteq Options /\ running \subseteq AllLoops /\ deadline \in BOOLEAN
  BY DEF Init
<1>c. pc \in StartPcs /\ restores \in 0..MaxRestore /\ asking <= restores
  BY <1>1, SMT DEF Init, StartPcs
<1>2. LifeTypes
  BY <1>a, <1>b, <1>c DEF LifeTypes
<1>3. ServersDown /\ LoopsTold
  BY DEF Init, ServersDown, PastHttp, PastHttps, LoopsTold
<1> QED
  BY <1>2, <1>3 DEF LifeInv

\* The steps of starting come before anything is shut down.
LEMMA LifeStart ==
    ASSUME LifeInv, NEW from \in StartPcs, NEW to \in StartPcs \cup {"wait"},
           NEW started \in SUBSET AllLoops, Start(from, to, started)
    PROVE  LifeInv'
<1>1. /\ pc = from /\ pc' = to /\ running' = running \cup started
      /\ UNCHANGED <<opts, cancelled, drain, up, busy, downloads, script, quit, asking, restores, deadline>>
  BY DEF Start, work
<1>2. LifeTypes'
  BY <1>1, SMT DEF LifeInv, LifeTypes, TypeOK, StopPcs
<1>3. ServersDown' /\ LoopsTold'
  BY <1>1, SMT DEF LifeInv, ServersDown, PastHttp, PastHttps, LoopsTold, StartPcs
<1> QED
  BY <1>2, <1>3 DEF LifeInv

LEMMA LifeKilled ==
    ASSUME LifeInv, pc' = "killed", quit' \in 0..1,
           UNCHANGED <<opts, running, cancelled, drain, up, busy, downloads, script, asking, restores, deadline>>
    PROVE  LifeInv'
  BY SMT DEF LifeInv, LifeTypes, TypeOK, ServersDown, PastHttp, PastHttps, LoopsTold

LEMMA LifeStarting == ASSUME LifeInv, Starting PROVE LifeInv'
<1>1. CASE InitServices
  <2>1. PICK started : started = {"retry", "vpath"} \cup (IF "disk" \in opts THEN {"disk"} ELSE {})
                             \cup (IF "registry" \in opts THEN {"retention"} ELSE {})
    OBVIOUS
  <2>2. started \in SUBSET AllLoops
    BY <2>1 DEF AllLoops
  <2> QED
    BY <1>1, <2>1, <2>2, LifeStart DEF InitServices, StartPcs
<1>2. CASE StartMonitor
  BY <1>2, LifeStart DEF StartMonitor, StartPcs, AllLoops
<1>3. ASSUME NEW from \in StartPcs, Fail(from) PROVE LifeInv'
  <2>1. pc' = "killed" /\ UNCHANGED <<opts, running, cancelled, drain, up, busy, downloads, script, quit, asking, restores, deadline>>
    BY <1>3 DEF Fail, work
  <2>2. quit' \in 0..1
    BY <2>1 DEF LifeInv, LifeTypes, TypeOK
  <2> QED
    BY <2>1, <2>2, LifeKilled
<1>4. CASE StartServers
  <2>1. CASE "https" \in opts /\ Fail("listen")
    BY <1>3, <2>1 DEF StartPcs
  <2>2. CASE /\ pc = "listen"
             /\ pc' = "crawl"
             /\ up' = {"http"} \cup (opts \cap {"https"})
             /\ UNCHANGED <<opts, running, cancelled, busy, downloads, drain, script, quit, asking, restores, deadline>>
    <3>1. LifeTypes'
      BY <2>2, SMT DEF LifeInv, LifeTypes, TypeOK, StartPcs, Servers
    <3>2. ServersDown' /\ LoopsTold'
      BY <2>2, SMT DEF LifeInv, ServersDown, PastHttp, PastHttps, LoopsTold
    <3> QED
      BY <3>1, <3>2 DEF LifeInv
  <2> QED
    BY <1>4, <2>1, <2>2 DEF StartServers
<1>5. CASE StartCrawl
  BY <1>3, <1>5, LifeStart DEF StartCrawl, StartPcs, AllLoops
<1>6. CASE StartScripts
  BY <1>6, LifeStart DEF StartScripts, StartPcs, AllLoops
<1>7. CASE StartCatalog
  BY <1>7, LifeStart DEF StartCatalog, StartPcs, AllLoops
<1>8. CASE StartBackup
  <2>1. opts \cap {"backup"} \in SUBSET AllLoops
    BY DEF AllLoops
  <2> QED
    BY <1>8, <2>1, LifeStart DEF StartBackup, StartPcs
<1>9. CASE Notify
  BY <1>9, LifeStart DEF Notify, StartPcs, AllLoops
<1> QED
  BY <1>1, <1>2, <1>4, <1>5, <1>6, <1>7, <1>8, <1>9 DEF Starting

LEMMA LifeMeanwhile == ASSUME LifeInv, Meanwhile PROVE LifeInv'
<1> USE DEF LifeInv
<1>1. ASSUME NEW s \in Servers, RequestStarts(s) \/ RequestEnds(s) PROVE LifeInv'
  <2>1. UNCHANGED <<opts, pc, running, cancelled, drain, up, downloads, script, quit, asking, restores, deadline>>
    BY <1>1 DEF RequestStarts, RequestEnds, main
  <2>2. (s \in up /\ busy' = busy \cup {s}) \/ (busy' = busy \ {s})
    BY <1>1 DEF RequestStarts, RequestEnds
  <2>3. LifeTypes' /\ LoopsTold'
    BY <2>1, <2>2 DEF LifeTypes, TypeOK, LoopsTold
  <2>4. ServersDown'
    BY <2>1, <2>2 DEF ServersDown, PastHttp, PastHttps
  <2> QED
    BY <2>3, <2>4
<1>2. ASSUME NEW s \in Servers, RestoreAsks(s) PROVE LifeInv'
  BY <1>2, LifecycleAssumption, SMT DEF RestoreAsks, main, LifeTypes, TypeOK, LoopsTold, ServersDown, PastHttp, PastHttps, Constants
<1>3. ASSUME NEW s \in Servers, ListenerFails(s) PROVE LifeInv'
  <2>1. pc' = "killed" /\ UNCHANGED <<opts, running, cancelled, drain, up, busy, downloads, script, quit, asking, restores, deadline>>
    BY <1>3 DEF ListenerFails, work
  <2> QED
    BY <2>1, LifeKilled DEF LifeTypes, TypeOK
<1>4. CASE RequestShutdown
  BY <1>4, LifecycleAssumption, SMT DEF RequestShutdown, main, LifeTypes, TypeOK, LoopsTold, ServersDown, PastHttp, PastHttps, Constants
<1>5. CASE Signal
  <2>1. UNCHANGED <<opts, running, cancelled, drain, up, busy, downloads, script, asking, restores, deadline>>
    BY <1>5 DEF Signal
  <2>2. (pc' = "killed" /\ quit' = quit) \/ (pc' = pc /\ quit' = 1)
    BY <1>5 DEF Signal
  <2>3. quit' \in 0..1
    BY <2>2 DEF LifeTypes, TypeOK
  <2>4. CASE pc' = pc
    BY <2>1, <2>3, <2>4 DEF LifeTypes, TypeOK, LoopsTold, ServersDown, PastHttp, PastHttps
  <2> QED
    BY <2>1, <2>2, <2>3, <2>4, LifeKilled
<1>6. CASE ScriptStarts \/ ScriptEnds
  BY <1>6 DEF ScriptStarts, ScriptEnds, main, LifeTypes, TypeOK, LoopsTold, ServersDown, PastHttp, PastHttps
<1>7. ASSUME NEW l \in Downloaders, DownloadStarts(l) \/ DownloadEnds(l) PROVE LifeInv'
  BY <1>7 DEF DownloadStarts, DownloadEnds, main, LifeTypes, TypeOK, LoopsTold, ServersDown, PastHttp, PastHttps
<1> QED
  BY <1>1, <1>2, <1>3, <1>4, <1>5, <1>6, <1>7 DEF Meanwhile

LEMMA LifeStopping == ASSUME LifeInv, Stopping \/ DeadlinePasses \/ Drain PROVE LifeInv'
<1> USE DEF LifeInv
<1>1. CASE Receive
  BY <1>1, SMT DEF Receive, Step, LifeTypes, TypeOK, LoopsTold, ServersDown, PastHttp, PastHttps, StopPcs
<1>2. ASSUME NEW s \in Servers, CloseListener(s) PROVE LifeInv'
  BY <1>2 DEF CloseListener, main, LifeTypes, TypeOK, LoopsTold, ServersDown, PastHttp, PastHttps
<1>3. ASSUME NEW next \in {"https", "cancel"}, ServerDown("http", next),
             next = "cancel" => "https" \notin opts
      PROVE  LifeInv'
  BY <1>3, SMT DEF ServerDown, Idle, Step, LifeTypes, TypeOK, LoopsTold, ServersDown, PastHttp, PastHttps, StopPcs
<1>4. CASE ServerDown("https", "cancel")
  BY <1>4, SMT DEF ServerDown, Idle, Step, LifeTypes, TypeOK, LoopsTold, ServersDown, PastHttp, PastHttps, StopPcs
<1>5. CASE CancelFirst
  BY <1>5, SMT DEF CancelFirst, Step, LifeTypes, TypeOK, LoopsTold, ServersDown, PastHttp, PastHttps, StopPcs
<1>6. CASE StopDrain
  BY <1>6, SMT DEF StopDrain, Step, LifeTypes, TypeOK, LoopsTold, ServersDown, PastHttp, PastHttps, StopPcs
<1>7. CASE StopLoops
  BY <1>7, SMT DEF StopLoops, Step, LifeTypes, TypeOK, LoopsTold, ServersDown, PastHttp, PastHttps, StopPcs
<1>8. CASE JoinScripts
  BY <1>8, SMT DEF JoinScripts, Step, LifeTypes, TypeOK, LoopsTold, ServersDown, PastHttp, PastHttps, StopPcs
<1>9. CASE CancelRest
  BY <1>9, SMT DEF CancelRest, Remaining, Step, LifeTypes, TypeOK, LoopsTold, ServersDown, PastHttp, PastHttps, StopPcs
<1>10. CASE DeadlinePasses
  BY <1>10, SMT DEF DeadlinePasses, main, LifeTypes, TypeOK, LoopsTold, ServersDown, PastHttp, PastHttps
<1>11. CASE Drain
  BY <1>11, SMT DEF Drain, work, LifeTypes, TypeOK, LoopsTold, ServersDown, PastHttp, PastHttps
<1>12. CASE ServerDown("http", IF "https" \in opts THEN "https" ELSE "cancel")
  BY <1>3, <1>12
<1> QED
  BY <1>1, <1>2, <1>4, <1>5, <1>6, <1>7, <1>8, <1>9, <1>10, <1>11, <1>12 DEF Stopping

\* Lifecycle: when main returns, every loop that was started has been told to stop, no
\* server accepts and a request is cut off only after the deadline, whatever the
\* configuration turns on, wherever a signal, a restore or a failure comes in between.
THEOREM StopsCleanAlways == Spec => []StopsClean
<1>1. LifeInv /\ [Next]_vars => LifeInv'
  <2> SUFFICES ASSUME LifeInv, [Next]_vars PROVE LifeInv'
    OBVIOUS
  <2>1. CASE UNCHANGED vars
    BY <2>1 DEF vars, LifeInv, LifeTypes, TypeOK, LoopsTold, ServersDown, PastHttp, PastHttps
  <2> QED
    BY <2>1, LifeStarting, LifeMeanwhile, LifeStopping DEF Next
<1>2. LifeInv => StopsClean
  <2> SUFFICES ASSUME LifeInv PROVE TypeOK /\ CleanExit
    BY DEF StopsClean
  <2>1. TypeOK
    BY DEF LifeInv, LifeTypes
  <2>2. ASSUME pc = "exited" PROVE running \subseteq cancelled /\ up = {} /\ (busy # {} => deadline)
    <3>1. \A l \in running : l \in cancelled
      BY <2>2, SMT DEF LifeInv, LifeTypes, LoopsTold, AllLoops
    <3>2. up = {}
      BY <2>2, SMT DEF LifeInv, ServersDown, PastHttp, PastHttps
    <3>3. busy # {} => deadline
      BY <2>2, SMT DEF LifeInv, ServersDown, PastHttp, PastHttps
    <3> QED
      BY <3>1, <3>2, <3>3
  <2> QED
    BY <2>1, <2>2 DEF CleanExit
<1> QED
  BY LifeInit, <1>1, <1>2, PTL DEF Spec
=============================================================================
