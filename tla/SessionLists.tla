---------------------------- MODULE SessionLists ----------------------------
(***************************************************************************)
(* What the adapters list: pages of sessions, newest first, and the        *)
(* members of a group, found by the prefix of their ids.                   *)
(*                                                                         *)
(* A session is its id; who owns it, which company and agent it is of, and *)
(* how its id reads are properties of the id.  Time is the order of two    *)
(* sequences, of the sessions made and of the sessions last updated.       *)
(* The redis adapter keeps an index beside the keys and writes the two one *)
(* after the other; every other adapter changes its sessions in one step.  *)
(***************************************************************************)
EXTENDS Naturals, Sequences, SequencesExt, FiniteSets, Ordered

CONSTANTS
    StoredIds,
    Others,     \* ids of another user than the one who asks
    Foreign,    \* ids of another company
    Second,     \* ids of another agent
    GroupIds,    \* ids that start with the prefix of the group
    Alike,      \* ids that only LIKE takes for such: "_" stands for any character
    Keep,       \* max_sessions of the in-memory adapter
    RedisClients,
    PageSizes,  \* limits of a page
    MaxWrites   \* bound: saves and deletes

ASSUME ListAssumption ==
    /\ IsFiniteSet(StoredIds) /\ PageSizes \subseteq Nat \ {0}
    /\ Others \cup Foreign \cup Second \cup GroupIds \cup Alike \subseteq StoredIds
    /\ GroupIds \cap Alike = {}
    /\ Keep \in Nat \ {0} /\ MaxWrites \in Nat

ListBackends == {"memory", "file", "sqlite", "postgresql", "base_sql", "redis"}

VARIABLES
    lBackend,
    lMade,      \* ids in the order of created_at, the ones deleted since included
    lTouched,   \* the stored ids in the order of updated_at
    lIndex,     \* redis: the ids in their owners' sorted sets
    lAt,        \* RedisClients -> [do, id]: what the redis client does next
    lCrossed,   \* ids saved between the two steps of a delete, or by a writer that died
    lWrites     \* saves and deletes so far

listVars == <<lBackend, lMade, lTouched, lIndex, lAt, lCrossed, lWrites>>

NoTask == [do |-> "nothing"]

ListInit ==
    /\ lBackend \in ListBackends
    /\ lMade = <<>> /\ lTouched = <<>> /\ lIndex = {} /\ lCrossed = {} /\ lWrites = 0
    /\ lAt = [w \in RedisClients |-> NoTask]

Listed == Range(lTouched)
LeftOut(s, id) == Only(s, StoredIds \ {id})

\* max_sessions: the one updated longest ago goes.
EvictIfNeeded(touched) ==
    IF lBackend = "memory" /\ Len(touched) > Keep THEN Tail(touched) ELSE touched

Stored(id) ==
    /\ lTouched' = EvictIfNeeded(Append(LeftOut(lTouched, id), id))
    /\ lMade' = IF id \in Listed THEN lMade ELSE Append(LeftOut(lMade, id), id)

OneWrite == lWrites < MaxWrites /\ lWrites' = lWrites + 1 /\ UNCHANGED lBackend

SaveRow(id) ==
    /\ lBackend # "redis" /\ OneWrite /\ Stored(id)
    /\ UNCHANGED <<lIndex, lAt, lCrossed>>

DeleteRow(id) ==
    /\ lBackend # "redis" /\ OneWrite
    /\ lTouched' = LeftOut(lTouched, id)
    /\ UNCHANGED <<lMade, lIndex, lAt, lCrossed>>

\* A session past its time to live goes: redis drops the key, memory when it is loaded.
Expire(id) ==
    /\ lBackend \in {"redis", "memory"} /\ id \in Listed
    /\ lTouched' = LeftOut(lTouched, id)
    /\ UNCHANGED <<lBackend, lMade, lIndex, lAt, lCrossed, lWrites>>

-----------------------------------------------------------------------------
(* The redis adapter *)

RedisSet(w, id) ==
    /\ lBackend = "redis" /\ lAt[w] = NoTask /\ OneWrite /\ Stored(id)
    /\ lAt' = [lAt EXCEPT ![w] = [do |-> "index", id |-> id]]
    /\ lCrossed' = IF \E v \in RedisClients : lAt[v] = [do |-> "unindex", id |-> id]
                   THEN lCrossed \cup {id} ELSE lCrossed
    /\ UNCHANGED lIndex

RedisIndex(w) ==
    /\ lAt[w].do = "index"
    /\ lIndex' = lIndex \cup {lAt[w].id}
    /\ lAt' = [lAt EXCEPT ![w] = NoTask]
    /\ UNCHANGED <<lBackend, lMade, lTouched, lCrossed, lWrites>>

\* Each save renews the time to live of the owner's index (_apply_ttl): it runs
\* out after those of the sessions in it, but for one whose save is not done.
RedisIndexExpires(owned) ==
    /\ lBackend = "redis" /\ lIndex \cap owned # {}
    /\ \A id \in Listed \cap owned :
          id \in lCrossed \/ \E w \in RedisClients : lAt[w] = [do |-> "index", id |-> id]
    /\ lIndex' = lIndex \ owned
    /\ UNCHANGED <<lBackend, lMade, lTouched, lAt, lCrossed, lWrites>>

\* The session is loaded only to learn whose index it is in.
RedisDeleteLoad(w, id) ==
    /\ lBackend = "redis" /\ lAt[w] = NoTask /\ OneWrite
    /\ lAt' = [lAt EXCEPT ![w] = [do |-> "delete", id |-> id, seen |-> id \in Listed]]
    /\ UNCHANGED <<lMade, lTouched, lIndex, lCrossed>>

RedisDelete(w) ==
    /\ lAt[w].do = "delete"
    /\ lTouched' = LeftOut(lTouched, lAt[w].id)
    /\ lAt' = [lAt EXCEPT ![w] = IF lAt[w].seen
                                 THEN [do |-> "unindex", id |-> lAt[w].id] ELSE NoTask]
    /\ UNCHANGED <<lBackend, lMade, lIndex, lCrossed, lWrites>>

RedisUnindex(w) ==
    /\ lAt[w].do = "unindex"
    /\ lIndex' = lIndex \ {lAt[w].id}
    /\ lAt' = [lAt EXCEPT ![w] = NoTask]
    /\ UNCHANGED <<lBackend, lMade, lTouched, lCrossed, lWrites>>

WriterDies(w) ==
    /\ lAt[w] # NoTask
    /\ lCrossed' = IF lAt[w].do = "index" THEN lCrossed \cup {lAt[w].id} ELSE lCrossed
    /\ lAt' = [lAt EXCEPT ![w] = NoTask]
    /\ UNCHANGED <<lBackend, lMade, lTouched, lIndex, lWrites>>

ListNext ==
    \/ \E id \in StoredIds : SaveRow(id) \/ DeleteRow(id) \/ Expire(id)
    \/ \E w \in RedisClients, id \in StoredIds : RedisSet(w, id) \/ RedisDeleteLoad(w, id)
    \/ \E w \in RedisClients :
          RedisIndex(w) \/ RedisDelete(w) \/ RedisUnindex(w) \/ WriterDies(w)
    \/ \E owned \in {Others, StoredIds \ Others} : RedisIndexExpires(owned)

-----------------------------------------------------------------------------
(* Pages.  A query names the fields it filters on. *)

Queries == SUBSET {"owner", "company", "agent"}

OfOwner(q) == IF "owner" \in q THEN StoredIds \ Others ELSE StoredIds
OfCompany(q) == IF "company" \in q THEN StoredIds \ Foreign ELSE StoredIds
OfAgent(q) == IF "agent" \in q THEN StoredIds \ Second ELSE StoredIds
Matching(q) == OfOwner(q) \cap OfCompany(q) \cap OfAgent(q)

NewestFirst == Reverse(lTouched)
Slice(s, offset, limit) ==
    SubSeq(s, offset + 1, IF offset + limit < Len(s) THEN offset + limit ELSE Len(s))

MemoryPage(q, offset, limit) == Slice(Only(NewestFirst, Matching(q)), offset, limit)

\* The owner's directory is walked instead of every session; torn files are passed over.
FilePage(q, offset, limit) ==
    LET files == Only(NewestFirst, OfOwner(q)) IN
    Slice(Only(files, OfCompany(q) \cap OfAgent(q)), offset, limit)

\* The columns are filtered by the query; the company, which is none, afterwards.
SqlPage(q, offset, limit, rows) ==
    Only(Slice(Only(rows, OfOwner(q) \cap OfAgent(q)), offset, limit), OfCompany(q))

PostgresPage(q, offset, limit) == SqlPage(q, offset, limit, NewestFirst)

\* A database per user: without an owner they are read one after the other, and no
\* further once there is enough for the page.
SqlitePage(q, offset, limit) ==
    LET Batch(users) == SqlPage(q, 0, offset + limit, Only(NewestFirst, users))
        own == Batch(StoredIds \ Others)
        batch == IF "owner" \in q \/ Len(own) >= offset + limit THEN own ELSE own \o Batch(Others)
    IN Slice(Only(NewestFirst, Range(batch)), offset, limit)

\* No ORDER BY: each query may find its rows in another order; the page is cut
\* from them, then filtered and sorted.
BaseSqlRows(q) == Listed \cap OfOwner(q) \cap OfCompany(q)
BaseSqlPages(q, offset, limit) ==
    {Only(NewestFirst, Range(Slice(rows, offset, limit)) \cap OfAgent(q)) :
        rows \in SetToSeqs(BaseSqlRows(q))}

\* The owner's index, newest made first.
Indexed == Reverse(Only(lMade, lIndex \ Others))

\* Mutant: ZREVRANGE taken to leave out its last element.
RedisPageOverlaps(q, offset, limit) ==
    IF "owner" \notin q THEN MemoryPage(q, offset, limit)
    ELSE Only(Slice(Indexed, offset, limit + 1), Listed \cap Matching(q))

\* With an owner the index is paged, and what is gone left out.
RedisPage(q, offset, limit) ==
    IF "owner" \notin q THEN MemoryPage(q, offset, limit)
    ELSE Only(Slice(Indexed, offset, limit), Listed \cap Matching(q))

\* The page of an adapter whose queries name an order.
Page(q, offset, limit) ==
    CASE lBackend = "memory" -> MemoryPage(q, offset, limit)
      [] lBackend = "file" -> FilePage(q, offset, limit)
      [] lBackend = "sqlite" -> SqlitePage(q, offset, limit)
      [] lBackend = "postgresql" -> PostgresPage(q, offset, limit)
      [] lBackend = "redis" -> RedisPage(q, offset, limit)

-----------------------------------------------------------------------------
(* The sessions of a group *)

MadeFirst(S) == Only(lMade, Listed \cap S)

PrefixScan(q) == MadeFirst(GroupIds \cap Matching(q))
PrefixLike(q) == MadeFirst((GroupIds \cup Alike) \cap Matching(q))
PrefixRedis(q) ==
    IF "owner" \in q THEN MadeFirst(GroupIds \cap lIndex \cap Matching(q)) ELSE PrefixScan(q)

ByPrefix(q) ==
    CASE lBackend \in {"memory", "file"} -> PrefixScan(q)
      [] lBackend \in {"sqlite", "postgresql", "base_sql"} -> PrefixLike(q)
      [] lBackend = "redis" -> PrefixRedis(q)

\* Mutant: what the adapter lists is taken for the group.
AllListed(q) == ByPrefix(q)

\* parse_member_name looks at the id again.
GroupMembers(q) == Only(ByPrefix(q), GroupIds)

-----------------------------------------------------------------------------
Asked(q) == Listed \cap Matching(q)

\* The owner's index of redis holds every session of Asked(q).
IndexWhole(q) ==
    lBackend = "redis" /\ "owner" \in q =>
        lCrossed = {} /\ \A w \in RedisClients : lAt[w] = NoTask

\* Where the pages of a query, as many as there may be sessions, show which session.
PlacesOn(page, i) == {[page |-> i, place |-> k, id |-> page[k]] : k \in DOMAIN page}
Shown(q, limit) ==
    UNION {PlacesOn(Page(q, (i - 1) * limit, limit), i) : i \in 1 .. Cardinality(StoredIds)}

\* The pages of these adapters are cut from one order for as long as nothing changes.
InOrder(q) ==
    /\ lBackend # "base_sql"
    /\ lBackend = "sqlite" => "owner" \in q /\ "company" \notin q

(***************************************************************************)
(* A client that turns the pages, nothing changing meanwhile, sees every   *)
(* session it asked for and none twice, though some adapters filter after  *)
(* the page is cut.  Not so under base_sql, which names no order: it       *)
(* promises as much of a page that is long enough for all the rows, and of *)
(* a shorter one only that it shows what was asked for and nothing twice.  *)
(* Nor for the sessions of several users, or of one company, under sqlite; *)
(* and one saved between the two steps of a redis delete, or by a client   *)
(* that died, may be missing.                                              *)
(* (session/adapters/sqlite.py:229, redis.py:133, base_sql.py:181)         *)
(***************************************************************************)
PagesCoverAll ==
    \A q \in Queries, limit \in PageSizes :
        /\ IndexWhole(q) /\ InOrder(q) =>
              LET shown == Shown(q, limit) IN
              /\ {x.id : x \in shown} = Asked(q)
              /\ \A x, y \in shown : x.id = y.id => x = y
        /\ lBackend = "base_sql" =>
              \A page \in BaseSqlPages(q, 0, limit) :
                 /\ IsInjective(page) /\ Range(page) \subseteq Asked(q)
                 /\ Cardinality(BaseSqlRows(q)) <= limit => Range(page) = Asked(q)

ListSpec == ListInit /\ [][ListNext]_listVars
=============================================================================
