------------------------------- MODULE Catalogue -------------------------------
(***************************************************************************)
(* What is played: the pools of the seasons, the maps of the pools, their  *)
(* categories and the queues (pools, maps, mapCategories and queues        *)
(* .route.ts), and the cards that queue.service.ts deals from them.        *)
(*                                                                         *)
(* Pools and maps are deleted with what they belong to, unless a queue, a  *)
(* match or a card refers to them.  Adding a map asks BeatSaver between    *)
(* reading the pool and inserting the row; a join reads the queue, then    *)
(* the maps of the pool it named, and then inserts the match.  Who may     *)
(* play whom is Matchmaking's business: here an entry has no name.         *)
(***************************************************************************)
EXTENDS Backend, Naturals, FiniteSets

CONSTANTS Pools, Maps, Categories, Queues, \* guids
          Charts,     \* BeatSaver's map, characteristic and difficulty
          Deals,      \* guids of matches
          DealSize,   \* how many maps a match takes: ten
          MaxWaiting  \* bound: entries of a queue

ASSUME CatalogueAssumption ==
    /\ None \notin Pools \cup Maps \cup Categories \cup Queues \cup Charts \cup Deals
    /\ {DealSize, MaxWaiting} \subseteq Nat

VARIABLES pools,       \* pools[p]: its season, or None
          maps,        \* maps[k]: the row, or None
          categories,  \* the rows of flairs
          queues,      \* queues[q]: the row, or None
          waiting,     \* waiting[q]: how many entries wait
          dealt,       \* dealt[g]: a match and its cards, or None
          catReq       \* what each slot is executing, and what it has read

catalogueVars == <<pools, maps, categories, queues, waiting, dealt, catReq>>

MapRow == [pool : Pools, chart : Charts, category : Categories \cup {None}]
QueueRow == [pool : Pools, open : BOOLEAN]
Deal == [queue : Queues, pool : Pools, cards : SUBSET Maps]
CatalogueRequest == [op : {"idle", "beatsaver", "join", "dealing"},
                     pool : Pools \cup {None}, queue : Queues \cup {None},
                     cards : SUBSET Maps]
NoCatalogueRequest == [op |-> "idle", pool |-> None, queue |-> None, cards |-> {}]

ASSUME CatalogueRowsAssumption == None \notin MapRow \cup QueueRow \cup Deal

CatalogueInit ==
    /\ pools = [p \in Pools |-> None]
    /\ maps = [k \in Maps |-> None]
    /\ categories = {}
    /\ queues = [q \in Queues |-> None]
    /\ waiting = [q \in Queues |-> 0]
    /\ dealt = [g \in Deals |-> None]
    /\ catReq = [s \in Slots |-> NoCatalogueRequest]

SetCatalogue(s, r) == catReq' = [catReq EXCEPT ![s] = r]
AtOp(s, op) == catReq[s].op = op
MapsOf(P) == {k \in Maps : maps[k] # None /\ maps[k].pool \in P}
Played == UNION {dealt[g].cards : g \in {h \in Deals : dealt[h] # None}}

-----------------------------------------------------------------------------
(* Pools and categories.                                                   *)

\* POST /seasons/:seasonGuid/pools.  A guid is never given twice.
CreatePool(p, x) ==
    /\ pools[p] = None
    /\ \A s \in Slots : catReq[s].pool # p
    /\ pools' = [pools EXCEPT ![p] = x]
    /\ UNCHANGED <<maps, categories, queues, waiting, dealt, catReq>>

\* PATCH /pools/:poolGuid may move it to another season.
PatchPool(p, x) ==
    /\ pools[p] \notin {None, x}
    /\ pools' = [pools EXCEPT ![p] = x]
    /\ UNCHANGED <<maps, categories, queues, waiting, dealt, catReq>>

\* A pool that no queue and no match refers to.
PoolFree(p) ==
    /\ \A q \in Queues : queues[q] # None => queues[q].pool # p
    /\ \A g \in Deals : dealt[g] # None => dealt[g].pool # p

\* DELETE /pools/:poolGuid, or of their season: the maps are deleted with them.
DeletePools(P) ==
    /\ P # {}
    /\ \A p \in P : PoolFree(p)
    /\ MapsOf(P) \cap Played = {}
    /\ pools' = [p \in Pools |-> IF p \in P THEN None ELSE pools[p]]
    /\ maps' = [k \in Maps |-> IF k \in MapsOf(P) THEN None ELSE maps[k]]
    /\ UNCHANGED <<categories, queues, waiting, dealt, catReq>>

\* POST and DELETE /map-categories; a deleted category is taken off its maps.
CreateCategory(c) ==
    /\ c \notin categories
    /\ categories' = categories \cup {c}
    /\ UNCHANGED <<pools, maps, queues, waiting, dealt, catReq>>

DeleteCategory(c) ==
    /\ c \in categories
    /\ categories' = categories \ {c}
    /\ maps' = [k \in Maps |-> IF maps[k] # None /\ maps[k].category = c
                               THEN [maps[k] EXCEPT !.category = None] ELSE maps[k]]
    /\ UNCHANGED <<pools, queues, waiting, dealt, catReq>>

-----------------------------------------------------------------------------
(* Maps.                                                                   *)

\* POST /pools/:poolGuid/maps reads the pool and asks BeatSaver.
AddMapBegin(s, p) ==
    /\ AtOp(s, "idle")
    /\ pools[p] # None
    /\ SetCatalogue(s, [NoCatalogueRequest EXCEPT !.op = "beatsaver", !.pool = p])
    /\ UNCHANGED <<pools, maps, categories, queues, waiting, dealt>>

\* The guid has never been used, as far as a join that is under way knows.
NewMap(k) == maps[k] = None /\ \A s \in Slots : k \notin catReq[s].cards

WasThere(p) == TRUE   \* mutant: no foreign key
PoolIsThere(p) == pools[p] # None

\* maps_pool_chart_unique and the foreign keys of the new row.
AddMapInsert(s, k, chart, c) ==
    LET p == catReq[s].pool IN
    /\ AtOp(s, "beatsaver")
    /\ PoolIsThere(p)
    /\ NewMap(k)
    /\ \A j \in MapsOf({p}) : maps[j].chart # chart
    /\ maps' = [maps EXCEPT ![k] = [pool |-> p, chart |-> chart, category |-> c]]
    /\ SetCatalogue(s, NoCatalogueRequest)
    /\ UNCHANGED <<pools, categories, queues, waiting, dealt>>

\* PATCH /maps/:mapGuid: the category; the pool stays.
PatchMap(k, c) ==
    /\ maps[k] # None
    /\ maps[k].category # c
    /\ maps' = [maps EXCEPT ![k].category = c]
    /\ UNCHANGED <<pools, categories, queues, waiting, dealt, catReq>>

\* DELETE /maps/:mapGuid, of a map that is in no hand
DeleteMap(k) ==
    /\ maps[k] # None
    /\ k \notin Played
    /\ maps' = [maps EXCEPT ![k] = None]
    /\ UNCHANGED <<pools, categories, queues, waiting, dealt, catReq>>

-----------------------------------------------------------------------------
(* Queues.                                                                 *)

\* POST /queues; open is `enabled` and the dates.
CreateQueue(q, p, open) ==
    /\ pools[p] # None
    /\ queues[q] = None
    /\ \A s \in Slots : catReq[s].queue # q
    /\ queues' = [queues EXCEPT ![q] = [pool |-> p, open |-> open]]
    /\ UNCHANGED <<pools, maps, categories, waiting, dealt, catReq>>

\* PATCH /queues/:queueGuid, while players wait and joins are under way.
PatchQueue(q, p, open) ==
    /\ pools[p] # None
    /\ queues[q] \notin {None, [pool |-> p, open |-> open]}
    /\ queues' = [queues EXCEPT ![q] = [pool |-> p, open |-> open]]
    /\ UNCHANGED <<pools, maps, categories, waiting, dealt, catReq>>

\* The entry that a join has inserted keeps the queue until it commits.
Joining(q) == \E s \in Slots : AtOp(s, "dealing") /\ catReq[s].queue = q

\* DELETE /queues/:queueGuid, without matches; who waits there is dropped.
DeleteQueue(q) ==
    /\ queues[q] # None
    /\ ~Joining(q)
    /\ \A g \in Deals : dealt[g] # None => dealt[g].queue # q
    /\ queues' = [queues EXCEPT ![q] = None]
    /\ waiting' = [waiting EXCEPT ![q] = 0]
    /\ UNCHANGED <<pools, maps, categories, dealt, catReq>>

LeaveAnyway(q) ==   \* mutant: the entry is not looked for
    /\ waiting' = [waiting EXCEPT ![q] = @ - 1]
    /\ UNCHANGED <<pools, maps, categories, queues, dealt, catReq>>
LeaveQueue(q) ==
    /\ waiting[q] > 0
    /\ waiting' = [waiting EXCEPT ![q] = @ - 1]
    /\ UNCHANGED <<pools, maps, categories, queues, dealt, catReq>>

JoinBegin(s, q) ==
    /\ AtOp(s, "idle")
    /\ queues[q] # None
    /\ queues[q].open
    /\ SetCatalogue(s, [NoCatalogueRequest EXCEPT !.op = "join", !.queue = q,
                                                  !.pool = queues[q].pool])
    /\ UNCHANGED <<pools, maps, categories, queues, waiting, dealt>>

\* With the lock and its own entry: nobody else waits, or the pool is short.
JoinAlone(s) ==
    LET q == catReq[s].queue IN
    /\ AtOp(s, "join")
    /\ queues[q] # None
    /\ ~Joining(q)
    /\ waiting[q] < MaxWaiting
    /\ waiting[q] > 0 => Cardinality(MapsOf({catReq[s].pool})) < DealSize
    /\ waiting' = [waiting EXCEPT ![q] = @ + 1]
    /\ SetCatalogue(s, NoCatalogueRequest)
    /\ UNCHANGED <<pools, maps, categories, queues, dealt>>

JoinDeal(s) ==
    LET q == catReq[s].queue IN
    /\ AtOp(s, "join")
    /\ queues[q] # None
    /\ ~Joining(q)
    /\ waiting[q] > 0
    /\ \E cards \in SUBSET MapsOf({catReq[s].pool}) :
          /\ Cardinality(cards) = DealSize
          /\ SetCatalogue(s, [catReq[s] EXCEPT !.op = "dealing", !.cards = cards])
    /\ UNCHANGED <<pools, maps, categories, queues, waiting, dealt>>

PoolNow(r) == queues[r.queue].pool   \* mutant: the queue is read once more
MatchPool(r) == r.pool

\* The match, its hands and its actions are inserted, the other's entry goes.
JoinCommit(s, g) ==
    LET r == catReq[s] IN
    /\ AtOp(s, "dealing")
    /\ dealt[g] = None
    /\ PoolIsThere(MatchPool(r))
    /\ \A k \in r.cards : maps[k] # None
    /\ dealt' = [dealt EXCEPT ![g] = [queue |-> r.queue, pool |-> MatchPool(r),
                                      cards |-> r.cards]]
    /\ waiting' = [waiting EXCEPT ![r.queue] = IF @ > 0 THEN @ - 1 ELSE 0]
    /\ SetCatalogue(s, NoCatalogueRequest)
    /\ UNCHANGED <<pools, maps, categories, queues>>

\* BeatSaver does not know the map, or the transaction fails.
CatalogueFails(s) ==
    /\ ~AtOp(s, "idle")
    /\ SetCatalogue(s, NoCatalogueRequest)
    /\ UNCHANGED <<pools, maps, categories, queues, waiting, dealt>>

CatalogueNext ==
    \/ \E p \in Pools : \/ \E x \in SeasonNames : CreatePool(p, x) \/ PatchPool(p, x)
                        \/ pools[p] # None /\ DeletePools({p})
    \/ \E x \in SeasonNames : DeletePools({p \in Pools : pools[p] = x})
    \/ \E c \in Categories : CreateCategory(c) \/ DeleteCategory(c)
    \/ \E k \in Maps :
          \/ \E c \in categories \cup {None} : PatchMap(k, c)
          \/ DeleteMap(k)
    \/ \E q \in Queues :
          \/ \E p \in Pools, open \in BOOLEAN :
                CreateQueue(q, p, open) \/ PatchQueue(q, p, open)
          \/ DeleteQueue(q)
          \/ LeaveQueue(q)
    \/ \E s \in Slots :
          \/ \E p \in Pools : AddMapBegin(s, p)
          \/ \E k \in Maps, chart \in Charts, c \in categories \cup {None} :
                AddMapInsert(s, k, chart, c)
          \/ \E q \in Queues : JoinBegin(s, q)
          \/ JoinAlone(s)
          \/ JoinDeal(s)
          \/ \E g \in Deals : JoinCommit(s, g)
          \/ CatalogueFails(s)

CatalogueSpec == CatalogueInit /\ [][CatalogueNext]_catalogueVars

-----------------------------------------------------------------------------
(* The rows of season_pools, maps, flairs, queues and matches.             *)
CatalogueTypeOK ==
    /\ pools \in [Pools -> SeasonNames \cup {None}]
    /\ maps \in [Maps -> MapRow \cup {None}]
    /\ categories \subseteq Categories
    /\ queues \in [Queues -> QueueRow \cup {None}]
    /\ waiting \in [Queues -> 0..MaxWaiting]
    /\ dealt \in [Deals -> Deal \cup {None}]
    /\ catReq \in [Slots -> CatalogueRequest]

(* The cards of a match are maps of the pool that its row names, and stay  *)
(* there, although the queue may be pointed at another pool between the    *)
(* join's reads and its commit, and maps, pools and seasons be deleted at  *)
(* any moment.                                                             *)
DealtFromMatchPool ==
    \A g \in Deals : dealt[g] # None =>
        /\ Cardinality(dealt[g].cards) = DealSize
        /\ \A k \in dealt[g].cards : maps[k] # None /\ maps[k].pool = dealt[g].pool

(* No row refers to one that is gone: a map whose pool was deleted while   *)
(* BeatSaver answered is refused, a queue keeps its pool, a match its      *)
(* queue and its pool, and a map loses its category with the category.     *)
NothingDangles ==
    /\ \A k \in Maps : maps[k] # None =>
          /\ pools[maps[k].pool] # None
          /\ maps[k].category \in categories \cup {None}
    /\ \A q \in Queues : queues[q] # None => pools[queues[q].pool] # None
    /\ \A g \in Deals : dealt[g] # None =>
          queues[dealt[g].queue] # None /\ pools[dealt[g].pool] # None
=============================================================================
