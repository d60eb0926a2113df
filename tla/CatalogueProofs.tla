---------------------------- MODULE CatalogueProofs ----------------------------
(***************************************************************************)
(* For any number of pools, maps, queues, matches and requests at a time,  *)
(* no row refers to one that is gone, and a match deals the cards of its   *)
(* own pool.                                                               *)
(*                                                                         *)
(* A map never changes its pool, and the guid of a map that a join has in  *)
(* hand is not used again; so the cards that still exist when the match is *)
(* inserted are in the pool that the join has read (ReadSound).            *)
(***************************************************************************)
EXTENDS Catalogue, TLAPS

\* What request r has read, while queues and maps are as q and k.
ReadSound(r, q, k) ==
    /\ r.op \in {"beatsaver", "join", "dealing"} => r.pool \in Pools
    /\ r.op \in {"join", "dealing"} => r.queue \in Queues
    /\ r.op = "dealing" =>
          /\ q[r.queue] # None
          /\ Cardinality(r.cards) = DealSize
          /\ \A c \in r.cards : k[c] # None => k[c].pool = r.pool

\* The inductive invariant.
CatalogueInv ==
    /\ CatalogueTypeOK
    /\ \A s \in Slots : ReadSound(catReq[s], queues, maps)
    /\ DealtFromMatchPool
    /\ NothingDangles

-----------------------------------------------------------------------------
\* An administrator's statement keeps what the joins have read and the matches,
\* if it moves no map, deletes no card that is played, and no queue under a join
\* (code: the foreign keys, and that no route changes a map's pool).
LEMMA StatementStep ==
    ASSUME CatalogueInv, CatalogueTypeOK', NothingDangles',
           UNCHANGED <<dealt, catReq>>,
           \A k \in Maps : maps'[k] # None => maps[k] # None /\ maps'[k].pool = maps[k].pool,
           \A k \in Maps : k \in Played /\ maps[k] # None => maps'[k] # None,
           \A q \in Queues : Joining(q) /\ queues[q] # None => queues'[q] # None
    PROVE  CatalogueInv'
  <1>1. \A s \in Slots : ReadSound(catReq'[s], queues', maps')
    <2> SUFFICES ASSUME NEW s \in Slots PROVE ReadSound(catReq[s], queues', maps')
      OBVIOUS
    <2>1. ReadSound(catReq[s], queues, maps) /\ catReq[s].cards \subseteq Maps
      BY DEF CatalogueInv, CatalogueTypeOK, CatalogueRequest
    <2>2. catReq[s].op = "dealing" => Joining(catReq[s].queue)
      BY DEF Joining, AtOp
    <2> QED BY <2>1, <2>2 DEF ReadSound
  <1>2. DealtFromMatchPool'
    <2> SUFFICES ASSUME NEW g \in Deals, dealt[g] # None
                 PROVE  /\ Cardinality(dealt[g].cards) = DealSize
                        /\ \A k \in dealt[g].cards :
                              maps'[k] # None /\ maps'[k].pool = dealt[g].pool
      BY DEF DealtFromMatchPool
    <2>1. /\ Cardinality(dealt[g].cards) = DealSize
          /\ \A k \in dealt[g].cards : maps[k] # None /\ maps[k].pool = dealt[g].pool
      BY DEF CatalogueInv, DealtFromMatchPool
    <2>2. dealt[g].cards \subseteq Maps
      BY DEF CatalogueInv, CatalogueTypeOK, Deal
    <2>3. \A k \in dealt[g].cards : k \in Played
      BY DEF Played
    <2> QED BY <2>1, <2>2, <2>3
  <1> QED BY <1>1, <1>2 DEF CatalogueInv

\* A request moves and no row does.
LEMMA RequestStep ==
    ASSUME CatalogueInv, NEW s \in Slots, NEW r \in CatalogueRequest,
           SetCatalogue(s, r), ReadSound(r, queues, maps),
           UNCHANGED <<pools, maps, categories, queues, dealt>>,
           waiting' \in [Queues -> 0..MaxWaiting]
    PROVE  CatalogueInv'
  <1>1. \A t \in Slots : catReq'[t] = IF t = s THEN r ELSE catReq[t]
    BY DEF SetCatalogue, CatalogueInv, CatalogueTypeOK
  <1>2. CatalogueTypeOK'
    BY DEF SetCatalogue, CatalogueInv, CatalogueTypeOK
  <1>3. \A t \in Slots : ReadSound(catReq'[t], queues', maps')
    BY <1>1 DEF CatalogueInv
  <1>4. DealtFromMatchPool' /\ NothingDangles'
    BY DEF CatalogueInv, DealtFromMatchPool, NothingDangles
  <1> QED BY <1>2, <1>3, <1>4 DEF CatalogueInv

LEMMA NoRequestReads ==
    /\ NoCatalogueRequest \in CatalogueRequest
    /\ NoCatalogueRequest.op = "idle"
    /\ \A q, k : ReadSound(NoCatalogueRequest, q, k)
  BY DEF NoCatalogueRequest, CatalogueRequest, ReadSound

-----------------------------------------------------------------------------
(* Pools and categories. *)

LEMMA WritePoolInv ==
    ASSUME CatalogueInv, NEW p \in Pools, NEW x \in SeasonNames,
           CreatePool(p, x) \/ PatchPool(p, x)
    PROVE  CatalogueInv'
  <1>1. /\ pools' = [pools EXCEPT ![p] = x] /\ x # None
        /\ UNCHANGED <<maps, categories, queues, waiting, dealt, catReq>>
    BY BackendAssumption DEF CreatePool, PatchPool
  <1>2. \A o \in Pools : pools'[o] = IF o = p THEN x ELSE pools[o]
    BY <1>1 DEF CatalogueInv, CatalogueTypeOK
  <1>3. CatalogueTypeOK'
    BY <1>1 DEF CatalogueInv, CatalogueTypeOK
  <1>4. NothingDangles'
    <2>1. \A o \in Pools : pools[o] # None => pools'[o] # None
      BY <1>1, <1>2
    <2>2. /\ \A k \in Maps : maps[k] # None => maps[k].pool \in Pools
          /\ \A q \in Queues : queues[q] # None => queues[q].pool \in Pools
          /\ \A g \in Deals : dealt[g] # None => dealt[g].pool \in Pools
      BY DEF CatalogueInv, CatalogueTypeOK, MapRow, QueueRow, Deal
    <2> QED BY <1>1, <2>1, <2>2 DEF CatalogueInv, NothingDangles
  <1> QED BY <1>1, <1>3, <1>4, StatementStep

LEMMA DeletePoolsInv ==
    ASSUME CatalogueInv, NEW P \in SUBSET Pools, DeletePools(P)
    PROVE  CatalogueInv'
  <1>1. /\ \A p \in P : PoolFree(p)
        /\ MapsOf(P) \cap Played = {}
        /\ pools' = [p \in Pools |-> IF p \in P THEN None ELSE pools[p]]
        /\ maps' = [k \in Maps |-> IF k \in MapsOf(P) THEN None ELSE maps[k]]
        /\ UNCHANGED <<categories, queues, waiting, dealt, catReq>>
    BY DEF DeletePools
  <1>2. CatalogueTypeOK'
    BY <1>1 DEF CatalogueInv, CatalogueTypeOK
  <1>3. \A k \in Maps : maps'[k] # None => maps[k] # None /\ maps'[k] = maps[k] /\ maps[k].pool \notin P
    BY <1>1 DEF MapsOf
  <1>4. NothingDangles'
    <2>1. /\ \A k \in Maps : maps[k] # None => maps[k].pool \in Pools
          /\ \A q \in Queues : queues[q] # None => queues[q].pool \in Pools
          /\ \A g \in Deals : dealt[g] # None => dealt[g].pool \in Pools
      BY DEF CatalogueInv, CatalogueTypeOK, MapRow, QueueRow, Deal
    <2>2. \A p \in Pools : p \notin P => pools'[p] = pools[p]
      BY <1>1
    <2>3. \A k \in Maps : maps'[k] # None =>
              pools'[maps'[k].pool] # None /\ maps'[k].category \in categories \cup {None}
      BY <1>3, <2>1, <2>2 DEF CatalogueInv, NothingDangles
    <2>4. \A q \in Queues : queues[q] # None => pools'[queues[q].pool] # None
      BY <1>1, <2>1, <2>2 DEF CatalogueInv, NothingDangles, PoolFree
    <2>5. \A g \in Deals : dealt[g] # None =>
              queues[dealt[g].queue] # None /\ pools'[dealt[g].pool] # None
      BY <1>1, <2>1, <2>2 DEF CatalogueInv, NothingDangles, PoolFree
    <2> QED BY <1>1, <2>3, <2>4, <2>5 DEF NothingDangles
  <1>5. \A k \in Maps : k \in Played => maps'[k] = maps[k]
    BY <1>1
  <1> QED BY <1>1, <1>2, <1>3, <1>4, <1>5, StatementStep

LEMMA CreateCategoryInv ==
    ASSUME CatalogueInv, NEW c \in Categories, CreateCategory(c)
    PROVE  CatalogueInv'
  <1>1. CatalogueTypeOK' /\ NothingDangles'
    BY DEF CreateCategory, CatalogueInv, CatalogueTypeOK, NothingDangles
  <1>2. UNCHANGED <<maps, queues, dealt, catReq>>
    BY DEF CreateCategory
  <1> QED BY <1>1, <1>2, StatementStep

LEMMA DeleteCategoryInv ==
    ASSUME CatalogueInv, NEW c \in Categories, DeleteCategory(c)
    PROVE  CatalogueInv'
  <1>1. /\ categories' = categories \ {c}
        /\ maps' = [k \in Maps |-> IF maps[k] # None /\ maps[k].category = c
                                   THEN [maps[k] EXCEPT !.category = None] ELSE maps[k]]
        /\ UNCHANGED <<pools, queues, waiting, dealt, catReq>>
    BY DEF DeleteCategory
  <1>2. ASSUME NEW k \in Maps, maps[k] # None
        PROVE  /\ maps'[k] \in MapRow /\ maps'[k] # None
               /\ maps'[k].pool = maps[k].pool
               /\ maps'[k].category # c
               /\ maps'[k].category = None \/ maps'[k].category = maps[k].category
    <2>1. maps[k] \in MapRow /\ c # None
      BY <1>2, CatalogueAssumption DEF CatalogueInv, CatalogueTypeOK
    <2>2. CASE maps[k].category = c
      <3>1. maps'[k] = [maps[k] EXCEPT !.category = None]
        BY <1>1, <1>2, <2>2
      <3>2. maps'[k] \in MapRow /\ maps'[k].pool = maps[k].pool /\ maps'[k].category = None
        BY <2>1, <3>1 DEF MapRow
      <3> QED BY <2>1, <3>2, CatalogueRowsAssumption
    <2>3. CASE maps[k].category # c
      BY <1>1, <1>2, <2>1, <2>3
    <2> QED BY <2>2, <2>3
  <1>3. \A k \in Maps : maps[k] = None => maps'[k] = None
    BY <1>1
  <1>4. CatalogueTypeOK'
    <2>1. \A k \in Maps : maps'[k] \in MapRow \cup {None}
      BY <1>2, <1>3
    <2>2. maps' = [k \in Maps |-> maps'[k]]
      BY <1>1
    <2>3. maps' \in [Maps -> MapRow \cup {None}]
      BY <2>1, <2>2
    <2> QED BY <1>1, <2>3 DEF CatalogueInv, CatalogueTypeOK
  <1>5. NothingDangles'
    <2>1. \A k \in Maps : maps'[k] # None =>
              pools[maps'[k].pool] # None /\ maps'[k].category \in categories' \cup {None}
      BY <1>1, <1>2, <1>3 DEF CatalogueInv, NothingDangles
    <2> QED BY <1>1, <2>1 DEF CatalogueInv, NothingDangles
  <1> QED BY <1>1, <1>2, <1>3, <1>4, <1>5, StatementStep

-----------------------------------------------------------------------------
(* Maps. *)

LEMMA AddMapBeginInv ==
    ASSUME CatalogueInv, NEW s \in Slots, NEW p \in Pools, AddMapBegin(s, p)
    PROVE  CatalogueInv'
  <1> DEFINE r == [NoCatalogueRequest EXCEPT !.op = "beatsaver", !.pool = p]
  <1>1. r \in CatalogueRequest /\ r.op = "beatsaver" /\ r.pool = p
    BY NoRequestReads DEF CatalogueRequest
  <1>2. /\ SetCatalogue(s, r)
        /\ UNCHANGED <<pools, maps, categories, queues, waiting, dealt>>
    BY DEF AddMapBegin
  <1> HIDE DEF r
  <1>3. ReadSound(r, queues, maps)
    BY <1>1 DEF ReadSound
  <1>4. waiting' \in [Queues -> 0..MaxWaiting]
    BY <1>2 DEF CatalogueInv, CatalogueTypeOK
  <1> QED BY <1>1, <1>2, <1>3, <1>4, RequestStep

\* The new map has a guid that no join and no match knows (code: the insert after
\* BeatSaver has answered).
LEMMA AddMapInsertInv ==
    ASSUME CatalogueInv, NEW s \in Slots, NEW k \in Maps, NEW chart \in Charts,
           NEW c \in categories \cup {None}, AddMapInsert(s, k, chart, c)
    PROVE  CatalogueInv'
  <1> DEFINE p == catReq[s].pool
             x == [pool |-> p, chart |-> chart, category |-> c]
  <1>1. /\ catReq[s].op = "beatsaver" /\ pools[p] # None
        /\ maps[k] = None /\ \A t \in Slots : k \notin catReq[t].cards
        /\ maps' = [maps EXCEPT ![k] = x]
        /\ SetCatalogue(s, NoCatalogueRequest)
        /\ UNCHANGED <<pools, categories, queues, waiting, dealt>>
    BY DEF AddMapInsert, AtOp, PoolIsThere, NewMap
  <1>2. p \in Pools
    BY <1>1 DEF CatalogueInv, ReadSound
  <1>3. x \in MapRow /\ x.pool = p /\ x.category = c
    BY <1>2 DEF MapRow, CatalogueInv, CatalogueTypeOK
  <1> HIDE DEF p, x
  <1>4. x # None /\ \A j \in Maps : maps'[j] = IF j = k THEN x ELSE maps[j]
    BY <1>1, <1>3, CatalogueRowsAssumption DEF CatalogueInv, CatalogueTypeOK
  <1>5. \A t \in Slots : catReq'[t] = IF t = s THEN NoCatalogueRequest ELSE catReq[t]
    BY <1>1 DEF SetCatalogue, CatalogueInv, CatalogueTypeOK
  <1>6. CatalogueTypeOK'
    BY <1>1, <1>3, NoRequestReads DEF SetCatalogue, CatalogueInv, CatalogueTypeOK
  <1>7. \A t \in Slots : ReadSound(catReq'[t], queues', maps')
    <2> SUFFICES ASSUME NEW t \in Slots, t # s PROVE ReadSound(catReq[t], queues, maps')
      BY <1>1, <1>5, NoRequestReads
    <2>1. ReadSound(catReq[t], queues, maps) /\ catReq[t].cards \subseteq Maps
      BY DEF CatalogueInv, CatalogueTypeOK, CatalogueRequest
    <2>2. \A j \in catReq[t].cards : maps'[j] = maps[j]
      BY <1>1, <1>4, <2>1
    <2> QED BY <2>1, <2>2 DEF ReadSound
  <1>8. DealtFromMatchPool'
    <2> SUFFICES ASSUME NEW g \in Deals, dealt[g] # None
                 PROVE  /\ Cardinality(dealt[g].cards) = DealSize
                        /\ \A j \in dealt[g].cards :
                              maps'[j] # None /\ maps'[j].pool = dealt[g].pool
      BY <1>1 DEF DealtFromMatchPool
    <2>1. /\ Cardinality(dealt[g].cards) = DealSize
          /\ \A j \in dealt[g].cards : maps[j] # None /\ maps[j].pool = dealt[g].pool
          /\ dealt[g].cards \subseteq Maps
      BY DEF CatalogueInv, DealtFromMatchPool, CatalogueTypeOK, Deal
    <2>2. k \notin dealt[g].cards
      BY <2>1, <1>1
    <2> QED BY <2>1, <2>2, <1>4
  <1>9. NothingDangles'
    <2>1. \A j \in Maps : maps'[j] # None =>
              pools[maps'[j].pool] # None /\ maps'[j].category \in categories \cup {None}
      BY <1>1, <1>3, <1>4 DEF CatalogueInv, NothingDangles, p
    <2> QED BY <1>1, <2>1 DEF CatalogueInv, NothingDangles
  <1> QED BY <1>6, <1>7, <1>8, <1>9 DEF CatalogueInv

LEMMA PatchMapInv ==
    ASSUME CatalogueInv, NEW k \in Maps, NEW c \in categories \cup {None}, PatchMap(k, c)
    PROVE  CatalogueInv'
  <1> DEFINE x == [maps[k] EXCEPT !.category = c]
  <1>1. /\ maps[k] # None /\ maps' = [maps EXCEPT ![k].category = c]
        /\ UNCHANGED <<pools, categories, queues, waiting, dealt, catReq>>
    BY DEF PatchMap
  <1>2. maps[k] \in MapRow /\ c \in Categories \cup {None}
    BY <1>1 DEF CatalogueInv, CatalogueTypeOK
  <1>3. x \in MapRow /\ x.pool = maps[k].pool /\ x.category = c
    BY <1>2 DEF MapRow
  <1>4. maps' = [maps EXCEPT ![k] = x]
    BY <1>1
  <1> HIDE DEF x
  <1>5. x # None /\ \A j \in Maps : maps'[j] = IF j = k THEN x ELSE maps[j]
    BY <1>3, <1>4, CatalogueRowsAssumption DEF CatalogueInv, CatalogueTypeOK
  <1>6. CatalogueTypeOK'
    BY <1>1, <1>3, <1>4 DEF CatalogueInv, CatalogueTypeOK
  <1>7. NothingDangles'
    <2>1. \A j \in Maps : maps'[j] # None =>
              pools[maps'[j].pool] # None /\ maps'[j].category \in categories \cup {None}
      BY <1>1, <1>3, <1>5 DEF CatalogueInv, NothingDangles
    <2> QED BY <1>1, <2>1 DEF CatalogueInv, NothingDangles
  <1> QED BY <1>1, <1>3, <1>5, <1>6, <1>7, StatementStep

LEMMA DeleteMapInv ==
    ASSUME CatalogueInv, NEW k \in Maps, DeleteMap(k)
    PROVE  CatalogueInv'
  <1>1. /\ k \notin Played /\ maps' = [maps EXCEPT ![k] = None]
        /\ UNCHANGED <<pools, categories, queues, waiting, dealt, catReq>>
    BY DEF DeleteMap
  <1>2. \A j \in Maps : maps'[j] = IF j = k THEN None ELSE maps[j]
    BY <1>1 DEF CatalogueInv, CatalogueTypeOK
  <1>3. CatalogueTypeOK'
    BY <1>1 DEF CatalogueInv, CatalogueTypeOK
  <1>4. NothingDangles'
    BY <1>1, <1>2 DEF CatalogueInv, NothingDangles
  <1> QED BY <1>1, <1>2, <1>3, <1>4, StatementStep

-----------------------------------------------------------------------------
(* Queues. *)

LEMMA WriteQueueInv ==
    ASSUME CatalogueInv, NEW q \in Queues, NEW p \in Pools, NEW open \in BOOLEAN,
           CreateQueue(q, p, open) \/ PatchQueue(q, p, open)
    PROVE  CatalogueInv'
  <1> DEFINE x == [pool |-> p, open |-> open]
  <1>1. /\ pools[p] # None /\ queues' = [queues EXCEPT ![q] = x]
        /\ UNCHANGED <<pools, maps, categories, waiting, dealt, catReq>>
    BY DEF CreateQueue, PatchQueue
  <1>2. x \in QueueRow /\ x.pool = p
    BY DEF QueueRow
  <1> HIDE DEF x
  <1>3. x # None /\ \A r \in Queues : queues'[r] = IF r = q THEN x ELSE queues[r]
    BY <1>1, <1>2, CatalogueRowsAssumption DEF CatalogueInv, CatalogueTypeOK
  <1>4. CatalogueTypeOK'
    BY <1>1, <1>2 DEF CatalogueInv, CatalogueTypeOK
  <1>5. NothingDangles'
    <2>1. \A g \in Deals : dealt[g] # None => dealt[g].queue \in Queues
      BY DEF CatalogueInv, CatalogueTypeOK, Deal
    <2>2. \A g \in Deals : dealt[g] # None => queues'[dealt[g].queue] # None
      BY <1>3, <2>1 DEF CatalogueInv, NothingDangles
    <2>3. \A r \in Queues : queues'[r] # None => pools[queues'[r].pool] # None
      BY <1>1, <1>2, <1>3 DEF CatalogueInv, NothingDangles
    <2> QED BY <1>1, <2>2, <2>3 DEF CatalogueInv, NothingDangles
  <1> QED BY <1>1, <1>3, <1>4, <1>5, StatementStep

LEMMA DeleteQueueInv ==
    ASSUME CatalogueInv, NEW q \in Queues, DeleteQueue(q)
    PROVE  CatalogueInv'
  <1>1. /\ ~Joining(q) /\ \A g \in Deals : dealt[g] # None => dealt[g].queue # q
        /\ queues' = [queues EXCEPT ![q] = None]
        /\ waiting' = [waiting EXCEPT ![q] = 0]
        /\ UNCHANGED <<pools, maps, categories, dealt, catReq>>
    BY DEF DeleteQueue
  <1>2. \A r \in Queues : queues'[r] = IF r = q THEN None ELSE queues[r]
    BY <1>1 DEF CatalogueInv, CatalogueTypeOK
  <1>3. CatalogueTypeOK'
    BY <1>1, CatalogueAssumption DEF CatalogueInv, CatalogueTypeOK
  <1>4. NothingDangles'
    <2>1. \A g \in Deals : dealt[g] # None => dealt[g].queue \in Queues
      BY DEF CatalogueInv, CatalogueTypeOK, Deal
    <2>2. \A g \in Deals : dealt[g] # None => queues'[dealt[g].queue] # None
      BY <1>1, <1>2, <2>1 DEF CatalogueInv, NothingDangles
    <2>3. \A r \in Queues : queues'[r] # None => pools[queues'[r].pool] # None
      BY <1>2 DEF CatalogueInv, NothingDangles
    <2> QED BY <1>1, <2>2, <2>3 DEF CatalogueInv, NothingDangles
  <1> QED BY <1>1, <1>2, <1>3, <1>4, StatementStep

LEMMA LeaveQueueInv ==
    ASSUME CatalogueInv, NEW q \in Queues, LeaveQueue(q)
    PROVE  CatalogueInv'
  <1>1. /\ waiting[q] > 0 /\ waiting' = [waiting EXCEPT ![q] = waiting[q] - 1]
        /\ UNCHANGED <<pools, maps, categories, queues, dealt, catReq>>
    BY DEF LeaveQueue, CatalogueInv, CatalogueTypeOK
  <1>2. waiting[q] - 1 \in 0..MaxWaiting
    BY <1>1, CatalogueAssumption DEF CatalogueInv, CatalogueTypeOK
  <1>3. CatalogueTypeOK'
    BY <1>1, <1>2 DEF CatalogueInv, CatalogueTypeOK
  <1>4. NothingDangles'
    BY <1>1 DEF CatalogueInv, NothingDangles
  <1> QED BY <1>1, <1>3, <1>4, StatementStep

LEMMA JoinBeginInv ==
    ASSUME CatalogueInv, NEW s \in Slots, NEW q \in Queues, JoinBegin(s, q)
    PROVE  CatalogueInv'
  <1> DEFINE p == queues[q].pool
             r == [NoCatalogueRequest EXCEPT !.op = "join", !.queue = q, !.pool = p]
  <1>1. /\ queues[q] # None /\ SetCatalogue(s, r)
        /\ UNCHANGED <<pools, maps, categories, queues, waiting, dealt>>
    BY DEF JoinBegin
  <1>2. p \in Pools
    BY <1>1 DEF CatalogueInv, CatalogueTypeOK, QueueRow
  <1> HIDE DEF p
  <1>3. r \in CatalogueRequest /\ r.op = "join" /\ r.pool = p /\ r.queue = q
    BY <1>2, NoRequestReads DEF CatalogueRequest
  <1> HIDE DEF r
  <1>4. ReadSound(r, queues, maps)
    BY <1>2, <1>3 DEF ReadSound
  <1>5. waiting' \in [Queues -> 0..MaxWaiting]
    BY <1>1 DEF CatalogueInv, CatalogueTypeOK
  <1> QED BY <1>1, <1>3, <1>4, <1>5, RequestStep

LEMMA JoinAloneInv ==
    ASSUME CatalogueInv, NEW s \in Slots, JoinAlone(s)
    PROVE  CatalogueInv'
  <1> DEFINE q == catReq[s].queue
  <1>1. /\ catReq[s].op = "join" /\ waiting[q] < MaxWaiting
        /\ waiting' = [waiting EXCEPT ![q] = @ + 1]
        /\ SetCatalogue(s, NoCatalogueRequest)
        /\ UNCHANGED <<pools, maps, categories, queues, dealt>>
    BY DEF JoinAlone, AtOp
  <1>2. q \in Queues
    BY <1>1 DEF CatalogueInv, ReadSound
  <1> HIDE DEF q
  <1>3. waiting[q] + 1 \in 0..MaxWaiting
    BY <1>1, <1>2, CatalogueAssumption DEF CatalogueInv, CatalogueTypeOK
  <1>4. waiting' \in [Queues -> 0..MaxWaiting]
    BY <1>1, <1>2, <1>3 DEF CatalogueInv, CatalogueTypeOK
  <1> QED BY <1>1, <1>4, NoRequestReads, RequestStep

\* The cards that a join draws are in the pool that it has read.
LEMMA JoinDealInv ==
    ASSUME CatalogueInv, NEW s \in Slots, JoinDeal(s)
    PROVE  CatalogueInv'
  <1>1. catReq[s].op = "join" /\ queues[catReq[s].queue] # None
        /\ UNCHANGED <<pools, maps, categories, queues, waiting, dealt>>
    BY DEF JoinDeal, AtOp
  <1>2. PICK cards \in SUBSET MapsOf({catReq[s].pool}) :
            /\ Cardinality(cards) = DealSize
            /\ SetCatalogue(s, [catReq[s] EXCEPT !.op = "dealing", !.cards = cards])
    BY DEF JoinDeal
  <1> DEFINE r == [catReq[s] EXCEPT !.op = "dealing", !.cards = cards]
  <1>3. cards \subseteq Maps /\ \A k \in cards : maps[k].pool = catReq[s].pool
    BY <1>2 DEF MapsOf
  <1>4. catReq[s] \in CatalogueRequest /\ ReadSound(catReq[s], queues, maps)
    BY DEF CatalogueInv, CatalogueTypeOK
  <1>5. /\ r \in CatalogueRequest /\ r.op = "dealing" /\ r.cards = cards
        /\ r.pool = catReq[s].pool /\ r.queue = catReq[s].queue
    BY <1>3, <1>4 DEF CatalogueRequest
  <1>6. SetCatalogue(s, r)
    BY <1>2
  <1> HIDE DEF r
  <1>7. ReadSound(r, queues, maps)
    BY <1>1, <1>2, <1>3, <1>4, <1>5 DEF ReadSound
  <1>8. waiting' \in [Queues -> 0..MaxWaiting]
    BY <1>1 DEF CatalogueInv, CatalogueTypeOK
  <1> QED BY <1>1, <1>5, <1>6, <1>7, <1>8, RequestStep

\* The match is inserted with the pool and the cards that the join has read, if
\* they are still there (code: the foreign keys of matches and match_maps).
LEMMA JoinCommitInv ==
    ASSUME CatalogueInv, NEW s \in Slots, NEW g \in Deals, JoinCommit(s, g)
    PROVE  CatalogueInv'
  <1> DEFINE r == catReq[s]
             x == [queue |-> r.queue, pool |-> r.pool, cards |-> r.cards]
             w == IF waiting[r.queue] > 0 THEN waiting[r.queue] - 1 ELSE 0
  <1>1. /\ r.op = "dealing" /\ dealt[g] = None /\ pools[r.pool] # None
        /\ \A k \in r.cards : maps[k] # None
        /\ dealt' = [dealt EXCEPT ![g] = x]
        /\ SetCatalogue(s, NoCatalogueRequest)
        /\ UNCHANGED <<pools, maps, categories, queues>>
    BY DEF JoinCommit, AtOp, PoolIsThere, MatchPool
  <1>2. /\ r.pool \in Pools /\ r.queue \in Queues /\ queues[r.queue] # None
        /\ Cardinality(r.cards) = DealSize /\ r.cards \subseteq Maps
        /\ \A k \in r.cards : maps[k].pool = r.pool
    <2>1. ReadSound(r, queues, maps) /\ r \in CatalogueRequest
      BY DEF CatalogueInv, CatalogueTypeOK
    <2> QED BY <2>1, <1>1 DEF ReadSound, CatalogueRequest
  <1>3. waiting' = [waiting EXCEPT ![r.queue] = w]
    BY <1>2 DEF JoinCommit, CatalogueInv, CatalogueTypeOK
  <1>4. w \in 0..MaxWaiting
    BY <1>2, CatalogueAssumption DEF CatalogueInv, CatalogueTypeOK
  <1>5. x \in Deal /\ x.queue = r.queue /\ x.pool = r.pool /\ x.cards = r.cards
    BY <1>2 DEF Deal
  <1> HIDE DEF r, x, w
  <1>6. \A h \in Deals : dealt'[h] = IF h = g THEN x ELSE dealt[h]
    BY <1>1 DEF CatalogueInv, CatalogueTypeOK
  <1>7. CatalogueTypeOK'
    <2>1. dealt' \in [Deals -> Deal \cup {None}]
      BY <1>1, <1>5 DEF CatalogueInv, CatalogueTypeOK
    <2>2. waiting' \in [Queues -> 0..MaxWaiting]
      BY <1>3, <1>4 DEF CatalogueInv, CatalogueTypeOK
    <2>3. catReq' \in [Slots -> CatalogueRequest]
      BY <1>1, NoRequestReads DEF SetCatalogue, CatalogueInv, CatalogueTypeOK
    <2> QED BY <1>1, <2>1, <2>2, <2>3 DEF CatalogueInv, CatalogueTypeOK
  <1>8. \A t \in Slots : ReadSound(catReq'[t], queues', maps')
    <2>1. \A t \in Slots : catReq'[t] = IF t = s THEN NoCatalogueRequest ELSE catReq[t]
      BY <1>1 DEF SetCatalogue, CatalogueInv, CatalogueTypeOK
    <2> QED BY <1>1, <2>1, NoRequestReads DEF CatalogueInv
  <1>9. DealtFromMatchPool'
    <2> SUFFICES ASSUME NEW h \in Deals, dealt'[h] # None
                 PROVE  /\ Cardinality(dealt'[h].cards) = DealSize
                        /\ \A k \in dealt'[h].cards :
                              maps[k] # None /\ maps[k].pool = dealt'[h].pool
      BY <1>1 DEF DealtFromMatchPool
    <2>1. CASE h = g
      BY <2>1, <1>1, <1>2, <1>5, <1>6
    <2>2. CASE h # g
      BY <2>2, <1>6 DEF CatalogueInv, DealtFromMatchPool
    <2> QED BY <2>1, <2>2
  <1>10. NothingDangles'
    <2>1. \A h \in Deals : dealt'[h] # None =>
              queues[dealt'[h].queue] # None /\ pools[dealt'[h].pool] # None
      BY <1>1, <1>2, <1>5, <1>6 DEF CatalogueInv, NothingDangles
    <2> QED BY <1>1, <2>1 DEF CatalogueInv, NothingDangles
  <1> QED BY <1>7, <1>8, <1>9, <1>10 DEF CatalogueInv

LEMMA FailsInv ==
    ASSUME CatalogueInv, NEW s \in Slots, CatalogueFails(s)
    PROVE  CatalogueInv'
  <1>1. /\ SetCatalogue(s, NoCatalogueRequest)
        /\ UNCHANGED <<pools, maps, categories, queues, waiting, dealt>>
    BY DEF CatalogueFails
  <1>2. waiting' \in [Queues -> 0..MaxWaiting]
    BY <1>1 DEF CatalogueInv, CatalogueTypeOK
  <1> QED BY <1>1, <1>2, NoRequestReads, RequestStep

-----------------------------------------------------------------------------
LEMMA InitCatalogue == CatalogueInit => CatalogueInv
  <1> SUFFICES ASSUME CatalogueInit PROVE CatalogueInv
    OBVIOUS
  <1>1. CatalogueTypeOK
    BY NoRequestReads, CatalogueAssumption DEF CatalogueInit, CatalogueTypeOK
  <1>2. \A s \in Slots : ReadSound(catReq[s], queues, maps)
    BY NoRequestReads DEF CatalogueInit
  <1>3. DealtFromMatchPool /\ NothingDangles
    BY DEF CatalogueInit, DealtFromMatchPool, NothingDangles
  <1> QED BY <1>1, <1>2, <1>3 DEF CatalogueInv

LEMMA StepCatalogue ==
    ASSUME CatalogueInv, [CatalogueNext]_catalogueVars
    PROVE  CatalogueInv'
  <1>1. ASSUME NEW p \in Pools, NEW x \in SeasonNames, CreatePool(p, x) \/ PatchPool(p, x)
        PROVE  CatalogueInv'
    BY <1>1, WritePoolInv
  <1>2. ASSUME NEW P \in SUBSET Pools, DeletePools(P)
        PROVE  CatalogueInv'
    BY <1>2, DeletePoolsInv
  <1>3. ASSUME NEW p \in Pools, DeletePools({p})
        PROVE  CatalogueInv'
    <2>1. {p} \in SUBSET Pools
      OBVIOUS
    <2> QED BY <1>2, <1>3, <2>1
  <1>4. ASSUME NEW x \in SeasonNames, DeletePools({p \in Pools : pools[p] = x})
        PROVE  CatalogueInv'
    <2>1. {p \in Pools : pools[p] = x} \in SUBSET Pools
      OBVIOUS
    <2> QED BY <1>2, <1>4, <2>1
  <1>5. ASSUME NEW c \in Categories, CreateCategory(c) \/ DeleteCategory(c)
        PROVE  CatalogueInv'
    BY <1>5, CreateCategoryInv, DeleteCategoryInv
  <1>6. ASSUME NEW k \in Maps,
               (\E c \in categories \cup {None} : PatchMap(k, c)) \/ DeleteMap(k)
        PROVE  CatalogueInv'
    BY <1>6, PatchMapInv, DeleteMapInv
  <1>7. ASSUME NEW q \in Queues,
               \/ \E p \in Pools, open \in BOOLEAN :
                     CreateQueue(q, p, open) \/ PatchQueue(q, p, open)
               \/ DeleteQueue(q)
               \/ LeaveQueue(q)
        PROVE  CatalogueInv'
    BY <1>7, WriteQueueInv, DeleteQueueInv, LeaveQueueInv
  <1>8. ASSUME NEW s \in Slots,
               \/ \E p \in Pools : AddMapBegin(s, p)
               \/ \E k \in Maps, chart \in Charts, c \in categories \cup {None} :
                     AddMapInsert(s, k, chart, c)
               \/ \E q \in Queues : JoinBegin(s, q)
               \/ JoinAlone(s) \/ JoinDeal(s)
               \/ \E g \in Deals : JoinCommit(s, g)
               \/ CatalogueFails(s)
        PROVE  CatalogueInv'
    BY <1>8, AddMapBeginInv, AddMapInsertInv, JoinBeginInv, JoinAloneInv, JoinDealInv,
       JoinCommitInv, FailsInv
  <1>9. CASE UNCHANGED catalogueVars
    <2>1. UNCHANGED <<pools, maps, categories, queues, waiting, dealt, catReq>>
      BY <1>9 DEF catalogueVars
    <2> QED BY <2>1 DEF CatalogueInv, CatalogueTypeOK, DealtFromMatchPool, NothingDangles
  <1> QED BY <1>1, <1>3, <1>4, <1>5, <1>6, <1>7, <1>8, <1>9 DEF CatalogueNext

\* For any number of pools, maps, queues, matches and requests: what a join has
\* read of its pool is still true of the cards that exist.
THEOREM CatalogueInvariance == CatalogueSpec => []CatalogueInv
  BY InitCatalogue, StepCatalogue, PTL DEF CatalogueSpec

\* The rows of pools, maps, queues and matches, and the requests, are well typed
\* (code: the columns of schema.ts).
THEOREM CatalogueTypeCorrect == CatalogueSpec => []CatalogueTypeOK
  <1>1. CatalogueInv => CatalogueTypeOK
    BY DEF CatalogueInv
  <1> QED BY <1>1, CatalogueInvariance, PTL

\* A match deals the cards of the pool that its row names (code: the join, whose
\* queue may be pointed elsewhere before it commits).
THEOREM MatchesDealTheirPool == CatalogueSpec => []DealtFromMatchPool
  <1>1. CatalogueInv => DealtFromMatchPool
    BY DEF CatalogueInv
  <1> QED BY <1>1, CatalogueInvariance, PTL

\* No row refers to one that is gone (code: the routes that delete, the foreign
\* keys, and the insert that follows BeatSaver's answer).
THEOREM NoRowDangles == CatalogueSpec => []NothingDangles
  <1>1. CatalogueInv => NothingDangles
    BY DEF CatalogueInv
  <1> QED BY <1>1, CatalogueInvariance, PTL
=============================================================================
