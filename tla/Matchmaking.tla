----------------------------- MODULE Matchmaking -----------------------------
(***************************************************************************)
(* How players meet: queue.service.ts, mockClient.service.ts, the bans and *)
(* timeouts of moderation.route.ts and the disconnect handler, as rows of  *)
(* queued_players and match_participants.                                  *)
(*                                                                         *)
(* A slot executes one request at a time. PostgreSQL runs at READ          *)
(* COMMITTED: each read of a transaction sees what is committed by then,   *)
(* and its writes appear together when it commits, or never when a unique  *)
(* index rejects one of them. Joins of one queue are serialized by an      *)
(* advisory lock; nothing serializes joins of two queues, or a join with   *)
(* anything else. What happens inside a match is MatchEngine's business:   *)
(* here a match only ends.                                                 *)
(*                                                                         *)
(* There is one season, every queue is open to everybody, and its pool has *)
(* the ten maps that a match takes.                                        *)
(***************************************************************************)
EXTENDS Naturals

CONSTANTS Users,    \* accounts with a linked platform
          Queues,
          NoQueue,  \* "not in a queue", "not made through a queue's lock"
          Slots,    \* requests that are executed at the same time
          Games,    \* names of matches that still have an active player
          Enabled   \* the optional kinds of request that are issued

Kinds == {"leave", "mock", "moderation", "disconnect", "refusal", "crash"}

ASSUME MatchmakingAssumption == NoQueue \notin Queues /\ Enabled \subseteq Kinds

VARIABLES queued,      \* queued[u]: the queue of u's row in queued_players
          games,       \* the competitors that match_participants calls active
          restricted,  \* users with a ban or a timeout in force
          gone,        \* history: users who have not joined since they left
          req          \* what each slot is executing, and what it has read

vars == <<queued, games, restricted, gone, req>>

JoinOp == {"join_lock", "join_active", "join_pair", "join_commit"}
MockOp == {"mock_lock", "mock_check", "mock_commit"}
\* The transaction holds the advisory lock of its queue.
LockedOp == (JoinOp \cup MockOp) \ {"join_lock", "mock_lock"}
Op == {"idle", "timeout_dequeue", "disconnect_forfeit"} \cup JoinOp \cup MockOp

GameRow == [players : SUBSET Users,             \* the active competitors
            mocked : SUBSET Users,              \* those a developer controls
            via : Queues \cup {NoQueue}]        \* whose lock it was made under
NoGame == [players |-> {}, mocked |-> {}, via |-> NoQueue]

\* What a request is for, the queue whose lock it takes, and what it has read:
\* the two oldest entries and who of them may not play, or the queue of a mock
\* owner's entry.
Request == [op : Op, user : SUBSET Users, queue : Queues \cup {NoQueue},
            pair : SUBSET Users, invalid : SUBSET Users,
            entry : Queues \cup {NoQueue}]
Idle == [op |-> "idle", user |-> {}, queue |-> NoQueue,
         pair |-> {}, invalid |-> {}, entry |-> NoQueue]

Goto(s, r) == req' = [req EXCEPT ![s] = r]
At(s, op) == req[s].op = op

NoQueueLock(s, q) == TRUE   \* mutant: joins of a queue may overlap
QueueLockFree(s, q) ==
    \A t \in Slots : req[t].op \in LockedOp /\ req[t].queue = q => t = s

InMatch(u) == \E g \in Games : u \in games[g].players
PlaysHimself(u) == \E g \in Games : u \in games[g].players \ games[g].mocked

NoSeatIndex(U) == TRUE      \* mutant: a user may compete in two matches
\* match_participants_one_active_match_idx, queued_players_one_queue_per_user_idx
SeatsFree(U) == \A u \in U : ~InMatch(u)
RowFree(u) == queued[u] = NoQueue

\* The rows of a new match; an earlier match's name is used again when
\* nobody is active in it any more.
Create(U, mocked, q) ==
    \E g \in Games :
        /\ games[g].players = {}
        /\ games' = [games EXCEPT ![g] =
                        [players |-> U, mocked |-> mocked, via |-> q]]

\* The queue entries `rows` without those of the users in U.
Without(rows, U) == [u \in Users |-> IF u \in U THEN NoQueue ELSE rows[u]]

Init ==
    /\ queued = [u \in Users |-> NoQueue]
    /\ games = [g \in Games |-> NoGame]
    /\ restricted = {}
    /\ gone = {}
    /\ req = [s \in Slots |-> Idle]

-----------------------------------------------------------------------------
(* join: one transaction.  Its checks come before the lock, its reads of   *)
(* other rows after it, one by one.                                        *)

JoinBegin(s, u, q) ==
    /\ At(s, "idle")
    /\ u \notin restricted
    /\ gone' = gone \ {u}
    /\ Goto(s, [Idle EXCEPT !.op = "join_lock", !.user = {u}, !.queue = q])
    /\ UNCHANGED <<queued, games, restricted>>

\* Lock, then alreadyQueued; a refusal ends the request.
JoinLock(s) ==
    /\ At(s, "join_lock")
    /\ QueueLockFree(s, req[s].queue)
    /\ \E u \in req[s].user :
          Goto(s, IF RowFree(u) THEN [req[s] EXCEPT !.op = "join_active"]
                                ELSE Idle)
    /\ UNCHANGED <<queued, games, restricted, gone>>

SkipActiveCheck(s) ==   \* mutant: the active match is not looked for
    /\ At(s, "join_active")
    /\ Goto(s, [req[s] EXCEPT !.op = "join_pair"])
    /\ UNCHANGED <<queued, games, restricted, gone>>
JoinActive(s) ==
    /\ At(s, "join_active")
    /\ \E u \in req[s].user :
          Goto(s, IF InMatch(u) THEN Idle
                                ELSE [req[s] EXCEPT !.op = "join_pair"])
    /\ UNCHANGED <<queued, games, restricted, gone>>

\* The transaction inserts its own entry, which only it sees (or fails, when
\* the user has queued elsewhere by now), and reads the two oldest entries of
\* the queue and who of them may not play.
JoinPair(s) ==
    /\ At(s, "join_pair")
    /\ \E u \in req[s].user :
          LET waiting == {v \in Users : queued[v] = req[s].queue} \cup {u}
          IN  \/ ~RowFree(u) /\ Goto(s, Idle)
              \/ /\ RowFree(u)
                 /\ \E a, b \in waiting :
                       /\ a = b => waiting = {a}
                       /\ Goto(s, [req[s] EXCEPT
                              !.op = "join_commit", !.pair = {a, b},
                              !.invalid = {a, b} \cap restricted])
    /\ UNCHANGED <<queued, games, restricted, gone>>

\* The own entry is committed together with what follows from the reads: the
\* player waits, or those who may not play are removed, or the pair plays and
\* exactly the two entries that were read are deleted.  A row that a unique
\* index rejects undoes all of it.
JoinCommit(s) ==
    /\ At(s, "join_commit")
    /\ \E u \in req[s].user :
          LET q == req[s].queue
              pair == req[s].pair
              invalid == req[s].invalid
              entered == [queued EXCEPT ![u] = q]
          IN  \/ /\ RowFree(u)
                 /\ pair = {u}
                 /\ queued' = entered
                 /\ UNCHANGED games
              \/ /\ RowFree(u)
                 /\ pair # {u} /\ invalid # {}
                 /\ queued' = Without(entered, invalid)
                 /\ UNCHANGED games
              \/ /\ RowFree(u)
                 /\ pair # {u} /\ invalid = {} /\ SeatsFree(pair)
                 /\ Create(pair, {}, q)
                 /\ queued' = Without(entered, {v \in pair : entered[v] = q})
              \/ /\ ~RowFree(u) \/ (pair # {u} /\ invalid = {} /\ ~SeatsFree(pair))
                 /\ UNCHANGED <<queued, games>>
    /\ Goto(s, Idle)
    /\ UNCHANGED <<restricted, gone>>

-----------------------------------------------------------------------------
(* createQueuedMatch: a queued developer is paired with an impersonated    *)
(* user; createMatch: two impersonated users, no lock, and no read that    *)
(* another transaction could make stale.                                   *)

MockBegin(s, u) ==
    /\ "mock" \in Enabled
    /\ At(s, "idle")
    /\ queued[u] # NoQueue
    /\ Goto(s, [Idle EXCEPT !.op = "mock_lock", !.user = {u},
                            !.queue = queued[u]])
    /\ UNCHANGED <<queued, games, restricted, gone>>

\* Lock, then the entry is read again, in whatever queue it is by now.
MockLock(s) ==
    /\ At(s, "mock_lock")
    /\ QueueLockFree(s, req[s].queue)
    /\ \E u \in req[s].user :
          Goto(s, IF RowFree(u) THEN Idle
                  ELSE [req[s] EXCEPT !.op = "mock_check", !.entry = queued[u]])
    /\ UNCHANGED <<queued, games, restricted, gone>>

MockCheck(s, m) ==
    /\ At(s, "mock_check")
    /\ m \notin req[s].user
    /\ Goto(s, IF InMatch(m) \/ ~RowFree(m) THEN Idle
               ELSE [req[s] EXCEPT !.op = "mock_commit",
                                   !.pair = req[s].user \cup {m}])
    /\ UNCHANGED <<queued, games, restricted, gone>>

\* The entry that was read is deleted.  Without the lock of its queue it may
\* have been deleted and made again meanwhile, and the new one stays.
MockCommit(s) ==
    /\ At(s, "mock_commit")
    /\ \/ /\ SeatsFree(req[s].pair)
          /\ Create(req[s].pair, req[s].pair \ req[s].user, req[s].queue)
          /\ \/ queued' = Without(queued,
                        {u \in req[s].user : queued[u] = req[s].entry})
             \/ req[s].entry # req[s].queue /\ UNCHANGED queued
       \/ ~SeatsFree(req[s].pair) /\ UNCHANGED <<queued, games>>
    /\ Goto(s, Idle)
    /\ UNCHANGED <<restricted, gone>>

MockMatch(a, b) ==
    /\ "mock" \in Enabled
    /\ a # b
    /\ SeatsFree({a, b})
    /\ Create({a, b}, {a, b}, NoQueue)
    /\ UNCHANGED <<queued, restricted, gone, req>>

-----------------------------------------------------------------------------
(* Leaving, moderation, disconnects, and the end of matches.               *)

Leave(u) ==
    /\ "leave" \in Enabled
    /\ ~RowFree(u)
    /\ queued' = Without(queued, {u})
    /\ UNCHANGED <<games, restricted, gone, req>>

Ban(u) ==
    /\ "moderation" \in Enabled
    /\ restricted' = restricted \cup {u}
    /\ queued' = Without(queued, {u})
    /\ UNCHANGED <<games, gone, req>>

\* The timeout is stored in one transaction, the queue entry deleted after it.
TimeoutUser(s, u) ==
    /\ "moderation" \in Enabled
    /\ At(s, "idle")
    /\ restricted' = restricted \cup {u}
    /\ Goto(s, [Idle EXCEPT !.op = "timeout_dequeue", !.user = {u}])
    /\ UNCHANGED <<queued, games, gone>>

TimeoutDequeue(s) ==
    /\ At(s, "timeout_dequeue")
    /\ queued' = Without(queued, req[s].user)
    /\ Goto(s, Idle)
    /\ UNCHANGED <<games, restricted, gone>>

\* The last restriction of a user ends: a timeout expires, or a moderator
\* removes it or lifts the ban.
Unrestrict(u) ==
    /\ u \in restricted
    /\ restricted' = restricted \ {u}
    /\ UNCHANGED <<queued, games, gone, req>>

\* The clientDisconnect packet, or the plugin's socket is gone: the queue entry
\* goes first, then the match is looked for and forfeited.
Disconnect(s, u) ==
    /\ "disconnect" \in Enabled
    /\ At(s, "idle")
    /\ queued' = Without(queued, {u})
    /\ gone' = gone \cup {u}
    /\ Goto(s, [Idle EXCEPT !.op = "disconnect_forfeit", !.user = {u}])
    /\ UNCHANGED <<games, restricted>>

\* A controlled identity is not forfeited; a forfeit of a real match costs the
\* user a timeout.  forfeitMatch refuses a match that is paused, or that has
\* ended since it was found (the user may play another by now).
DisconnectForfeit(s) ==
    /\ At(s, "disconnect_forfeit")
    /\ \E u \in req[s].user :
          \/ \E g \in Games :
                /\ u \in games[g].players \ games[g].mocked
                /\ games' = [games EXCEPT ![g] = NoGame]
                /\ restricted' = IF games[g].mocked = {} THEN restricted \cup {u}
                                                       ELSE restricted
          \/ /\ PlaysHimself(u) => "refusal" \in Enabled
             /\ UNCHANGED <<games, restricted>>
    /\ Goto(s, Idle)
    /\ UNCHANGED <<queued, gone>>

\* Any other way in which a match ends.
MatchOver(g) ==
    /\ games[g] # NoGame
    /\ games' = [games EXCEPT ![g] = NoGame]
    /\ UNCHANGED <<queued, restricted, gone, req>>

\* The process dies, or the connection to the database is lost.
Crash(s) ==
    /\ "crash" \in Enabled
    /\ req[s] # Idle
    /\ Goto(s, Idle)
    /\ UNCHANGED <<queued, games, restricted, gone>>

Join(s) ==
    \/ \E u \in Users, q \in Queues : JoinBegin(s, u, q)
    \/ JoinLock(s) \/ JoinActive(s) \/ JoinPair(s) \/ JoinCommit(s)
Mock(s) ==
    \/ \E u \in Users : MockBegin(s, u) \/ MockCheck(s, u)
    \/ MockLock(s) \/ MockCommit(s)
Remove(s) ==
    \/ \E u \in Users : TimeoutUser(s, u) \/ Disconnect(s, u)
    \/ TimeoutDequeue(s) \/ DisconnectForfeit(s)
Single ==
    \/ \E u \in Users : Leave(u) \/ Ban(u) \/ Unrestrict(u)
    \/ \E u, v \in Users : MockMatch(u, v)
    \/ \E g \in Games : MatchOver(g)

Next == Single \/ \E s \in Slots : Join(s) \/ Mock(s) \/ Remove(s) \/ Crash(s)

Spec == Init /\ [][Next]_vars

-----------------------------------------------------------------------------
(* Properties.                                                             *)

\* Every row and request is well typed.
TypeOK ==
    /\ queued \in [Users -> Queues \cup {NoQueue}]
    /\ games \in [Games -> GameRow]
    /\ restricted \subseteq Users
    /\ gone \subseteq Users
    /\ req \in [Slots -> Request]

\* Nobody competes in two matches, although mock matches are made without a
\* lock and two queues pair the same user at once.
OneMatchEach ==
    \A g, h \in Games :
        g # h => games[g].players \cap games[h].players = {}

\* Two players never wait in one queue beside each other: whichever of two
\* concurrent joins comes second finds the first and plays with it.  (Only a
\* join looks for a pair, so two that missed each other would both wait on.)
AtMostOneWaits ==
    \A u, v \in Users : queued[u] = queued[v] /\ queued[u] # NoQueue => u = v

\* Whoever a queue has put into a match is not waiting in that queue any more,
\* whatever that player leaves, joins or ends meanwhile.
MatchedIsDequeued ==
    \A u \in Users, g \in Games :
        u \in games[g].players /\ queued[u] # NoQueue => queued[u] # games[g].via

\* The advisory lock of a queue has one holder.
LockExclusive ==
    \A s, t \in Slots :
        /\ req[s].op \in LockedOp /\ req[t].op \in LockedOp
        /\ req[s].queue = req[t].queue
        => s = t

\* What a request relies on when it commits still holds then, because whoever
\* could change it needs the lock that the request holds: `rows` are the queue
\* entries, `seats` the matches.
Sound(r, rows, seats) ==
    /\ r.op # "idle" => \E u \in Users : r.user = {u}
    /\ r.op \in JoinOp \cup MockOp => r.queue \in Queues
    /\ r.op \in {"join_pair", "join_commit"}
          => \A u \in r.user, g \in Games :
                u \in seats[g].players => seats[g].via # r.queue
    /\ r.op = "join_commit"
          => /\ r.user \subseteq r.pair /\ r.invalid \subseteq r.pair
             /\ \E a, b \in Users : r.pair = {a, b}
             /\ \A v \in Users : rows[v] = r.queue => v \in r.pair
    /\ r.op \in {"mock_check", "mock_commit"}
          => \A u \in r.user : rows[u] = r.queue => r.entry = r.queue
    /\ r.op = "mock_commit"
          => \E u \in r.user, v \in Users \ r.user :
                r.pair = {u, v} /\ rows[v] # r.queue

\* The inductive invariant: what the properties above rest on.
MatchmakingInv ==
    /\ TypeOK
    /\ LockExclusive
    /\ \A s \in Slots : Sound(req[s], queued, games)
    /\ OneMatchEach /\ AtMostOneWaits /\ MatchedIsDequeued

\* "removes a queue entry or forfeits an active match": once the disconnect of
\* a user has been handled, and until the next join, the user neither waits nor
\* plays, except as an identity that a developer controls.
DisconnectedIsOut ==
    \A u \in gone :
        \/ \E s \in Slots : At(s, "disconnect_forfeit") /\ u \in req[s].user
        \/ RowFree(u) /\ ~PlaysHimself(u)

-----------------------------------------------------------------------------
(* The abstract specification: what all of this amounts to for the players *)
(* is a lobby in which everything happens at once.                         *)

Lobby == INSTANCE Pairing WITH
    waiting <- queued,
    matches <- {[players |-> games[g].players, queue |-> games[g].via] :
                    g \in {h \in Games : games[h].players # {}}}

\* The requests, one by one or overlapping, with their stale reads, lost locks
\* and crashes, implement Pairing.
ImplementsPairing == Lobby!Spec
=============================================================================
