-------------------------- MODULE MatchmakingProofs --------------------------
(***************************************************************************)
(* MatchmakingInv is inductive, for any number of users, queues and        *)
(* concurrent requests: nobody competes in two matches, two players never  *)
(* wait beside each other, and whoever a queue has matched has left it.    *)
(*                                                                         *)
(* Every step either takes entries and matches away (Shrinks), or leaves   *)
(* the data alone and moves one request, or commits a join or a mock match *)
(* under a lock (CommitInv).  Only the last kind adds rows to a queue,     *)
(* and then only to its own.                                               *)
(***************************************************************************)
EXTENDS Matchmaking, TLAPS

\* What a request relies on concerns its own queue: a step that adds neither an
\* entry nor a match of that queue does not disturb it (code: what the lock is
\* taken for).
LEMMA SoundStays ==
    ASSUME NEW r, Sound(r, queued, games),
           \A v \in Users : queued'[v] = r.queue /\ r.queue \in Queues
                                => queued[v] = r.queue,
           \A g \in Games, u \in Users :
               /\ u \in games'[g].players /\ games'[g].via = r.queue
               /\ r.queue \in Queues
               => u \in games[g].players /\ games[g].via = r.queue
    PROVE  Sound(r, queued', games')
  <1>1. CASE r.op \notin JoinOp \cup MockOp
    BY <1>1 DEF Sound, JoinOp, MockOp
  <1>2. CASE r.op \in JoinOp \cup MockOp
    <2>1. r.queue \in Queues /\ \E u \in Users : r.user = {u}
      BY <1>2 DEF Sound, JoinOp, MockOp
    <2>2. PICK w \in Users : r.user = {w}
      BY <2>1
    <2>3. r.op \in {"join_pair", "join_commit"}
            => \A u \in r.user, g \in Games :
                  u \in games'[g].players => games'[g].via # r.queue
      BY <2>1, <2>2 DEF Sound
    <2>4. r.op = "join_commit"
            => /\ r.user \subseteq r.pair /\ r.invalid \subseteq r.pair
               /\ \E a, b \in Users : r.pair = {a, b}
               /\ \A v \in Users : queued'[v] = r.queue => v \in r.pair
      BY <2>1 DEF Sound
    <2>5. r.op \in {"mock_check", "mock_commit"}
            => \A u \in r.user : queued'[u] = r.queue => r.entry = r.queue
      BY <2>1, <2>2 DEF Sound
    <2>6. r.op = "mock_commit"
            => \E u \in r.user, v \in Users \ r.user :
                  r.pair = {u, v} /\ queued'[v] # r.queue
      BY <2>1 DEF Sound
    <2> QED
      BY <2>1, <2>3, <2>4, <2>5, <2>6 DEF Sound
  <1> QED BY <1>1, <1>2

\* Entries and matches disappear, and nothing else happens to them.
Shrinks ==
    /\ \A v \in Users : queued'[v] \in {queued[v], NoQueue}
    /\ \A g \in Games : games'[g] \in {games[g], NoGame}

\* Taking entries and matches away disturbs none of the three properties (code:
\* leave, ban, timeout, disconnect, the end of a match).
LEMMA ShrinkKeepsData ==
    ASSUME Shrinks, OneMatchEach, AtMostOneWaits, MatchedIsDequeued
    PROVE  OneMatchEach' /\ AtMostOneWaits' /\ MatchedIsDequeued'
  <1>1. \A v \in Users : queued'[v] # NoQueue => queued'[v] = queued[v]
    BY DEF Shrinks
  <1>2. \A g \in Games : games'[g].players # {} => games'[g] = games[g]
    BY DEF Shrinks, NoGame
  <1>3. OneMatchEach'
    BY <1>2 DEF OneMatchEach
  <1>4. AtMostOneWaits'
    BY <1>1 DEF AtMostOneWaits
  <1>5. MatchedIsDequeued'
    BY <1>1, <1>2 DEF MatchedIsDequeued
  <1> QED BY <1>3, <1>4, <1>5

\* Nor what a request relies on.
LEMMA ShrinkKeepsSound ==
    ASSUME Shrinks, NEW r, Sound(r, queued, games)
    PROVE  Sound(r, queued', games')
  <1>1. \A v \in Users : queued'[v] = r.queue /\ r.queue \in Queues
                             => queued[v] = r.queue
    BY MatchmakingAssumption DEF Shrinks
  <1>2. \A g \in Games, u \in Users :
            /\ u \in games'[g].players /\ games'[g].via = r.queue
            /\ r.queue \in Queues
            => u \in games[g].players /\ games[g].via = r.queue
    BY DEF Shrinks, NoGame
  <1> QED BY <1>1, <1>2, SoundStays

\* A step of no request, or of one, that only takes things away (code: every
\* statement except the commit of a new match or entry).
LEMMA MoveInv ==
    ASSUME MatchmakingInv, TypeOK', Shrinks,
           NEW s \in Slots, NEW r, req' = [req EXCEPT ![s] = r], Sound(r, queued', games'),
           r.op \in LockedOp => QueueLockFree(s, r.queue)
    PROVE  MatchmakingInv'
  <1>1. \A t \in Slots : req'[t] = IF t = s THEN r ELSE req[t]
    BY DEF MatchmakingInv, TypeOK
  <1>2. LockExclusive'
    BY <1>1 DEF MatchmakingInv, LockExclusive, QueueLockFree
  <1>3. \A t \in Slots : Sound(req'[t], queued', games')
    BY <1>1, ShrinkKeepsSound DEF MatchmakingInv
  <1> QED
    BY <1>2, <1>3, ShrinkKeepsData DEF MatchmakingInv

\* A step of no request that only takes things away keeps the invariant (code:
\* leave, ban, the end of a match).
LEMMA StillInv ==
    ASSUME MatchmakingInv, TypeOK', Shrinks, UNCHANGED req
    PROVE  MatchmakingInv'
  <1>1. LockExclusive'
    BY DEF MatchmakingInv, LockExclusive
  <1>2. \A t \in Slots : Sound(req'[t], queued', games')
    BY ShrinkKeepsSound DEF MatchmakingInv
  <1> QED
    BY <1>1, <1>2, ShrinkKeepsData DEF MatchmakingInv

\* A request that is over, or that needs no lock, relies on nothing.
LEMMA IdleIsSound == Sound(Idle, queued', games') /\ Idle.op \notin LockedOp
  BY DEF Sound, Idle, JoinOp, MockOp, LockedOp

\* Two transactions that hold locks hold the locks of different queues.
LEMMA HolderIsAlone ==
    ASSUME MatchmakingInv, NEW s \in Slots, req[s].op \in LockedOp
    PROVE  QueueLockFree(s, req[s].queue)
  BY DEF MatchmakingInv, LockExclusive, QueueLockFree

-----------------------------------------------------------------------------
(* Steps that add nothing.                                                 *)

\* A slot that goes on to a well-typed request leaves the slots well typed.
LEMMA TypeMove ==
    ASSUME TypeOK, NEW s \in Slots, NEW r \in Request, Goto(s, r)
    PROVE  req' \in [Slots -> Request]
  BY DEF TypeOK, Goto

\* The idle request is a request.
LEMMA IdleType == Idle \in Request
  BY DEF Idle, Request, Op

\* A match nobody is active in is a row of match_participants.
LEMMA NoGameType == NoGame \in GameRow
  BY DEF NoGame, GameRow

\* A request goes on without touching the data.
LEMMA StepInv ==
    ASSUME MatchmakingInv, NEW s \in Slots, NEW r \in Request, Goto(s, r),
           UNCHANGED <<queued, games, restricted>>, gone' \subseteq Users,
           Sound(r, queued, games),
           r.op \in LockedOp => QueueLockFree(s, r.queue)
    PROVE  MatchmakingInv'
  <1>1. TypeOK'
    BY TypeMove DEF MatchmakingInv, TypeOK
  <1>2. Shrinks
    BY DEF Shrinks
  <1>3. Sound(r, queued', games')
    BY <1>2, ShrinkKeepsSound
  <1> QED
    BY <1>1, <1>2, <1>3, MoveInv DEF Goto

\* The checks of join before its transaction (code: queue.service.ts, join).
LEMMA JoinBeginInv ==
    ASSUME MatchmakingInv, NEW s \in Slots, NEW u \in Users, NEW q \in Queues,
           JoinBegin(s, u, q)
    PROVE  MatchmakingInv'
  <1> DEFINE r == [Idle EXCEPT !.op = "join_lock", !.user = {u}, !.queue = q]
  <1>1. r \in Request
    BY DEF Idle, Request, Op, JoinOp
  <1>2. Sound(r, queued, games) /\ r.op \notin LockedOp
    BY DEF Sound, Idle, LockedOp, JoinOp, MockOp
  <1>3. gone' \subseteq Users
    BY DEF JoinBegin, MatchmakingInv, TypeOK
  <1> QED
    BY <1>1, <1>2, <1>3, StepInv DEF JoinBegin

\* The advisory lock and alreadyQueued (code: queue.service.ts, join).
LEMMA JoinLockInv ==
    ASSUME MatchmakingInv, NEW s \in Slots, JoinLock(s)
    PROVE  MatchmakingInv'
  <1> DEFINE r == [req[s] EXCEPT !.op = "join_active"]
  <1>1. r \in Request /\ req[s] \in Request
    BY DEF MatchmakingInv, TypeOK, Request, Op, JoinOp
  <1>2. Sound(r, queued, games)
    BY <1>1 DEF Sound, JoinLock, At, MatchmakingInv, JoinOp, MockOp, Request
  <1>3. r.op \in LockedOp => QueueLockFree(s, r.queue)
    BY <1>1 DEF JoinLock, Request
  <1>4. Goto(s, r) \/ Goto(s, Idle)
    BY DEF JoinLock
  <1>5. Sound(Idle, queued, games) /\ Idle.op \notin LockedOp
    BY DEF Sound, Idle, JoinOp, MockOp, LockedOp
  <1>6. gone' \subseteq Users /\ UNCHANGED <<queued, games, restricted>>
    BY DEF JoinLock, MatchmakingInv, TypeOK
  <1> QED
    BY <1>1, <1>2, <1>3, <1>4, <1>5, <1>6, StepInv, IdleType

\* The search for an active match: the user that goes on has none, and none of
\* this queue can be made while the lock is held (code: queue.service.ts, join).
LEMMA JoinActiveInv ==
    ASSUME MatchmakingInv, NEW s \in Slots, JoinActive(s)
    PROVE  MatchmakingInv'
  <1> DEFINE r == [req[s] EXCEPT !.op = "join_pair"]
  <1>1. r \in Request /\ req[s] \in Request
    BY DEF MatchmakingInv, TypeOK, Request, Op, JoinOp
  <1>2. PICK u \in Users : req[s].user = {u}
    BY DEF JoinActive, At, MatchmakingInv, Sound, JoinOp
  <1>3. req[s].queue \in Queues
    BY DEF JoinActive, At, MatchmakingInv, Sound, JoinOp
  <1>4. r.op = "join_pair" /\ r.user = {u} /\ r.queue = req[s].queue
    BY <1>1, <1>2 DEF Request
  <1>5. CASE InMatch(u)
    <2>1. Goto(s, Idle)
      BY <1>2, <1>5 DEF JoinActive
    <2>2. Sound(Idle, queued, games) /\ Idle.op \notin LockedOp
      BY DEF Sound, Idle, JoinOp, MockOp, LockedOp
    <2> QED
      BY <2>1, <2>2, StepInv, IdleType DEF JoinActive, MatchmakingInv, TypeOK
  <1>6. CASE ~InMatch(u)
    <2>1. Goto(s, r)
      BY <1>2, <1>6 DEF JoinActive
    <2>2. Sound(r, queued, games)
      BY <1>3, <1>4, <1>6 DEF Sound, InMatch
    <2>3. QueueLockFree(s, r.queue)
      BY <1>4, HolderIsAlone DEF JoinActive, At, LockedOp, JoinOp
    <2> QED
      BY <1>1, <2>1, <2>2, <2>3, StepInv DEF JoinActive, MatchmakingInv, TypeOK
  <1> QED BY <1>5, <1>6

\* The pair that is read is everybody who is queued, since at most one waits
\* (code: queue.service.ts, join).
LEMMA JoinPairInv ==
    ASSUME MatchmakingInv, NEW s \in Slots, JoinPair(s)
    PROVE  MatchmakingInv'
  <1>1. req[s] \in Request
    BY DEF MatchmakingInv, TypeOK
  <1>2. PICK u \in Users : req[s].user = {u}
    BY DEF JoinPair, At, MatchmakingInv, Sound, JoinOp
  <1>3. req[s].queue \in Queues
    BY DEF JoinPair, At, MatchmakingInv, Sound, JoinOp
  <1> DEFINE waiting == {v \in Users : queued[v] = req[s].queue} \cup {u}
             r(a, b) == [req[s] EXCEPT !.op = "join_commit", !.pair = {a, b},
                                       !.invalid = {a, b} \cap restricted]
  <1>4. CASE Goto(s, Idle)
    <2>1. Sound(Idle, queued, games) /\ Idle.op \notin LockedOp
      BY DEF Sound, Idle, JoinOp, MockOp, LockedOp
    <2> QED
      BY <1>4, <2>1, StepInv, IdleType DEF JoinPair, MatchmakingInv, TypeOK
  <1>5. ASSUME NEW a \in waiting, NEW b \in waiting, a = b => waiting = {a},
               RowFree(u), Goto(s, r(a, b))
        PROVE  MatchmakingInv'
    <2>1. a \in Users /\ b \in Users
      OBVIOUS
    <2>2. r(a, b) \in Request
      BY <1>1, <2>1 DEF MatchmakingInv, TypeOK, Request, Op, JoinOp
    <2>3. /\ r(a, b).op = "join_commit" /\ r(a, b).user = {u}
          /\ r(a, b).queue = req[s].queue /\ r(a, b).pair = {a, b}
          /\ r(a, b).invalid = {a, b} \cap restricted
      BY <1>1, <1>2 DEF Request
    <2>4. waiting = {a, b}
      \* At most one other player waits, so the two oldest are all there are.
      <3>1. ASSUME NEW v \in waiting PROVE v \in {a, b}
        BY <1>3, <1>5, MatchmakingAssumption
           DEF MatchmakingInv, AtMostOneWaits
      <3> QED BY <3>1
    <2>5. \A g \in Games : u \in games[g].players => games[g].via # req[s].queue
      BY <1>2 DEF JoinPair, At, MatchmakingInv, Sound
    <2>6. Sound(r(a, b), queued, games)
      <3> HIDE DEF r
      <3> QED
        BY <1>3, <2>1, <2>3, <2>4, <2>5 DEF Sound
    <2>7. QueueLockFree(s, r(a, b).queue)
      BY <2>3, HolderIsAlone DEF JoinPair, At, LockedOp, JoinOp
    <2> HIDE DEF r
    <2> QED
      BY <1>5, <2>2, <2>6, <2>7, StepInv DEF JoinPair, MatchmakingInv, TypeOK
  <1> QED
    BY <1>2, <1>4, <1>5 DEF JoinPair

\* The first read of the owner's entry (code: createQueuedMatch).
LEMMA MockBeginInv ==
    ASSUME MatchmakingInv, NEW s \in Slots, NEW u \in Users, MockBegin(s, u)
    PROVE  MatchmakingInv'
  <1> DEFINE r == [Idle EXCEPT !.op = "mock_lock", !.user = {u},
                              !.queue = queued[u]]
  <1>1. queued[u] \in Queues
    BY DEF MockBegin, MatchmakingInv, TypeOK
  <1>2. r \in Request
    BY <1>1 DEF Idle, Request, Op, MockOp
  <1>3. Sound(r, queued, games) /\ r.op \notin LockedOp
    BY <1>1 DEF Sound, Idle, LockedOp, JoinOp, MockOp
  <1> QED
    BY <1>2, <1>3, StepInv DEF MockBegin, MatchmakingInv, TypeOK

\* The owner's entry, read again under the lock (code: createQueuedMatch).
LEMMA MockLockInv ==
    ASSUME MatchmakingInv, NEW s \in Slots, MockLock(s)
    PROVE  MatchmakingInv'
  <1>1. req[s] \in Request
    BY DEF MatchmakingInv, TypeOK
  <1>2. PICK u \in Users : req[s].user = {u}
    BY DEF MockLock, At, MatchmakingInv, Sound, MockOp
  <1>3. req[s].queue \in Queues
    BY DEF MockLock, At, MatchmakingInv, Sound, MockOp
  <1> DEFINE r == [req[s] EXCEPT !.op = "mock_check", !.entry = queued[u]]
  <1>4. r \in Request
    BY <1>1 DEF MatchmakingInv, TypeOK, Request, Op, MockOp
  <1>5. /\ r.op = "mock_check" /\ r.user = {u} /\ r.queue = req[s].queue
        /\ r.entry = queued[u]
    BY <1>1, <1>2 DEF Request
  <1>6. Sound(r, queued, games)
    BY <1>3, <1>5 DEF Sound
  <1>7. QueueLockFree(s, r.queue)
    BY <1>5 DEF MockLock
  <1>8. Goto(s, r) \/ Goto(s, Idle)
    BY <1>2 DEF MockLock
  <1>9. Sound(Idle, queued, games) /\ Idle.op \notin LockedOp
    BY DEF Sound, Idle, JoinOp, MockOp, LockedOp
  <1> QED
    BY <1>4, <1>6, <1>7, <1>8, <1>9, StepInv, IdleType
       DEF MockLock, MatchmakingInv, TypeOK

\* The controlled identity neither plays nor waits (code: createQueuedMatch).
LEMMA MockCheckInv ==
    ASSUME MatchmakingInv, NEW s \in Slots, NEW m \in Users, MockCheck(s, m)
    PROVE  MatchmakingInv'
  <1>1. req[s] \in Request
    BY DEF MatchmakingInv, TypeOK
  <1>2. PICK u \in Users : req[s].user = {u}
    BY DEF MockCheck, At, MatchmakingInv, Sound, MockOp
  <1>3. req[s].queue \in Queues
    BY DEF MockCheck, At, MatchmakingInv, Sound, MockOp
  <1> DEFINE r == [req[s] EXCEPT !.op = "mock_commit",
                                 !.pair = req[s].user \cup {m}]
  <1>4. CASE InMatch(m) \/ ~RowFree(m)
    <2>1. Sound(Idle, queued, games) /\ Idle.op \notin LockedOp
      BY DEF Sound, Idle, JoinOp, MockOp, LockedOp
    <2> QED
      BY <1>4, <2>1, StepInv, IdleType DEF MockCheck, MatchmakingInv, TypeOK
  <1>5. CASE ~InMatch(m) /\ RowFree(m)
    <2>1. r \in Request
      BY <1>1, <1>2 DEF Request, Op, MockOp
    <2>2. /\ r.op = "mock_commit" /\ r.user = {u} /\ r.queue = req[s].queue
          /\ r.pair = {u, m} /\ r.entry = req[s].entry
      BY <1>1, <1>2 DEF Request
    <2>3. queued[u] = req[s].queue => req[s].entry = req[s].queue
      BY <1>2 DEF MockCheck, At, MatchmakingInv, Sound
    <2>4. Sound(r, queued, games)
      <3>1. m \in Users \ {u} /\ queued[m] # req[s].queue
        BY <1>2, <1>3, <1>5, MatchmakingAssumption DEF MockCheck, RowFree
      <3> HIDE DEF r
      <3> QED
        BY <1>3, <2>2, <2>3, <3>1 DEF Sound
    <2>5. QueueLockFree(s, r.queue)
      BY <2>2, HolderIsAlone DEF MockCheck, At, LockedOp, MockOp
    <2>6. Goto(s, r)
      BY <1>5 DEF MockCheck
    <2> HIDE DEF r
    <2> QED
      BY <2>1, <2>4, <2>5, <2>6, StepInv DEF MockCheck, MatchmakingInv, TypeOK
  <1> QED BY <1>4, <1>5

\* Entries without those of some users: fewer of them (code: every delete on
\* queued_players).
LEMMA WithoutShrinks ==
    ASSUME TypeOK, NEW U, queued' = Without(queued, U)
    PROVE  /\ queued' \in [Users -> Queues \cup {NoQueue}]
           /\ \A v \in Users : queued'[v] \in {queued[v], NoQueue}
  BY DEF Without, TypeOK

\* Leaving, bans and the end of a restriction (code: leave, the ban routes).
LEMMA UserStepInv ==
    ASSUME MatchmakingInv, NEW u \in Users, Leave(u) \/ Ban(u) \/ Unrestrict(u)
    PROVE  MatchmakingInv'
  <1>1. UNCHANGED req
    BY DEF Leave, Ban, Unrestrict
  <1>2. CASE Leave(u) \/ Ban(u)
    <2>1. TypeOK' /\ Shrinks
      BY <1>2, WithoutShrinks DEF Leave, Ban, Shrinks, MatchmakingInv, TypeOK
    <2> QED BY <1>1, <2>1, StillInv
  <1>3. CASE Unrestrict(u)
    <2>1. TypeOK' /\ Shrinks
      BY <1>3 DEF Unrestrict, Shrinks, MatchmakingInv, TypeOK
    <2> QED BY <1>1, <2>1, StillInv
  <1> QED BY <1>2, <1>3

\* The end of a match frees its seats (code: settle, cancel, forfeit).
LEMMA MatchOverInv ==
    ASSUME MatchmakingInv, NEW g \in Games, MatchOver(g)
    PROVE  MatchmakingInv'
  <1>1. TypeOK' /\ Shrinks
    BY NoGameType DEF MatchOver, Shrinks, MatchmakingInv, TypeOK
  <1> QED BY <1>1, StillInv DEF MatchOver

\* Timeouts, disconnects and crashes (code: timeoutUser and its route, the
\* disconnect handler, the exit of the process).
LEMMA RemoveInv ==
    ASSUME MatchmakingInv, NEW s \in Slots, Remove(s) \/ Crash(s)
    PROVE  MatchmakingInv'
  <1>1. ASSUME NEW r \in Request, Goto(s, r), Shrinks, r.op \notin LockedOp,
               r.op \notin JoinOp \cup MockOp,
               r.op # "idle" => \E u \in Users : r.user = {u},
               queued' \in [Users -> Queues \cup {NoQueue}],
               games' \in [Games -> GameRow],
               restricted' \subseteq Users, gone' \subseteq Users
        PROVE  MatchmakingInv'
    <2>1. TypeOK'
      BY <1>1, TypeMove DEF MatchmakingInv, TypeOK
    <2>2. Sound(r, queued', games')
      BY <1>1 DEF Sound, JoinOp, MockOp
    <2> QED
      BY <1>1, <2>1, <2>2, MoveInv DEF Goto
  <1>2. Idle.op = "idle" /\ Idle.op \notin LockedOp \cup JoinOp \cup MockOp
    BY DEF Idle, LockedOp, JoinOp, MockOp
  <1>3. CASE Crash(s)
    <2>1. Shrinks
      BY <1>3 DEF Crash, Shrinks
    <2> QED
      BY <1>1, <1>2, <1>3, <2>1, IdleType DEF Crash, MatchmakingInv, TypeOK
  <1>4. ASSUME NEW u \in Users, TimeoutUser(s, u)
        PROVE  MatchmakingInv'
    <2> DEFINE r == [Idle EXCEPT !.op = "timeout_dequeue", !.user = {u}]
    <2>1. /\ r \in Request /\ r.op \notin LockedOp \cup JoinOp \cup MockOp
          /\ \E v \in Users : r.user = {v}
      BY DEF Idle, Request, Op, LockedOp, JoinOp, MockOp
    <2>2. Shrinks
      BY <1>4 DEF TimeoutUser, Shrinks
    <2> QED
      BY <1>1, <1>4, <2>1, <2>2 DEF TimeoutUser, MatchmakingInv, TypeOK
  <1>5. ASSUME NEW u \in Users, Disconnect(s, u)
        PROVE  MatchmakingInv'
    <2> DEFINE r == [Idle EXCEPT !.op = "disconnect_forfeit", !.user = {u}]
    <2>1. /\ r \in Request /\ r.op \notin LockedOp \cup JoinOp \cup MockOp
          /\ \E v \in Users : r.user = {v}
      BY DEF Idle, Request, Op, LockedOp, JoinOp, MockOp
    <2>2. Shrinks /\ queued' \in [Users -> Queues \cup {NoQueue}]
      BY <1>5, WithoutShrinks DEF Disconnect, Shrinks, MatchmakingInv
    <2>3. gone' \subseteq Users
      BY <1>5 DEF Disconnect, MatchmakingInv, TypeOK
    <2> QED
      BY <1>1, <1>5, <2>1, <2>2, <2>3 DEF Disconnect, MatchmakingInv, TypeOK
  <1>6. CASE TimeoutDequeue(s)
    <2>1. Shrinks /\ queued' \in [Users -> Queues \cup {NoQueue}]
      BY <1>6, WithoutShrinks DEF TimeoutDequeue, Shrinks, MatchmakingInv
    <2> QED
      BY <1>1, <1>2, <1>6, <2>1, IdleType DEF TimeoutDequeue, MatchmakingInv, TypeOK
  <1>7. CASE DisconnectForfeit(s)
    <2>1. Shrinks /\ games' \in [Games -> GameRow]
      BY <1>7, NoGameType DEF DisconnectForfeit, Shrinks, MatchmakingInv, TypeOK
    <2>2. restricted' \subseteq Users
      BY <1>7 DEF DisconnectForfeit, MatchmakingInv, TypeOK, GameRow
    <2> QED
      BY <1>1, <1>2, <1>7, <2>1, <2>2, IdleType
         DEF DisconnectForfeit, MatchmakingInv, TypeOK
  <1> QED
    BY <1>3, <1>4, <1>5, <1>6, <1>7 DEF Remove

-----------------------------------------------------------------------------
(* Commits: entries and matches of one queue are added, under its lock.    *)

\* A new match seats players who had no seat (code: the index on
\* match_participants).
LEMMA CreateSeats ==
    ASSUME TypeOK, OneMatchEach, NEW U \in SUBSET Users, NEW M \in SUBSET Users,
           NEW q \in Queues \cup {NoQueue}, SeatsFree(U), Create(U, M, q)
    PROVE  /\ games' \in [Games -> GameRow]
           /\ OneMatchEach'
           /\ \A g \in Games : \/ games'[g] = games[g]
                               \/ games'[g].players = U /\ games'[g].via = q
  <1>1. PICK h \in Games :
            games' = [games EXCEPT ![h] = [players |-> U, mocked |-> M, via |-> q]]
    BY DEF Create
  <1>2. [players |-> U, mocked |-> M, via |-> q] \in GameRow
    BY DEF GameRow
  <1>3. games' \in [Games -> GameRow]
    BY <1>1, <1>2 DEF TypeOK
  <1>4. \A g \in Games : games'[g] =
            IF g = h THEN [players |-> U, mocked |-> M, via |-> q] ELSE games[g]
    BY <1>1 DEF TypeOK
  <1>5. \A g \in Games : games[g].players \cap U = {}
    BY DEF SeatsFree, InMatch
  <1>6. OneMatchEach'
    BY <1>4, <1>5 DEF OneMatchEach
  <1> QED BY <1>3, <1>4, <1>6

\* The commit of a lock holder leaves the other requests sound: what it adds
\* concerns its own queue, which none of them holds.
LEMMA CommitInv ==
    ASSUME MatchmakingInv, NEW s \in Slots, req[s].op \in LockedOp, Goto(s, Idle),
           queued' \in [Users -> Queues \cup {NoQueue}],
           games' \in [Games -> GameRow], UNCHANGED <<restricted, gone>>,
           OneMatchEach', AtMostOneWaits', MatchedIsDequeued',
           \A v \in Users : queued'[v] \in {queued[v], NoQueue, req[s].queue},
           \A g \in Games : games'[g] = games[g] \/ games'[g].via = req[s].queue
    PROVE  MatchmakingInv'
  <1>1. TypeOK'
    BY TypeMove, IdleType DEF MatchmakingInv, TypeOK
  <1>2. \A t \in Slots : req'[t] = IF t = s THEN Idle ELSE req[t]
    BY DEF Goto, MatchmakingInv, TypeOK
  <1>3. Idle.op \notin LockedOp \cup JoinOp \cup MockOp
    BY DEF Idle, LockedOp, JoinOp, MockOp
  <1>4. LockExclusive'
    BY <1>2, <1>3 DEF LockExclusive, MatchmakingInv
  <1>5. ASSUME NEW t \in Slots PROVE Sound(req'[t], queued', games')
    <2>1. CASE t = s
      BY <1>2, <2>1, IdleIsSound
    <2>2. CASE t # s /\ req[t].op \in LockedOp
      <3>1. req[t].queue # req[s].queue
        BY <2>2 DEF MatchmakingInv, LockExclusive
      <3>2. Sound(req[t], queued, games)
        BY DEF MatchmakingInv
      <3>3. \A v \in Users :
                queued'[v] = req[t].queue /\ req[t].queue \in Queues
                    => queued[v] = req[t].queue
        BY <3>1, MatchmakingAssumption
      <3>4. \A g \in Games, u \in Users :
                /\ u \in games'[g].players /\ games'[g].via = req[t].queue
                /\ req[t].queue \in Queues
                => u \in games[g].players /\ games[g].via = req[t].queue
        BY <3>1
      <3>5. Sound(req[t], queued', games')
        BY <3>2, <3>3, <3>4, SoundStays
      <3> QED BY <1>2, <2>2, <3>5
    <2>3. CASE t # s /\ req[t].op \notin LockedOp
      <3>1. Sound(req[t], queued, games)
        BY DEF MatchmakingInv
      <3>2. Sound(req[t], queued', games')
        BY <2>3, <3>1 DEF Sound, LockedOp, JoinOp, MockOp
      <3> QED BY <1>2, <2>3, <3>2
    <2> QED BY <2>1, <2>2, <2>3
  <1> QED
    BY <1>1, <1>4, <1>5 DEF MatchmakingInv

\* A match of two controlled identities concerns no queue (code: createMatch).
LEMMA MockMatchInv ==
    ASSUME MatchmakingInv, NEW a \in Users, NEW b \in Users, MockMatch(a, b)
    PROVE  MatchmakingInv'
  <1>1. /\ games' \in [Games -> GameRow] /\ OneMatchEach'
        /\ \A g \in Games :
              \/ games'[g] = games[g]
              \/ games'[g].players = {a, b} /\ games'[g].via = NoQueue
    BY CreateSeats DEF MockMatch, MatchmakingInv
  <1>2. TypeOK'
    BY <1>1 DEF MockMatch, MatchmakingInv, TypeOK
  <1>3. LockExclusive' /\ AtMostOneWaits'
    BY DEF MockMatch, MatchmakingInv, LockExclusive, AtMostOneWaits
  <1>4. MatchedIsDequeued'
    BY <1>1 DEF MockMatch, MatchmakingInv, MatchedIsDequeued
  <1>5. ASSUME NEW t \in Slots PROVE Sound(req'[t], queued', games')
    <2>1. Sound(req[t], queued, games)
      BY DEF MatchmakingInv
    <2>2. \A g \in Games, u \in Users :
              /\ u \in games'[g].players /\ games'[g].via = req[t].queue
              /\ req[t].queue \in Queues
              => u \in games[g].players /\ games[g].via = req[t].queue
      BY <1>1, MatchmakingAssumption
    <2>3. Sound(req[t], queued', games')
      BY <2>1, <2>2, SoundStays DEF MockMatch
    <2> QED BY <2>3 DEF MockMatch
  <1> QED
    BY <1>1, <1>2, <1>3, <1>4, <1>5 DEF MatchmakingInv

\* The match of a queued developer: the entry that is deleted is the one in
\* the queue whose lock is held, if there is one (code: createQueuedMatch).
LEMMA MockCommitInv ==
    ASSUME MatchmakingInv, NEW s \in Slots, MockCommit(s)
    PROVE  MatchmakingInv'
  <1> DEFINE q == req[s].queue
  <1>1. PICK u \in Users : req[s].user = {u}
    BY DEF MockCommit, At, MatchmakingInv, Sound, MockOp
  <1>2. q \in Queues /\ req[s].op = "mock_commit" /\ req[s].op \in LockedOp
    BY DEF MockCommit, At, MatchmakingInv, Sound, MockOp, LockedOp
  <1>3. req[s].pair \in SUBSET Users /\ req[s].user \in SUBSET Users
    BY DEF MatchmakingInv, TypeOK, Request
  <1>4. /\ queued[u] = q => req[s].entry = q
        /\ \E v \in Users \ {u} : req[s].pair = {u, v} /\ queued[v] # q
    BY <1>1, <1>2 DEF MatchmakingInv, Sound
  <1>5. CASE UNCHANGED <<queued, games>>
    <2>1. Shrinks
      BY <1>5 DEF Shrinks
    <2>2. OneMatchEach' /\ AtMostOneWaits' /\ MatchedIsDequeued'
      BY <2>1, ShrinkKeepsData DEF MatchmakingInv
    <2> QED
      BY <1>2, <1>5, <2>2, CommitInv DEF MockCommit, MatchmakingInv, TypeOK
  <1>6. CASE /\ SeatsFree(req[s].pair)
             /\ Create(req[s].pair, req[s].pair \ req[s].user, q)
             /\ \/ queued' = Without(queued,
                        {v \in req[s].user : queued[v] = req[s].entry})
                \/ req[s].entry # q /\ UNCHANGED queued
    <2>1. /\ games' \in [Games -> GameRow] /\ OneMatchEach'
          /\ \A g \in Games :
                \/ games'[g] = games[g]
                \/ games'[g].players = req[s].pair /\ games'[g].via = q
      <3>1. req[s].pair \ req[s].user \in SUBSET Users
        BY <1>3
      <3>2. q \in Queues \cup {NoQueue}
        BY <1>2
      <3>3. TypeOK /\ OneMatchEach
        BY DEF MatchmakingInv
      <3>4. SeatsFree(req[s].pair)
            /\ Create(req[s].pair, req[s].pair \ req[s].user, q)
        BY <1>6
      <3> HIDE DEF q
      <3> QED
        BY <1>3, <3>1, <3>2, <3>3, <3>4, CreateSeats
    <2>2. /\ queued' \in [Users -> Queues \cup {NoQueue}]
          /\ \A v \in Users : queued'[v] \in {queued[v], NoQueue}
      BY <1>6, WithoutShrinks DEF MatchmakingInv, TypeOK
    <2>3. queued'[u] # q
      <3>1. CASE queued[u] = q
        BY <1>1, <1>2, <1>4, <1>6, <3>1, MatchmakingAssumption DEF Without
      <3>2. CASE queued[u] # q
        BY <1>2, <2>2, <3>2, MatchmakingAssumption
      <3> QED BY <3>1, <3>2
    <2>4. \A v \in req[s].pair : queued'[v] # q
      BY <1>2, <1>3, <1>4, <2>2, <2>3, MatchmakingAssumption
    <2>5. AtMostOneWaits'
      BY <2>2 DEF MatchmakingInv, AtMostOneWaits
    <2>6. MatchedIsDequeued'
      BY <1>3, <2>1, <2>2, <2>4 DEF MatchmakingInv, MatchedIsDequeued
    <2> QED
      BY <1>2, <2>1, <2>2, <2>5, <2>6, CommitInv DEF MockCommit
  <1> QED
    BY <1>5, <1>6 DEF MockCommit
\* The four outcomes of a join: the player waits, those who may not play are
\* removed, the pair plays, or an index rejects the rows (code: join).
LEMMA JoinCommitInv ==
    ASSUME MatchmakingInv, NEW s \in Slots, JoinCommit(s)
    PROVE  MatchmakingInv'
  <1> DEFINE q == req[s].queue
             pair == req[s].pair
             invalid == req[s].invalid
  <1>1. PICK u \in Users : req[s].user = {u}
    BY DEF JoinCommit, At, MatchmakingInv, Sound, JoinOp
  <1>2. q \in Queues /\ req[s].op = "join_commit" /\ req[s].op \in LockedOp
    BY DEF JoinCommit, At, MatchmakingInv, Sound, JoinOp, LockedOp
  <1>3. pair \in SUBSET Users /\ q \in Queues \cup {NoQueue}
    BY DEF MatchmakingInv, TypeOK, Request
  <1>4. /\ u \in pair /\ invalid \subseteq pair
        /\ \E a, b \in Users : pair = {a, b}
        /\ \A v \in Users : queued[v] = q => v \in pair
        /\ \A g \in Games : u \in games[g].players => games[g].via # q
    BY <1>1, <1>2 DEF MatchmakingInv, Sound
  <1> DEFINE entered == [queued EXCEPT ![u] = q]
  <1>5. /\ entered \in [Users -> Queues \cup {NoQueue}]
        /\ \A v \in Users : entered[v] = IF v = u THEN q ELSE queued[v]
    BY <1>2 DEF MatchmakingInv, TypeOK
  <1>6. TypeOK /\ OneMatchEach /\ AtMostOneWaits /\ MatchedIsDequeued
    BY DEF MatchmakingInv
  <1>7. UNCHANGED <<restricted, gone>> /\ Goto(s, Idle)
    BY DEF JoinCommit
  <1>8. games \in [Games -> GameRow]
    BY <1>6 DEF TypeOK
  <1> HIDE DEF q, pair, invalid, entered
  <1>9. CASE RowFree(u) /\ pair = {u} /\ queued' = entered /\ UNCHANGED games
    <2>1. \A v \in Users : queued'[v] = q => v = u
      BY <1>4, <1>5, <1>9
    <2>2. AtMostOneWaits'
      BY <1>5, <1>6, <1>9, <2>1 DEF AtMostOneWaits
    <2>3. MatchedIsDequeued'
      BY <1>4, <1>5, <1>6, <1>9 DEF MatchedIsDequeued
    <2>4. OneMatchEach'
      BY <1>6, <1>9 DEF OneMatchEach
    <2>5. \A v \in Users : queued'[v] \in {queued[v], NoQueue, q}
      BY <1>5, <1>9
    <2> QED
      BY <1>2, <1>5, <1>7, <1>8, <1>9, <2>2, <2>3, <2>4, <2>5, CommitInv DEF q
  <1>10. CASE /\ pair # {u} /\ invalid # {}
              /\ queued' = Without(entered, invalid) /\ UNCHANGED games
    <2>1. \A v \in Users :
              queued'[v] = IF v \in invalid THEN NoQueue ELSE entered[v]
      BY <1>10 DEF Without
    <2>2. queued' \in [Users -> Queues \cup {NoQueue}]
      BY <1>5, <1>10 DEF Without
    <2>3. \A v, w \in Users : queued'[v] = q /\ queued'[w] = q => v = w
      \* Both are of the pair, and one of the pair has been removed.
      BY <1>2, <1>4, <1>5, <1>10, <2>1, MatchmakingAssumption
    <2>4. AtMostOneWaits'
      BY <1>5, <1>6, <2>1, <2>3 DEF AtMostOneWaits
    <2>5. MatchedIsDequeued'
      BY <1>4, <1>5, <1>6, <1>10, <2>1 DEF MatchedIsDequeued
    <2>6. OneMatchEach'
      BY <1>6, <1>10 DEF OneMatchEach
    <2>7. \A v \in Users : queued'[v] \in {queued[v], NoQueue, q}
      BY <1>5, <2>1
    <2> QED
      BY <1>2, <1>7, <1>8, <1>10, <2>2, <2>4, <2>5, <2>6, <2>7, CommitInv DEF q
  <1>11. CASE /\ SeatsFree(pair) /\ Create(pair, {}, q)
              /\ queued' = Without(entered, {v \in pair : entered[v] = q})
    <2>1. /\ games' \in [Games -> GameRow] /\ OneMatchEach'
          /\ \A g \in Games : \/ games'[g] = games[g]
                              \/ games'[g].players = pair /\ games'[g].via = q
      BY <1>3, <1>6, <1>11, CreateSeats
    <2>2. queued' \in [Users -> Queues \cup {NoQueue}]
      BY <1>5, <1>11 DEF Without
    <2>3. \A v \in Users : queued'[v] # q
      BY <1>2, <1>4, <1>5, <1>11, MatchmakingAssumption DEF Without
    <2>4. \A v \in Users : queued'[v] \in {queued[v], NoQueue}
      BY <1>5, <1>11, <2>3 DEF Without
    <2>5. AtMostOneWaits'
      BY <1>6, <2>4 DEF AtMostOneWaits
    <2>6. MatchedIsDequeued'
      BY <1>3, <1>6, <2>1, <2>3, <2>4 DEF MatchedIsDequeued
    <2> QED
      BY <1>2, <1>7, <2>1, <2>2, <2>4, <2>5, <2>6, CommitInv DEF q
  <1>12. CASE UNCHANGED <<queued, games>>
    <2>1. Shrinks
      BY <1>12 DEF Shrinks
    <2>2. OneMatchEach' /\ AtMostOneWaits' /\ MatchedIsDequeued'
      BY <1>6, <2>1, ShrinkKeepsData
    <2> QED
      BY <1>2, <1>6, <1>7, <1>8, <1>12, <2>2, CommitInv DEF TypeOK
  <1> QED
    BY <1>1, <1>9, <1>10, <1>11, <1>12 DEF JoinCommit, q, pair, invalid, entered

-----------------------------------------------------------------------------
(* The specification.                                                      *)

\* Every step keeps the invariant (code: every operation of the module).
LEMMA NextInv ==
    ASSUME MatchmakingInv, [Next]_vars
    PROVE  MatchmakingInv'
  <1>1. CASE UNCHANGED vars
    <2>1. TypeOK' /\ Shrinks
      BY <1>1 DEF vars, MatchmakingInv, TypeOK, Shrinks
    <2> QED
      BY <1>1, <2>1, StillInv DEF vars
  <1>2. CASE Single
    <2>1. ASSUME NEW u \in Users, Leave(u) \/ Ban(u) \/ Unrestrict(u)
          PROVE  MatchmakingInv'
      BY <2>1, UserStepInv
    <2>2. ASSUME NEW u \in Users, NEW v \in Users, MockMatch(u, v)
          PROVE  MatchmakingInv'
      BY <2>2, MockMatchInv
    <2>3. ASSUME NEW g \in Games, MatchOver(g)
          PROVE  MatchmakingInv'
      BY <2>3, MatchOverInv
    <2> QED
      BY <1>2, <2>1, <2>2, <2>3 DEF Single
  <1>3. ASSUME NEW s \in Slots, Join(s)
        PROVE  MatchmakingInv'
    <2>1. ASSUME NEW u \in Users, NEW q \in Queues, JoinBegin(s, u, q)
          PROVE  MatchmakingInv'
      BY <2>1, JoinBeginInv
    <2> QED
      BY <1>3, <2>1, JoinLockInv, JoinActiveInv, JoinPairInv, JoinCommitInv
         DEF Join
  <1>4. ASSUME NEW s \in Slots, Mock(s)
        PROVE  MatchmakingInv'
    <2>1. ASSUME NEW u \in Users, MockBegin(s, u) \/ MockCheck(s, u)
          PROVE  MatchmakingInv'
      BY <2>1, MockBeginInv, MockCheckInv
    <2> QED
      BY <1>4, <2>1, MockLockInv, MockCommitInv DEF Mock
  <1>5. ASSUME NEW s \in Slots, Remove(s) \/ Crash(s)
        PROVE  MatchmakingInv'
    BY <1>5, RemoveInv
  <1> QED
    BY <1>1, <1>2, <1>3, <1>4, <1>5 DEF Next

\* Whatever joins, mock matches, moderators and disconnects do in whatever
\* order, the invariant holds (code: queue.service.ts and mockClient.service.ts
\* under the advisory lock of a queue and the two unique indexes).
THEOREM MatchmakingInvariance == Spec => []MatchmakingInv
  <1>1. Init => MatchmakingInv
    <2> SUFFICES ASSUME Init PROVE MatchmakingInv
      OBVIOUS
    <2>1. TypeOK
      BY IdleType, NoGameType DEF Init, TypeOK
    <2>2. \A s \in Slots : req[s] = Idle
      BY DEF Init
    <2>3. LockExclusive
      BY <2>2 DEF LockExclusive, LockedOp, JoinOp, MockOp, Idle
    <2>4. \A s \in Slots : Sound(req[s], queued, games)
      BY <2>2 DEF Sound, JoinOp, MockOp, Idle
    <2>5. OneMatchEach /\ AtMostOneWaits /\ MatchedIsDequeued
      BY DEF Init, NoGame, OneMatchEach, AtMostOneWaits, MatchedIsDequeued
    <2> QED
      BY <2>1, <2>3, <2>4, <2>5 DEF MatchmakingInv
  <1>2. MatchmakingInv /\ [Next]_vars => MatchmakingInv'
    BY NextInv
  <1> QED
    BY <1>1, <1>2, PTL DEF Spec

\* Nobody competes in two matches (code: match_participants_one_active_match_idx
\* is all that stands between two queues, or a queue and createMatch).
THEOREM NobodyPlaysTwice == Spec => []OneMatchEach
  <1>1. MatchmakingInv => OneMatchEach
    BY DEF MatchmakingInv
  <1> QED
    BY <1>1, MatchmakingInvariance, PTL

\* Of two joins of a queue, the second plays with the first (code: the advisory
\* lock that join takes before it reads the queue).
THEOREM NobodyWaitsBesideAnother == Spec => []AtMostOneWaits
  <1>1. MatchmakingInv => AtMostOneWaits
    BY DEF MatchmakingInv
  <1> QED
    BY <1>1, MatchmakingInvariance, PTL

\* A player that a queue has matched has left it (code: the delete of the two
\* entries that join, or createQueuedMatch, has read).
THEOREM TheMatchedHaveLeftTheQueue == Spec => []MatchedIsDequeued
  <1>1. MatchmakingInv => MatchedIsDequeued
    BY DEF MatchmakingInv
  <1> QED
    BY <1>1, MatchmakingInvariance, PTL

-----------------------------------------------------------------------------
(* The refinement of Pairing.  A commit that changes a row is one of its   *)
(* steps; every other step of a request is a stutter.  What the request    *)
(* has read (Sound) is what makes the commit a step of Pairing: whoever    *)
(* waits in the queue is one of the pair.                                  *)

\* What Pairing calls matches.
Seat(g) == [players |-> games[g].players, queue |-> games[g].via]
Seats == {Seat(g) : g \in {h \in Games : games[h].players # {}}}

\* A user who has no active row in any match is free (code: the lookup of an
\* active match by user).
LEMMA FreeSeat ==
    ASSUME NEW u \in Users, ~InMatch(u)
    PROVE  Lobby!Free(u)
  BY DEF Lobby!Free, InMatch

\* The seats do not change with the rest of the data.
LEMMA SameSeats ==
    ASSUME UNCHANGED games
    PROVE  Seats' = Seats
  BY DEF Seats, Seat

\* A new match is one more match: its name had no active player (code: the
\* inserts into matches and match_participants).
LEMMA NewSeat ==
    ASSUME TypeOK, NEW U, NEW M, NEW q, U # {}, Create(U, M, q)
    PROVE  Seats' = Seats \cup {[players |-> U, queue |-> q]}
  <1>1. PICK h \in Games :
            /\ games[h].players = {}
            /\ games' = [games EXCEPT ![h] =
                            [players |-> U, mocked |-> M, via |-> q]]
    BY DEF Create
  <1>2. \A g \in Games : games'[g] =
            IF g = h THEN [players |-> U, mocked |-> M, via |-> q] ELSE games[g]
    BY <1>1 DEF TypeOK
  <1>3. \A g \in Games :
            /\ games'[g].players = IF g = h THEN U ELSE games[g].players
            /\ games'[g].via = IF g = h THEN q ELSE games[g].via
    BY <1>2
  <1>4. Seats' = {[players |-> games'[g].players, queue |-> games'[g].via] :
                      g \in {k \in Games : games'[k].players # {}}}
    BY DEF Seats, Seat
  <1>5. ASSUME NEW m \in Seats' PROVE m \in Seats \cup {[players |-> U, queue |-> q]}
    <2>1. PICK g \in Games :
              /\ games'[g].players # {}
              /\ m = [players |-> games'[g].players, queue |-> games'[g].via]
      BY <1>4
    <2> QED
      BY <1>3, <2>1 DEF Seats, Seat
  <1>6. ASSUME NEW m \in Seats PROVE m \in Seats'
    <2>1. PICK g \in Games : games[g].players # {} /\ m = Seat(g)
      BY DEF Seats
    <2>2. g # h
      BY <1>1, <2>1
    <2> QED
      BY <1>3, <1>4, <2>1, <2>2 DEF Seat
  <1>7. [players |-> U, queue |-> q] \in Seats'
    BY <1>3, <1>4
  <1> QED BY <1>5, <1>6, <1>7

\* When a match is over, that match has gone and no other (code: settle, cancel,
\* forfeit; two matches with active players differ in their players).
LEMMA LostSeat ==
    ASSUME TypeOK, OneMatchEach, NEW h \in Games,
           games' = [games EXCEPT ![h] = NoGame]
    PROVE  Seats' = Seats \/ (Seat(h) \in Seats /\ Seats' = Seats \ {Seat(h)})
  <1>1. \A g \in Games : games'[g] = IF g = h THEN NoGame ELSE games[g]
    BY DEF TypeOK
  <1>2. \A g \in Games :
            /\ games'[g].players = IF g = h THEN {} ELSE games[g].players
            /\ g # h => games'[g].via = games[g].via
    BY <1>1 DEF NoGame
  <1>3. Seats' = {[players |-> games'[g].players, queue |-> games'[g].via] :
                      g \in {k \in Games : games'[k].players # {}}}
    BY DEF Seats, Seat
  <1>4. Seats' = {Seat(g) : g \in {k \in Games : k # h /\ games[k].players # {}}}
    <2>1. ASSUME NEW m \in Seats'
          PROVE  m \in {Seat(g) : g \in {k \in Games : k # h /\ games[k].players # {}}}
      BY <1>2, <1>3, <2>1 DEF Seat
    <2>2. ASSUME NEW g \in Games, g # h, games[g].players # {}
          PROVE  Seat(g) \in Seats'
      BY <1>2, <1>3, <2>2 DEF Seat
    <2> QED BY <2>1, <2>2
  <1>5. CASE games[h].players = {}
    BY <1>4, <1>5 DEF Seats
  <1>6. CASE games[h].players # {}
    <2>1. \A g \in Games : g # h /\ games[g].players # {} => Seat(g) # Seat(h)
      BY <1>6 DEF OneMatchEach, Seat
    <2>2. Seat(h) \in Seats
      BY <1>6 DEF Seats
    <2>3. Seats' = Seats \ {Seat(h)}
      BY <1>4, <2>1 DEF Seats
    <2> QED BY <2>2, <2>3
  <1> QED BY <1>5, <1>6

\* A request whose data stays as it is takes no step of Pairing.
LEMMA StutterRefines ==
    ASSUME UNCHANGED <<queued, games>>
    PROVE  UNCHANGED Lobby!vars
  BY SameSeats DEF Lobby!vars, Seats, Seat

\* One player loses an entry, or had none (code: leave, a ban, a timeout, a
\* disconnect).
LEMMA WithdrawRefines ==
    ASSUME TypeOK, NEW u \in Users, queued' = Without(queued, {u}), UNCHANGED games
    PROVE  [Lobby!Next]_(Lobby!vars)
  <1>1. CASE RowFree(u)
    <2>1. queued' = queued
      BY <1>1 DEF TypeOK, Without, RowFree
    <2> QED
      BY <2>1, StutterRefines
  <1>2. CASE ~RowFree(u)
    <2>1. Lobby!Withdraw(u)
      BY <1>2, SameSeats
      DEF Lobby!Withdraw, Lobby!Idle, Lobby!Without, Without, RowFree, Seats, Seat
    <2> QED
      BY <2>1 DEF Lobby!Next
  <1> QED BY <1>1, <1>2

\* A match is over (code: settle, cancel, forfeit).
LEMMA OverRefines ==
    ASSUME MatchmakingInv, NEW g \in Games,
           games' = [games EXCEPT ![g] = NoGame], UNCHANGED queued
    PROVE  [Lobby!Next]_(Lobby!vars)
  <1>1. TypeOK /\ OneMatchEach
    BY DEF MatchmakingInv
  <1>2. CASE Seats' = Seats
    BY <1>2 DEF Lobby!vars, Seats, Seat
  <1>3. CASE Seat(g) \in Seats /\ Seats' = Seats \ {Seat(g)}
    <2>1. PICK m \in Seats : m = Seat(g)
      BY <1>3
    <2>2. Seats' = Seats \ {m}
      BY <1>3, <2>1
    <2>3. Lobby!Over(m)
      BY <2>2 DEF Lobby!Over, Seats, Seat
    <2> QED
      BY <2>3 DEF Lobby!Next, Seats, Seat
  <1> QED
    BY <1>1, <1>2, <1>3, LostSeat

\* The commit of a join: everybody who waits in the queue is in the pair that
\* was read, so the player waits alone, takes the place of somebody who may not
\* play, or meets the one who waits (code: queue.service.ts, join).
LEMMA JoinCommitRefines ==
    ASSUME MatchmakingInv, NEW s \in Slots, JoinCommit(s)
    PROVE  [Lobby!Next]_(Lobby!vars)
  <1> DEFINE q == req[s].queue
             pair == req[s].pair
             invalid == req[s].invalid
  <1>1. PICK u \in Users : req[s].user = {u}
    BY DEF JoinCommit, At, MatchmakingInv, Sound, JoinOp
  <1>2. q \in Queues /\ q # NoQueue
    BY MatchmakingAssumption
    DEF JoinCommit, At, MatchmakingInv, Sound, JoinOp
  <1>3. /\ u \in pair /\ invalid \subseteq pair
        /\ \E a, b \in Users : pair = {a, b}
        /\ \A v \in Users : queued[v] = q => v \in pair
        /\ \A g \in Games : u \in games[g].players => games[g].via # q
    BY <1>1 DEF JoinCommit, At, MatchmakingInv, Sound
  <1>4. \A m \in Seats : u \in m.players => m.queue # q
    BY <1>3 DEF Seats, Seat
  <1> DEFINE entered == [queued EXCEPT ![u] = q]
  <1>5. TypeOK
    BY DEF MatchmakingInv
  <1>6. /\ entered \in [Users -> Queues \cup {NoQueue}]
        /\ \A v \in Users : entered[v] = IF v = u THEN q ELSE queued[v]
    BY <1>2, <1>5 DEF TypeOK
  <1> HIDE DEF q, pair, invalid
  <1>7. CASE RowFree(u) /\ pair = {u} /\ queued' = entered /\ UNCHANGED games
    <2>1. Seats' = Seats
      BY <1>7, SameSeats
    <2>2. Lobby!Wait(u, q)
      BY <1>2, <1>3, <1>4, <1>7, <2>1
      DEF Lobby!Wait, Lobby!Idle, Lobby!MayWait, Lobby!WaitIn, RowFree, Seats, Seat
    <2> QED
      BY <1>2, <2>2 DEF Lobby!Next
  <1>8. ASSUME pair # {u}
        PROVE  \E v \in Users : v # u /\ pair = {u, v}
    BY <1>3, <1>8
  <1>9. CASE /\ RowFree(u) /\ pair # {u} /\ invalid # {}
             /\ queued' = Without(entered, invalid) /\ UNCHANGED games
    <2>1. PICK v \in Users : v # u /\ pair = {u, v}
      BY <1>8, <1>9
    <2>2. CASE u \in invalid
      <3>1. CASE v \in invalid
        <4>1. queued' = Without(queued, {v})
          BY <1>3, <1>5, <1>6, <1>9, <2>1, <2>2, <3>1 DEF Without, RowFree, TypeOK
        <4> QED
          BY <1>5, <1>9, <4>1, WithdrawRefines
      <3>2. CASE v \notin invalid
        <4>1. queued' = queued
          BY <1>3, <1>5, <1>6, <1>9, <2>1, <2>2, <3>2 DEF Without, RowFree, TypeOK
        <4> QED
          BY <1>9, <4>1, StutterRefines
      <3> QED BY <3>1, <3>2
    <2>3. CASE u \notin invalid
      <3>1. invalid = {v}
        BY <1>3, <1>9, <2>1, <2>3
      <3>2. queued' = [Lobby!Without({v}) EXCEPT ![u] = q]
        BY <1>5, <1>6, <1>9, <2>1, <3>1 DEF Without, Lobby!Without, TypeOK
      <3>3. Lobby!WaitIn(q) \subseteq {v}
        BY <1>2, <1>3, <1>9, <2>1 DEF Lobby!WaitIn, RowFree
      <3>4. Lobby!Replace(u, v, q)
        BY <1>4, <1>9, <2>1, <3>2, <3>3, SameSeats
        DEF Lobby!Replace, Lobby!Idle, Lobby!MayWait, RowFree, Seats, Seat
      <3> QED
        BY <1>2, <3>4 DEF Lobby!Next
    <2> QED BY <2>2, <2>3
  <1>10. CASE /\ RowFree(u) /\ pair # {u} /\ SeatsFree(pair) /\ Create(pair, {}, q)
              /\ queued' = Without(entered, {v \in pair : entered[v] = q})
    <2>1. PICK v \in Users : v # u /\ pair = {u, v}
      BY <1>8, <1>10
    <2>2. Seats' = Seats \cup {[players |-> {u, v}, queue |-> q]}
      BY <1>5, <1>10, <2>1, NewSeat
    <2>3. Lobby!Free(u) /\ Lobby!Free(v)
      BY <1>10, <2>1, FreeSeat DEF SeatsFree
    <2>4. Lobby!WaitIn(q) \subseteq {v}
      BY <1>2, <1>3, <1>10, <2>1 DEF Lobby!WaitIn, RowFree
    <2>5. queued' = Lobby!Without(Lobby!WaitIn(q))
      BY <1>2, <1>3, <1>5, <1>6, <1>10, <2>1
      DEF Without, Lobby!Without, Lobby!WaitIn, RowFree, TypeOK
    <2>6. PICK k \in Queues : k = q
      BY <1>2
    <2>7. Lobby!Meet(u, v, k)
      BY <1>10, <2>1, <2>2, <2>3, <2>4, <2>5, <2>6
      DEF Lobby!Meet, Lobby!Idle, RowFree, Seats, Seat
    <2> QED
      BY <2>7 DEF Lobby!Next
  <1>11. CASE UNCHANGED <<queued, games>>
    BY <1>11, StutterRefines
  <1> QED
    BY <1>1, <1>7, <1>9, <1>10, <1>11 DEF JoinCommit, q, pair, invalid

\* The commit of a developer's mock match: the identity waits nowhere in the
\* queue whose lock is held, and the owner's entry there is the one that was
\* read (code: mockClient.service.ts, createQueuedMatch).
LEMMA MockCommitRefines ==
    ASSUME MatchmakingInv, NEW s \in Slots, MockCommit(s)
    PROVE  [Lobby!Next]_(Lobby!vars)
  <1> DEFINE q == req[s].queue
             entry == req[s].entry
  <1>1. PICK u \in Users : req[s].user = {u}
    BY DEF MockCommit, At, MatchmakingInv, Sound, MockOp
  <1>2. q \in Queues /\ q # NoQueue
    BY MatchmakingAssumption
    DEF MockCommit, At, MatchmakingInv, Sound, MockOp
  <1>3. PICK v \in Users \ {u} : req[s].pair = {u, v} /\ queued[v] # q
    BY <1>1 DEF MockCommit, At, MatchmakingInv, Sound
  <1>4. queued[u] = q => entry = q
    BY <1>1 DEF MockCommit, At, MatchmakingInv, Sound
  <1>5. TypeOK
    BY DEF MatchmakingInv
  <1> HIDE DEF q, entry
  <1>6. CASE UNCHANGED <<queued, games>>
    BY <1>6, StutterRefines
  <1>7. CASE /\ SeatsFree({u, v})
             /\ Create({u, v}, {u, v} \ {u}, q)
             /\ \/ queued' = Without(queued, {w \in {u} : queued[w] = entry})
                \/ entry # q /\ UNCHANGED queued
    <2>1. Seats' = Seats \cup {[players |-> {u, v}, queue |-> q]}
      BY <1>5, <1>7, NewSeat
    <2>2. Lobby!Free(u) /\ Lobby!Free(v)
      BY <1>7, FreeSeat DEF SeatsFree
    <2>3. v \notin Lobby!WaitIn(q)
      BY <1>3 DEF Lobby!WaitIn
    <2>4. \/ queued' = Lobby!Without({u})
          \/ u \notin Lobby!WaitIn(q) /\ UNCHANGED queued
      <3>1. CASE queued' = Without(queued, {w \in {u} : queued[w] = entry})
        <4>1. CASE queued[u] = entry
          BY <3>1, <4>1 DEF Without, Lobby!Without
        <4>2. CASE queued[u] # entry
          <5>1. queued' = queued
            BY <1>5, <3>1, <4>2 DEF Without, TypeOK
          <5> QED
            BY <1>4, <4>2, <5>1 DEF Lobby!WaitIn
        <4> QED BY <4>1, <4>2
      <3>2. CASE entry # q /\ UNCHANGED queued
        BY <1>4, <3>2 DEF Lobby!WaitIn
      <3> QED BY <1>7, <3>1, <3>2
    <2>5. PICK k \in Queues : k = q
      BY <1>2
    <2>6. Lobby!Impersonate(u, v, k)
      BY <1>3, <2>1, <2>2, <2>3, <2>4, <2>5 DEF Lobby!Impersonate, Seats, Seat
    <2> QED
      BY <2>6 DEF Lobby!Next
  <1> QED
    BY <1>1, <1>3, <1>6, <1>7 DEF MockCommit, q, entry

\* A match of two controlled identities (code: createMatch).
LEMMA MockMatchRefines ==
    ASSUME TypeOK, NEW a \in Users, NEW b \in Users, MockMatch(a, b)
    PROVE  [Lobby!Next]_(Lobby!vars)
  <1>1. Seats' = Seats \cup {[players |-> {a, b}, queue |-> NoQueue]}
    BY NewSeat DEF MockMatch
  <1>2. Lobby!Free(a) /\ Lobby!Free(b)
    BY FreeSeat DEF MockMatch, SeatsFree
  <1>3. Lobby!Arrange(a, b)
    BY <1>1, <1>2 DEF Lobby!Arrange, MockMatch, Seats, Seat
  <1> QED
    BY <1>3 DEF Lobby!Next

\* Timeouts, disconnects and crashes (code: timeoutUser and its route, the
\* disconnect handler, the exit of the process).
LEMMA RemoveRefines ==
    ASSUME MatchmakingInv, NEW s \in Slots, Remove(s) \/ Crash(s)
    PROVE  [Lobby!Next]_(Lobby!vars)
  <1>1. TypeOK
    BY DEF MatchmakingInv
  <1>2. CASE Crash(s)
    BY <1>2, StutterRefines DEF Crash
  <1>3. ASSUME NEW u \in Users, TimeoutUser(s, u)
        PROVE  [Lobby!Next]_(Lobby!vars)
    BY <1>3, StutterRefines DEF TimeoutUser
  <1>4. ASSUME NEW u \in Users, Disconnect(s, u)
        PROVE  [Lobby!Next]_(Lobby!vars)
    BY <1>1, <1>4, WithdrawRefines DEF Disconnect
  <1>5. CASE TimeoutDequeue(s)
    <2>1. PICK u \in Users : req[s].user = {u}
      BY <1>5 DEF TimeoutDequeue, At, MatchmakingInv, Sound
    <2> QED
      BY <1>1, <1>5, <2>1, WithdrawRefines DEF TimeoutDequeue
  <1>6. CASE DisconnectForfeit(s)
    <2>1. CASE UNCHANGED games
      BY <1>6, <2>1, StutterRefines DEF DisconnectForfeit
    <2>2. ASSUME NEW g \in Games, games' = [games EXCEPT ![g] = NoGame]
          PROVE  [Lobby!Next]_(Lobby!vars)
      BY <1>6, <2>2, OverRefines DEF DisconnectForfeit
    <2> QED
      BY <1>6, <2>1, <2>2 DEF DisconnectForfeit, At, MatchmakingInv, Sound
  <1> QED
    BY <1>2, <1>3, <1>4, <1>5, <1>6 DEF Remove

\* Every step is a step of Pairing or none (code: every operation of the module).
LEMMA NextRefines ==
    ASSUME MatchmakingInv, [Next]_vars
    PROVE  [Lobby!Next]_(Lobby!vars)
  <1>1. TypeOK
    BY DEF MatchmakingInv
  <1>2. CASE UNCHANGED vars
    BY <1>2, StutterRefines DEF vars
  <1>3. CASE Single
    <2>1. ASSUME NEW u \in Users, Leave(u) \/ Ban(u)
          PROVE  [Lobby!Next]_(Lobby!vars)
      BY <1>1, <2>1, WithdrawRefines DEF Leave, Ban
    <2>2. ASSUME NEW u \in Users, Unrestrict(u)
          PROVE  [Lobby!Next]_(Lobby!vars)
      BY <2>2, StutterRefines DEF Unrestrict
    <2>3. ASSUME NEW u \in Users, NEW v \in Users, MockMatch(u, v)
          PROVE  [Lobby!Next]_(Lobby!vars)
      BY <1>1, <2>3, MockMatchRefines
    <2>4. ASSUME NEW g \in Games, MatchOver(g)
          PROVE  [Lobby!Next]_(Lobby!vars)
      BY <2>4, OverRefines DEF MatchOver
    <2> QED
      BY <1>3, <2>1, <2>2, <2>3, <2>4 DEF Single
  <1>4. ASSUME NEW s \in Slots, Join(s) PROVE [Lobby!Next]_(Lobby!vars)
    <2>1. CASE JoinCommit(s)
      BY <2>1, JoinCommitRefines
    <2>2. CASE ~JoinCommit(s)
      <3>1. UNCHANGED <<queued, games>>
        BY <1>4, <2>2 DEF Join, JoinBegin, JoinLock, JoinActive, JoinPair
      <3> QED
        BY <3>1, StutterRefines
    <2> QED BY <2>1, <2>2
  <1>5. ASSUME NEW s \in Slots, Mock(s) PROVE [Lobby!Next]_(Lobby!vars)
    <2>1. CASE MockCommit(s)
      BY <2>1, MockCommitRefines
    <2>2. CASE ~MockCommit(s)
      <3>1. UNCHANGED <<queued, games>>
        BY <1>5, <2>2 DEF Mock, MockBegin, MockLock, MockCheck
      <3> QED
        BY <3>1, StutterRefines
    <2> QED BY <2>1, <2>2
  <1>6. ASSUME NEW s \in Slots, Remove(s) \/ Crash(s)
        PROVE  [Lobby!Next]_(Lobby!vars)
    BY <1>6, RemoveRefines
  <1> QED
    BY <1>2, <1>3, <1>4, <1>5, <1>6 DEF Next

\* However their requests overlap and whatever they read, the queues, mock
\* clients, moderators and disconnects amount to a lobby in which everything
\* happens at once: the one who waits is never passed over, a match takes its
\* two players out of its queue, and nobody gets a second match (code:
\* queue.service.ts and mockClient.service.ts under the advisory lock of a queue
\* and the two unique indexes).
THEOREM MatchmakingRefinesPairing == Spec => ImplementsPairing
  <1>1. Init => Lobby!Init
    BY DEF Init, Lobby!Init, NoGame
  <1>2. MatchmakingInv /\ [Next]_vars => [Lobby!Next]_(Lobby!vars)
    BY NextRefines
  <1> QED
    BY <1>1, <1>2, MatchmakingInvariance, PTL
    DEF Spec, ImplementsPairing, Lobby!Spec
=============================================================================
