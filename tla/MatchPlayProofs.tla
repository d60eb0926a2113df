---------------------------- MODULE MatchPlayProofs ----------------------------
(***************************************************************************)
(* Proofs about MatchEngine, for every value of its constants, of matches  *)
(* that nobody pauses: the phases follow each other, every phase keeps its *)
(* timer, and the transactions implement MatchLifecycle.                   *)
(***************************************************************************)
EXTENDS MatchEngineProofs, Integers

-----------------------------------------------------------------------------
(* The order of the timers.                                                *)

\* The turn of the phase that a match row is in.
TurnAt(row) ==
    CASE row.status = "awaiting_discards" -> 0
      [] row.status = "awaiting_pick" -> 3 * row.round + 1
      [] row.status = "awaiting_scores" -> 3 * row.round - 1
      [] row.status = "round_results" -> 3 * row.round

\* A turn is an integer, of one timer only.
LEMMA TurnType == ASSUME NEW t \in Timer \cup {NoTimer} PROVE Turn(t) \in Int
<1>1. t[1] \in {"discard", "none"} \/ t[2] \in Round
  BY DEF Timer, NoTimer
<1>2. CASE t[1] \in {"discard", "none"}
  BY <1>2 DEF Turn
<1>3. CASE t[2] \in Round
  BY <1>3 DEF Turn, Round
<1> QED
  BY <1>1, <1>2, <1>3

\* The turns of the three kinds of a round's timers never coincide.
LEMMA Thirds ==
    ASSUME NEW a \in Nat, NEW b \in Nat
    PROVE  /\ 3 * a - 2 # 3 * b - 1 /\ 3 * a - 2 # 3 * b /\ 3 * a - 1 # 3 * b
           /\ a # b => 3 * a # 3 * b /\ 3 * a - 1 # 3 * b - 1
                                    /\ 3 * a - 2 # 3 * b - 2
           /\ a > 0 => 3 * a - 2 > 0 /\ 3 * a - 1 > 0 /\ 3 * a > 0
OBVIOUS

\* No two timers have the same turn.
LEMMA TurnNames ==
    ASSUME NEW t \in Timer, NEW u \in Timer, Turn(t) = Turn(u)
    PROVE  t = u
<1> DEFINE Named(v, k, n) ==
        /\ v = <<k, n>>
        /\ \/ k = "discard" /\ n = 0 /\ Turn(v) = 0
           \/ k = "pick" /\ n > 0 /\ Turn(v) = 3 * n - 2
           \/ k = "score_submission" /\ n > 0 /\ Turn(v) = 3 * n - 1
           \/ k = "round_results" /\ n > 0 /\ Turn(v) = 3 * n
<1>1. ASSUME NEW v \in Timer
      PROVE  \E k \in AllKinds, n \in Nat : Named(v, k, n)
  <2>1. CASE v = <<"discard", 0>>
    BY <2>1 DEF Turn, AllKinds
  <2>2. CASE v \in {"pick", "score_submission", "round_results"} \X Round
    <3>1. PICK k \in {"pick", "score_submission", "round_results"}, n \in Round :
            v = <<k, n>>
      BY <2>2
    <3>2. n \in Nat /\ n > 0
      BY DEF Round
    <3>3. Named(v, k, n)
      BY <3>1, <3>2 DEF Turn
    <3> QED
      BY <3>2, <3>3 DEF AllKinds
  <2> QED
    BY <1>1, <2>1, <2>2 DEF Timer
<1>2. PICK k \in AllKinds, n \in Nat : Named(t, k, n)
  BY <1>1
<1>3. PICK l \in AllKinds, m \in Nat : Named(u, l, m)
  BY <1>1
<1>4. /\ 3 * n - 2 # 3 * m - 1 /\ 3 * n - 2 # 3 * m /\ 3 * n - 1 # 3 * m
      /\ 3 * m - 2 # 3 * n - 1 /\ 3 * m - 2 # 3 * n /\ 3 * m - 1 # 3 * n
      /\ n # m => 3 * n # 3 * m /\ 3 * n - 1 # 3 * m - 1
                                /\ 3 * n - 2 # 3 * m - 2
      /\ n > 0 => 3 * n - 2 # 0 /\ 3 * n - 1 # 0 /\ 3 * n # 0
      /\ m > 0 => 3 * m - 2 # 0 /\ 3 * m - 1 # 0 /\ 3 * m # 0
  BY Thirds
<1> QED
  BY <1>2, <1>3, <1>4, Zenon

\* The timer of the phase has the phase's turn, now and after a step.
LEMMA PhaseTurn ==
    ASSUME TypeOK, match.status \in Playing
    PROVE  /\ Turn(PhaseTimer) = TurnAt(match)
           /\ TurnAt(match) \in Int
<1>1. match.round \in Nat
  BY DEF TypeOK, MatchRow, Round
<1> QED
  BY <1>1 DEF Turn, PhaseTimer, TurnAt, Playing

\* The same after a step.
LEMMA PhaseTurnNext ==
    ASSUME TypeOK', match'.status \in Playing
    PROVE  /\ Turn(PhaseTimer') = TurnAt(match')
           /\ TurnAt(match') \in Int
<1>1. match'.round \in Nat
  BY DEF TypeOK, MatchRow, Round
<1> QED
  BY <1>1 DEF Turn, PhaseTimer, TurnAt, Playing

-----------------------------------------------------------------------------
(* A step leaves the match as it is, ends it, or moves on to a later turn. *)

Forward ==
    \/ match' = match
    \/ Over'
    \/ /\ match.status \in Playing /\ match'.status \in Playing
       /\ Turn(PhaseTimer) < Turn(PhaseTimer')

\* Whatever has begun has begun, and whatever is over stays over.
LEMMA ForwardTurns ==
    ASSUME TypeOK, TypeOK', Forward, NEW turn \in Int
    PROVE  /\ Started(turn) => Started(turn)'
           /\ Spent(turn) => Spent(turn)'
<1>1. CASE match' = match
  BY <1>1 DEF Started, Spent, Over, PhaseTimer
<1>2. CASE Over'
  BY <1>2 DEF Started, Spent
<1>3. CASE /\ match.status \in Playing /\ match'.status \in Playing
           /\ Turn(PhaseTimer) < Turn(PhaseTimer')
  <2>1. /\ Turn(PhaseTimer) = TurnAt(match) /\ TurnAt(match) \in Int
        /\ Turn(PhaseTimer') = TurnAt(match') /\ TurnAt(match') \in Int
    BY <1>3, PhaseTurn, PhaseTurnNext
  <2>2. ~Over
    BY <1>3 DEF Over, Playing, Terminal
  <2> DEFINE now == TurnAt(match)
             next == TurnAt(match')
  <2>3. /\ Started(turn) => turn <= now
        /\ Spent(turn) => turn < now \/ (DiscardsOverlap /\ turn = 0)
    BY <2>1, <2>2 DEF Started, Spent
  <2>4. /\ turn <= next => Started(turn)'
        /\ turn < next \/ (DiscardsOverlap /\ turn = 0) => Spent(turn)'
    BY <2>1 DEF Started, Spent
  <2>5. now \in Int /\ next \in Int /\ now < next
    BY <1>3, <2>1
  <2> HIDE DEF now, next
  <2> QED
    BY <2>3, <2>4, <2>5
<1> QED
  BY <1>1, <1>2, <1>3 DEF Forward

\* What a step keeps of the rows that requests depend on.
RowsForward ==
    /\ Forward
    /\ \A p \in Player : hands[p].discarded => hands'[p].discarded
    /\ \A n \in Round : rounds[n] # "none" => rounds'[n] # "none"
    /\ \A n \in Round, p \in Player :
          scores[n][p] # "none" => scores'[n][p] # "none"

\* A request that the step leaves with rows that it can still work on.
Undisturbed(x) ==
    /\ x.op = "discard" =>
          \A p \in Player : hands'[p].discarded =>
              hands[p].discarded \/ (p # x.user /\ DiscardsOverlap)
    /\ x.op = "select" /\ rounds[x.round] = "none"
          /\ match.status = "awaiting_pick"
          => match'.status = "awaiting_pick" \/ Over'
                \/ rounds'[x.round] # "none"
    /\ x.op = "results" => match' = match \/ Over'

\* The turn of a round's timer tells the round.
LEMMA PickTurn ==
    ASSUME NEW t \in Timer \cup {NoTimer}, t[1] = "pick"
    PROVE  t \in Timer /\ t[2] \in Round /\ Turn(t) = 3 * t[2] - 2
<1>1. t \in {"pick", "score_submission", "round_results"} \X Round
  BY DEF Timer, NoTimer
<1> QED
  BY <1>1 DEF Turn, Timer

\* The turn of a score deadline ...
LEMMA ScoreTurn ==
    ASSUME NEW t \in Timer \cup {NoTimer}, t[1] = "score_submission"
    PROVE  t \in Timer /\ t[2] \in Round /\ Turn(t) = 3 * t[2] - 1
<1>1. t \in {"pick", "score_submission", "round_results"} \X Round
  BY DEF Timer, NoTimer
<1> QED
  BY <1>1 DEF Turn, Timer

\* ... and of a results display.
LEMMA ResultsTurn ==
    ASSUME NEW t \in Timer \cup {NoTimer}, t[1] = "round_results"
    PROVE  t \in Timer /\ t[2] \in Round /\ Turn(t) = 3 * t[2]
<1>1. t \in {"pick", "score_submission", "round_results"} \X Round
  BY DEF Timer, NoTimer
<1> QED
  BY <1>1 DEF Turn, Timer

\* What the rows say of a request remains true while nobody disturbs what it read.
LEMMA UndisturbedSound ==
    ASSUME TypeOK, TypeOK', RowsForward, NEW x \in Request,
           x.op \in Critical => x.round \in Round,
           Undisturbed(x), RequestSound(x)
    PROVE  RequestSound(x)'
<1>1. /\ x.user \in Player /\ Other(x.user) \in Player
      /\ x.timer \in Timer \cup {NoTimer}
  BY DEF Request, Other, Player
<1>2. Turn(x.timer) \in Int
  BY <1>1, TurnType
<1>3. Issued(x)'
  BY DEF RequestSound, Issued
<1>4. DiscardSound(x)'
  BY <1>1 DEF RequestSound, DiscardSound, RowsForward, Undisturbed, Other,
              Player
<1>5. SelectSound(x)'
  <2>1. CASE Over
    BY <2>1, <1>2 DEF SelectSound, RowsForward, Forward, Over, Playing, Terminal
  <2>2. CASE ~Over
    BY <2>2
    DEF RequestSound, SelectSound, RowsForward, Undisturbed, Critical
  <2> QED
    BY <2>1, <2>2
<1>6. ScoreSound(x)'
  BY DEF RequestSound, ScoreSound, RowsForward, BothScored, Critical, LockOp
<1>7. ResultsSound(x)'
  BY DEF RequestSound, ResultsSound, Undisturbed, Over, RowsForward, Forward
<1>8. HandlerOnTime(x)'
  <2>1. /\ Started(Turn(x.timer))'
        /\ Spent(Turn(x.timer)) => Spent(Turn(x.timer))'
    BY <1>2, ForwardTurns DEF RequestSound, HandlerOnTime, RowsForward
  <2>2. ASSUME x.op = "auto_pick", match'.status = "awaiting_pick",
               x.timer[2] = match'.round + 1
        PROVE  x.user = Picker(match'.round + 1)
    <3>1. x.timer[1] = "pick" /\ Started(Turn(x.timer))
      BY <2>2 DEF RequestSound, HandlerOnTime
    <3>2. CASE match' = match
      BY <2>2, <3>2 DEF RequestSound, HandlerOnTime
    <3>3. CASE match' # match
      <4>1. ~Over'
        BY <2>2 DEF Over, Terminal
      <4>2. /\ match.status \in Playing /\ match'.status \in Playing
            /\ Turn(PhaseTimer) < Turn(PhaseTimer')
        BY <3>3, <4>1 DEF RowsForward, Forward
      <4>3. ~Over
        BY <4>2 DEF Over, Playing, Terminal
      <4>4. /\ Turn(PhaseTimer) = TurnAt(match) /\ TurnAt(match) \in Int
            /\ Turn(PhaseTimer') = TurnAt(match') /\ TurnAt(match') \in Int
        BY <4>2, PhaseTurn, PhaseTurnNext
      <4>5. TurnAt(match') = 3 * match'.round + 1
        BY <2>2 DEF TurnAt
      <4>6. Turn(x.timer) = 3 * x.timer[2] - 2 /\ x.timer[2] \in Nat
        BY <1>1, <3>1, PickTurn DEF Round
      <4>7. Turn(x.timer) <= Turn(PhaseTimer)
        BY <3>1, <4>3 DEF Started
      <4>8. match'.round \in Nat
        BY DEF TypeOK, MatchRow, Round
      <4>9. Turn(x.timer) = Turn(PhaseTimer')
        BY <2>2, <4>4, <4>5, <4>6, <4>8
      <4> QED
        BY <4>2, <4>4, <4>7, <4>9
    <3> QED
      BY <3>2, <3>3
  <2> QED
    BY <2>1, <2>2 DEF RequestSound, HandlerOnTime, RowsForward
<1> QED
  BY <1>3, <1>4, <1>5, <1>6, <1>7, <1>8 DEF RequestSound

\* A step gives one slot a sound request and leaves the others undisturbed.
LEMMA RequestsKept ==
    ASSUME EngineInv, TypeOK', NEW r \in Slot, NEW y, Goto(r, y), RowsForward,
           \A s \in Slot : RequestSound(req[s]),
           \A s \in Slot \ {r} : Undisturbed(req[s]),
           RequestSound(y)'
    PROVE  (\A s \in Slot : RequestSound(req[s]))'
<1> SUFFICES ASSUME NEW s \in Slot PROVE RequestSound(req[s])'
  OBVIOUS
<1> USE DEF EngineInv
<1>1. PICK x : x = req'[s]
  OBVIOUS
<1>2. RequestSound(x)'
  <2>1. CASE s = r
    BY <1>1, <2>1 DEF Goto, TypeOK
  <2>2. CASE s # r
    <3>1. x = req[s]
      BY <1>1, <2>2 DEF Goto, TypeOK
    <3>2. x \in Request /\ (x.op \in Critical => x.round \in Round)
      BY <3>1 DEF TypeOK, RequestsNameRounds, Critical
    <3>3. Undisturbed(x) /\ RequestSound(x)
      BY <2>2, <3>1
    <3> QED
      BY <3>2, <3>3, UndisturbedSound
  <2> QED
    BY <2>1, <2>2
<1> QED
  BY <1>1, <1>2 DEF RequestSound, Issued, DiscardSound, SelectSound, ScoreSound,
                    ResultsSound, HandlerOnTime

\* The advisory locks stay exclusive when a slot takes a free one.
LEMMA LockedKept ==
    ASSUME TypeOK, NEW r \in Slot, NEW y, Goto(r, y), HandsAndResultsLocked,
           y.op = "discard" => DiscardLockFree(y.user),
           y.op = "results" => ResultsLockFree
    PROVE  HandsAndResultsLocked'
<1>1. req'[r] = y /\ \A s \in Slot \ {r} : req'[s] = req[s]
  BY DEF Goto, TypeOK
<1> QED
  BY <1>1 DEF HandsAndResultsLocked, DiscardLockFree, ResultsLockFree

\* A step that keeps the rows sound and gives its slot a sound request.
LEMMA CommitPlay ==
    ASSUME PlayInv, EngineInv', NEW r \in Slot, NEW y, Goto(r, y),
           RowsForward, \A s \in Slot \ {r} : Undisturbed(req[s]),
           RequestSound(y)',
           y.op = "discard" => DiscardLockFree(y.user),
           y.op = "results" => ResultsLockFree,
           PhaseShape', PicksCounted', TimersOnTime', SettledByResolution'
    PROVE  PlayInv'
<1>1. (\A s \in Slot : RequestSound(req[s]))'
  BY RequestsKept DEF PlayInv, EngineInv
<1>2. HandsAndResultsLocked'
  BY LockedKept DEF PlayInv, EngineInv
<1> QED
  BY <1>1, <1>2 DEF PlayInv

\* The rows that the invariant is about.
Rows == <<match, hands, active, rounds, scores, timers, settled>>

\* A step that only changes what a slot is doing.
LEMMA RequestPlay ==
    ASSUME PlayInv, EngineInv', NEW r \in Slot, NEW y, Goto(r, y),
           UNCHANGED Rows, RequestSound(y),
           y.op = "discard" => DiscardLockFree(y.user),
           y.op = "results" => ResultsLockFree
    PROVE  PlayInv'
<1> USE DEF Rows
<1>1. RowsForward /\ \A s \in Slot \ {r} : Undisturbed(req[s])
  BY DEF RowsForward, Forward, Undisturbed
<1>2. RequestSound(y)'
  <2>1. req'[r] = y
    BY DEF Goto, PlayInv, EngineInv, TypeOK
  <2>2. y \in Request /\ (y.op \in Critical => y.round \in Round)
    BY <2>1 DEF EngineInv, TypeOK, RequestsNameRounds, Critical
  <2>3. Undisturbed(y)
    BY DEF Undisturbed
  <2> QED
    BY <1>1, <2>2, <2>3, UndisturbedSound DEF PlayInv, EngineInv
<1>3. PhaseShape'
  BY DEF PlayInv, PhaseShape, BothScored, Over
<1>4. PicksCounted'
  BY DEF PlayInv, PicksCounted
<1>5. TimersOnTime'
  BY DEF PlayInv, TimersOnTime, Started, PhaseTimer, Over
<1>6. SettledByResolution'
  BY DEF PlayInv, SettledByResolution, Over
<1> QED
  BY <1>1, <1>2, <1>3, <1>4, <1>5, <1>6, CommitPlay

-----------------------------------------------------------------------------
(* A slot whose operation is over.                                         *)

EndedBy(y, t) ==
    \/ y = Idle
    \/ \E op \in {"handled", "threw"} : y = [Idle EXCEPT !.op = op, !.timer = t]

\* A slot whose operation is over is idle or returns to the timer it ran.
LEMMA AfterEnds ==
    ASSUME NEW r \in Slot, NEW ok \in BOOLEAN
    PROVE  \/ After(r, ok) = Idle
           \/ /\ req[r].timer # NoTimer
              /\ EndedBy(After(r, ok), req[r].timer)
BY DEF After, EndedBy, Busy

\* Such a request holds nothing.
LEMMA EndedOp ==
    ASSUME NEW y, NEW t, EndedBy(y, t)
    PROVE  y.op \in {"idle", "handled", "threw"}
<1>1. Idle.op = "idle"
  BY DEF Idle
<1>2. ASSUME NEW op, y = [Idle EXCEPT !.op = op, !.timer = t]
      PROVE  y.op = op
  BY <1>2 DEF Idle
<1> QED
  BY <1>1, <1>2 DEF EndedBy

\* Every phase is at or after the start.
LEMMA StartedZero == ASSUME TypeOK, PhaseShape PROVE Started(0)
<1>1. match.round \in Nat
  BY DEF TypeOK, MatchRow, Round
<1>2. CASE match.status \in Playing
  <2>1. match.status \in {"awaiting_scores", "round_results"} => match.round > 0
    BY DEF PhaseShape
  <2>2. 0 <= TurnAt(match)
    BY <1>1, <1>2, <2>1 DEF TurnAt, Playing
  <2> QED
    BY <1>2, <2>2, PhaseTurn DEF Started
<1>3. CASE match.status \in Terminal
  BY <1>3 DEF Started, Over
<1> QED
  BY <1>2, <1>3 DEF TypeOK, MatchRow, Status, PhaseShape

\* The same after a step.
LEMMA StartedZeroNext == ASSUME TypeOK', PhaseShape' PROVE Started(0)'
<1>1. match'.round \in Nat
  BY DEF TypeOK, MatchRow, Round
<1>2. CASE match'.status \in Playing
  <2>1. match'.status \in {"awaiting_scores", "round_results"}
          => match'.round > 0
    BY DEF PhaseShape
  <2>2. 0 <= TurnAt(match')
    BY <1>1, <1>2, <2>1 DEF TurnAt, Playing
  <2> QED
    BY <1>2, <2>2, PhaseTurnNext DEF Started
<1>3. CASE match'.status \in Terminal
  BY <1>3 DEF Started, Over
<1> QED
  BY <1>2, <1>3 DEF TypeOK, MatchRow, Status, PhaseShape

\* What has been spent has been started.
LEMMA SpentStarted ==
    ASSUME TypeOK, PhaseShape, NEW turn \in Int, Spent(turn)
    PROVE  Started(turn)
<1>1. CASE Over
  BY <1>1 DEF Started
<1>2. CASE turn < Turn(PhaseTimer) /\ ~Over
  <2>1. match.status \in Playing
    BY <1>2 DEF TypeOK, MatchRow, Status, PhaseShape, Over
  <2>2. Turn(PhaseTimer) \in Int
    BY <2>1, PhaseTurn
  <2> QED
    BY <1>2, <2>2 DEF Started
<1>3. CASE turn = 0
  BY <1>3, StartedZero
<1> QED
  BY <1>1, <1>2, <1>3 DEF Spent

\* A turn that is over had begun.
LEMMA SpentStartedNext ==
    ASSUME TypeOK', PhaseShape', NEW turn \in Int, Spent(turn)'
    PROVE  Started(turn)'
<1>1. CASE Over'
  BY <1>1 DEF Started
<1>2. CASE turn < Turn(PhaseTimer') /\ ~Over'
  <2>1. match'.status \in Playing
    BY <1>2 DEF TypeOK, MatchRow, Status, PhaseShape, Over
  <2>2. Turn(PhaseTimer') \in Int
    BY <2>1, PhaseTurnNext
  <2> QED
    BY <1>2, <2>2 DEF Started
<1>3. CASE turn = 0
  BY <1>3, StartedZeroNext
<1> QED
  BY <1>1, <1>2, <1>3 DEF Spent

\* A request of a client runs no timer; its turn is the first.
LEMMA NoTurn == Turn(NoTimer) = 0
BY DEF Turn, NoTimer

\* An idle slot is sound, and so is one that has done with a spent timer.
LEMMA IdleSound ==
    /\ TypeOK /\ PhaseShape => RequestSound(Idle)
    /\ TypeOK' /\ PhaseShape' => RequestSound(Idle)'
<1>1. Idle.op = "idle" /\ Idle.timer = NoTimer
  BY DEF Idle
<1>2. TypeOK /\ PhaseShape => RequestSound(Idle)
  BY <1>1, NoTurn, StartedZero
  DEF RequestSound, Issued, DiscardSound, SelectSound, ScoreSound,
      ResultsSound, HandlerOnTime, LockOp
<1>3. TypeOK' /\ PhaseShape' => RequestSound(Idle)'
  BY <1>1, NoTurn, StartedZeroNext
  DEF RequestSound, Issued, DiscardSound, SelectSound, ScoreSound,
      ResultsSound, HandlerOnTime, LockOp
<1> QED
  BY <1>2, <1>3

\* A handler may end once the turn of its timer is over, ...
LEMMA EndedSound ==
    ASSUME TypeOK, PhaseShape, NEW t \in Timer \cup {NoTimer},
           Spent(Turn(t)), NEW y, EndedBy(y, t)
    PROVE  RequestSound(y)
<1>1. CASE y = Idle
  BY <1>1, IdleSound
<1>2. ASSUME y # Idle PROVE y.op \in {"handled", "threw"} /\ y.timer = t
  BY <1>2 DEF EndedBy, Idle
<1>3. Started(Turn(t))
  BY TurnType, SpentStarted
<1> QED
  BY <1>1, <1>2, <1>3
  DEF RequestSound, Issued, DiscardSound, SelectSound, ScoreSound,
      ResultsSound, HandlerOnTime, LockOp

\* ... also with the step that ends the turn.
LEMMA EndedSoundNext ==
    ASSUME TypeOK', PhaseShape', NEW t \in Timer \cup {NoTimer},
           Spent(Turn(t))', NEW y, EndedBy(y, t)
    PROVE  RequestSound(y)'
<1>1. CASE y = Idle
  BY <1>1, IdleSound
<1>2. ASSUME y # Idle PROVE y.op \in {"handled", "threw"} /\ y.timer = t
  BY <1>2 DEF EndedBy, Idle
<1>3. Started(Turn(t))'
  BY TurnType, SpentStartedNext
<1> QED
  BY <1>1, <1>2, <1>3
  DEF RequestSound, Issued, DiscardSound, SelectSound, ScoreSound,
      ResultsSound, HandlerOnTime, LockOp

\* A handler returns, or throws, once its phase is over.
LEMMA QuitPlay ==
    ASSUME PlayInv, EngineInv', NEW r \in Slot, NEW ok \in BOOLEAN,
           Goto(r, After(r, ok)), UNCHANGED Rows,
           req[r].timer # NoTimer => Spent(Turn(req[r].timer))
    PROVE  PlayInv'
<1> PICK y : y = After(r, ok)
  OBVIOUS
<1> PICK t : t = req[r].timer
  OBVIOUS
<1>1. t \in Timer \cup {NoTimer} /\ TypeOK /\ PhaseShape
  BY DEF PlayInv, EngineInv, TypeOK, Request
<1>2. y = Idle \/ (t # NoTimer /\ EndedBy(y, t))
  BY AfterEnds
<1>3. RequestSound(y)
  BY <1>1, <1>2, IdleSound, EndedSound
<1>4. y.op \notin {"discard", "results"}
  BY <1>2, EndedOp DEF EndedBy
<1> QED
  BY <1>3, <1>4, RequestPlay

-----------------------------------------------------------------------------
(* Requests arrive. What the invariant says of the slot that works on one. *)

\* What the invariant says of one slot's request.
LEMMA SlotFacts ==
    ASSUME PlayInv, NEW r \in Slot
    PROVE  /\ TypeOK /\ PhaseShape /\ PicksCounted /\ TimersOnTime
           /\ RequestSound(req[r])
           /\ req[r].user \in Player
           /\ req[r].timer \in Timer \cup {NoTimer}
           /\ Turn(req[r].timer) \in Int
           /\ Started(Turn(req[r].timer))
           /\ match.round \in Nat /\ match.version \in Nat
<1>1. req[r].timer \in Timer \cup {NoTimer} /\ req[r].user \in Player
  BY DEF PlayInv, EngineInv, TypeOK, Request
<1> QED
  BY <1>1, TurnType
  DEF PlayInv, EngineInv, TypeOK, MatchRow, Round, RequestSound, HandlerOnTime

\* Nothing has begun after the turn of the phase.
LEMMA TurnReached ==
    ASSUME TypeOK, match.status \in Playing, NEW turn \in Int
    PROVE  /\ TurnAt(match) \in Int
           /\ Started(turn) <=> turn <= TurnAt(match)
           /\ turn < TurnAt(match) => Spent(turn)
BY PhaseTurn DEF Started, Spent, Over, Playing, Terminal

\* The players' discards.
LEMMA DiscardTxFields ==
    ASSUME NEW r \in Slot, NEW p, NEW rest
    PROVE  LET x == DiscardTx(r, p, rest) IN
           /\ x.op = "discard" /\ x.user = p /\ x.pending = rest
           /\ x.ready = hands[Other(p)].discarded
           /\ x.timer = req[r].timer
BY DEF DiscardTx, Busy, Idle

\* A discard whose hand is not discarded yet may begin.
LEMMA DiscardTxSound ==
    ASSUME PlayInv, NEW r \in Slot, NEW p \in Player, NEW rest,
           CanDiscard(p), Turn(req[r].timer) = 0,
           req[r].timer # NoTimer =>
                \A q \in Player \ rest : hands[q].discarded \/ q = p
    PROVE  RequestSound(DiscardTx(r, p, rest))
<1> PICK x : x = DiscardTx(r, p, rest)
  OBVIOUS
<1>1. /\ x.op = "discard" /\ x.user = p /\ x.pending = rest
      /\ x.ready = hands[Other(p)].discarded
      /\ x.timer = req[r].timer
  BY DiscardTxFields
<1>2. Started(Turn(x.timer)) /\ ~hands[p].discarded
  BY <1>1, SlotFacts DEF CanDiscard
<1>3. hands[Other(p)].discarded \in BOOLEAN
  BY SlotFacts DEF TypeOK, HandRow, Other, Player
<1> QED
  BY <1>1, <1>2, <1>3
  DEF RequestSound, Issued, DiscardSound, SelectSound, ScoreSound,
      ResultsSound, HandlerOnTime, LockOp

\* A player discards.
LEMMA DiscardBeginPlay ==
    ASSUME PlayInv, EngineInv', NEW r \in Slot, NEW p \in Player,
           DiscardBegin(r, p)
    PROVE  PlayInv'
<1> PICK x : x = DiscardTx(r, p, {})
  OBVIOUS
<1>1. req[r].timer = NoTimer /\ CanDiscard(p) /\ DiscardLockFree(p)
  BY SlotFacts DEF DiscardBegin, RequestSound, HandlerOnTime
<1>2. RequestSound(x)
  BY <1>1, NoTurn, DiscardTxSound
<1>3. x.op = "discard" /\ x.user = p
  BY DiscardTxFields
<1> QED
  BY <1>1, <1>2, <1>3, RequestPlay DEF DiscardBegin, Rows

\* A pick is prepared for the next round, whose turn it is.
LEMMA SelectTxSound ==
    ASSUME PlayInv, NEW r \in Slot, NEW p \in Player, CanSelect(p)
    PROVE  /\ SelectTx(r, p).op = "select"
           /\ RequestSound(SelectTx(r, p))
<1> PICK x : x = SelectTx(r, p)
  OBVIOUS
<1>1. /\ x.op = "select" /\ x.user = p /\ x.round = match.round + 1
      /\ x.timer = req[r].timer
  BY DEF SelectTx, Busy, Idle
<1>2. match.status = "awaiting_pick" /\ match.status \in Playing
  BY DEF CanSelect, Playing
<1>3. Started(Turn(x.timer)) /\ Turn(x.timer) \in Int /\ match.round \in Nat
  BY <1>1, SlotFacts
<1>4. Turn(x.timer) <= 3 * x.round - 2
  <2>1. TurnAt(match) = 3 * match.round + 1
    BY <1>2 DEF TurnAt
  <2>2. Turn(x.timer) <= TurnAt(match)
    BY <1>2, <1>3, SlotFacts, TurnReached
  <2> QED
    BY <1>1, <1>3, <2>1, <2>2
<1> QED
  BY <1>1, <1>2, <1>3, <1>4
  DEF RequestSound, Issued, DiscardSound, SelectSound, ScoreSound,
      ResultsSound, HandlerOnTime, LockOp

\* A player picks.
LEMMA SelectBeginPlay ==
    ASSUME PlayInv, EngineInv', NEW r \in Slot, NEW p \in Player,
           SelectBegin(r, p)
    PROVE  PlayInv'
<1> PICK x : x = SelectTx(r, p)
  OBVIOUS
<1>1. x.op = "select" /\ RequestSound(x)
  BY SelectTxSound DEF SelectBegin
<1> QED
  BY <1>1, RequestPlay DEF SelectBegin, Rows

\* An open round is the current one, and its scores are awaited.
LEMMA OpenRound ==
    ASSUME PlayInv, NEW n \in Round, rounds[n] = "open"
    PROVE  /\ n = match.round
           /\ match.status = "awaiting_scores" \/ Over
           /\ match.status = "awaiting_scores" => TurnAt(match) = 3 * n - 1
BY DEF PlayInv, PhaseShape, Over, TurnAt

\* A score is submitted.
LEMMA SubmitBeginPlay ==
    ASSUME PlayInv, EngineInv', NEW r \in Slot, NEW p \in Player,
           NEW n \in Round, SubmitBegin(r, p, n)
    PROVE  PlayInv'
<1> PICK x : x = [Busy(r, "submit") EXCEPT !.user = p, !.round = n]
  OBVIOUS
<1>1. x.op = "submit" /\ x.round = n /\ x.timer = req[r].timer
  BY DEF Busy, Idle
<1>2. rounds[n] = "open" /\ match.status = "awaiting_scores"
  BY DEF SubmitBegin
<1>3. Started(Turn(x.timer)) /\ Turn(x.timer) \in Int
  BY <1>1, SlotFacts
<1>4. Turn(x.timer) <= 3 * n - 1
  BY <1>2, <1>3, SlotFacts, OpenRound, TurnReached DEF Playing
<1>5. RequestSound(x)
  BY <1>1, <1>2, <1>3, <1>4
  DEF RequestSound, Issued, DiscardSound, SelectSound, ScoreSound,
      ResultsSound, HandlerOnTime, LockOp
<1> QED
  BY <1>1, <1>5, RequestPlay DEF SubmitBegin, Rows

\* A player or a moderator ends the match early.
LEMMA ForfeitBeginPlay ==
    ASSUME PlayInv, EngineInv', NEW r \in Slot, NEW p \in Player,
           ForfeitBegin(r, p)
    PROVE  PlayInv'
<1> PICK x : x = [Busy(r, "forfeit") EXCEPT !.user = p,
                                            !.version = match.version]
  OBVIOUS
<1>1. x.op = "forfeit" /\ x.timer = req[r].timer
  BY DEF Busy, Idle
<1>2. Started(Turn(x.timer)) /\ "forfeit" \in Enabled
  BY <1>1, SlotFacts DEF ForfeitBegin
<1>3. RequestSound(x)
  BY <1>1, <1>2
  DEF RequestSound, Issued, DiscardSound, SelectSound, ScoreSound,
      ResultsSound, HandlerOnTime, LockOp
<1> QED
  BY <1>1, <1>3, RequestPlay DEF ForfeitBegin, Rows

\* A moderator aborts the match.
LEMMA AbortBeginPlay ==
    ASSUME PlayInv, EngineInv', NEW r \in Slot, AbortBegin(r)
    PROVE  PlayInv'
<1> PICK x : x = TransitionTx(r, "aborted")
  OBVIOUS
<1>1. x.op = "transition" /\ x.status = "aborted" /\ x.timer = req[r].timer
  BY DEF TransitionTx, Busy, Idle
<1>2. Started(Turn(x.timer)) /\ "abort" \in Enabled
  BY <1>1, SlotFacts DEF AbortBegin
<1>3. RequestSound(x)
  BY <1>1, <1>2
  DEF RequestSound, Issued, DiscardSound, SelectSound, ScoreSound,
      ResultsSound, HandlerOnTime, LockOp
<1> QED
  BY <1>1, <1>3, RequestPlay DEF AbortBegin, Rows

-----------------------------------------------------------------------------
(* The handlers of the timers read the rows, and act or return.            *)

\* The phases have timers of their own, and only the first has turn 0.
LEMMA PhaseTimerType ==
    ASSUME TypeOK, PhaseShape, match.status \in Playing
    PROVE  PhaseTimer \in Timer
<1>1. match.round \in 0 .. (2 * HandSize) /\ HandSize \in Nat
  BY MatchEngineAssumption DEF TypeOK, MatchRow, Round
<1>2. match.status = "awaiting_pick" => match.round + 1 \in Round
  BY <1>1 DEF PhaseShape, Round
<1>3. match.status \in {"awaiting_scores", "round_results"}
        => match.round \in Round
  BY <1>1 DEF PhaseShape, Round
<1> QED
  BY <1>2, <1>3 DEF PhaseTimer, Timer, Playing

\* While the first turn lasts, the match waits for discards.
LEMMA DiscardPhase ==
    ASSUME TypeOK, PhaseShape, match.status \in Playing, TurnAt(match) <= 0
    PROVE  match.status = "awaiting_discards"
<1>1. match.round \in Nat
  BY DEF TypeOK, MatchRow, Round
<1>2. match.status \in {"awaiting_scores", "round_results"} => match.round > 0
  BY DEF PhaseShape
<1> QED
  BY <1>1, <1>2 DEF TurnAt, Playing

\* A timer whose turn has begun is of the present phase, or its phase is over.
LEMMA PhaseOrSpent ==
    ASSUME PlayInv, NEW t \in Timer, Started(Turn(t))
    PROVE  Spent(Turn(t)) \/ (match.status \in Playing /\ t = PhaseTimer)
<1> SUFFICES ASSUME ~Over, ~(Turn(t) < Turn(PhaseTimer))
             PROVE  match.status \in Playing /\ t = PhaseTimer
  BY DEF Spent
<1>1. TypeOK /\ PhaseShape
  BY DEF PlayInv, EngineInv
<1>2. match.status \in Playing
  BY <1>1 DEF TypeOK, MatchRow, Status, PhaseShape, Over
<1>3. PhaseTimer \in Timer
  BY <1>1, <1>2, PhaseTimerType
<1>4. Turn(t) = Turn(PhaseTimer)
  BY <1>2, <1>3, TurnType DEF Started
<1> QED
  BY <1>2, <1>3, <1>4, TurnNames

\* The deadline of the discards.
LEMMA DiscardTurn ==
    ASSUME NEW t \in Timer \cup {NoTimer}
    PROVE  t[1] = "discard" => t = <<"discard", 0>> /\ Turn(t) = 0
BY DEF Timer, NoTimer, Turn

\* Once the discards are over, so is the turn of their timer.
LEMMA DiscardsOver ==
    ASSUME PlayInv, match.status # "awaiting_discards"
    PROVE  Spent(0)
<1>1. TypeOK /\ PhaseShape /\ match.round \in Nat
  BY DEF PlayInv, EngineInv, TypeOK, MatchRow, Round
<1>2. CASE match.status \in Playing
  <2>1. match.status \in {"awaiting_scores", "round_results"} => match.round > 0
    BY <1>1 DEF PhaseShape
  <2>2. 0 < TurnAt(match)
    BY <1>1, <1>2, <2>1 DEF TurnAt, Playing
  <2> QED
    BY <1>1, <1>2, <2>2, TurnReached
<1>3. CASE match.status \in Terminal
  BY <1>3 DEF Spent, Over
<1> QED
  BY <1>1, <1>2, <1>3 DEF TypeOK, MatchRow, Status, PhaseShape

\* A slot goes on with the pending hands.
LEMMA DiscardsPlay ==
    ASSUME PlayInv, EngineInv', NEW r \in Slot, NEW rest,
           Goto(r, [Busy(r, "discards") EXCEPT !.pending = rest]),
           UNCHANGED Rows, Turn(req[r].timer) = 0,
           \A p \in Player \ rest : hands[p].discarded
    PROVE  PlayInv'
<1> PICK x : x = [Busy(r, "discards") EXCEPT !.pending = rest]
  OBVIOUS
<1>1. x.op = "discards" /\ x.pending = rest /\ x.timer = req[r].timer
  BY DEF Busy, Idle
<1>2. Started(Turn(x.timer))
  BY <1>1, SlotFacts
<1>3. RequestSound(x)
  BY <1>1, <1>2
  DEF RequestSound, Issued, DiscardSound, SelectSound, ScoreSound,
      ResultsSound, HandlerOnTime, LockOp
<1> QED
  BY <1>1, <1>3, RequestPlay

\* The discard timer looks for hands that are not discarded, ...
LEMMA DiscardHandlerPlay ==
    ASSUME PlayInv, EngineInv', NEW r \in Slot, DiscardHandler(r)
    PROVE  PlayInv'
<1> DEFINE rest == {p \in Player : ~hands[p].discarded}
<1>1. Turn(req[r].timer) = 0
  BY SlotFacts, DiscardTurn DEF DiscardHandler
<1>2. CASE match.status # "awaiting_discards"
  BY <1>1, <1>2, DiscardsOver, QuitPlay DEF DiscardHandler, Rows
<1>3. CASE match.status = "awaiting_discards"
  <2>1. Goto(r, [Busy(r, "discards") EXCEPT !.pending = rest])
    BY <1>3 DEF DiscardHandler
  <2>2. \A p \in Player \ rest : hands[p].discarded
    OBVIOUS
  <2> HIDE DEF rest
  <2> QED
    BY <1>1, <2>1, <2>2, DiscardsPlay DEF DiscardHandler, Rows
<1> QED
  BY <1>2, <1>3

\* ... acts for one after the other, ...
LEMMA DiscardHandlerNextPlay ==
    ASSUME PlayInv, EngineInv', NEW r \in Slot, NEW p \in Player,
           DiscardHandlerNext(r, p)
    PROVE  PlayInv'
<1> DEFINE rest == req[r].pending \ {p}
<1>1. /\ Turn(req[r].timer) = 0
      /\ \A q \in Player \ req[r].pending : hands[q].discarded
  BY SlotFacts DEF DiscardHandlerNext, RequestSound, HandlerOnTime
<1>2. CASE CanDiscard(p)
  <2> PICK x : x = DiscardTx(r, p, rest)
    OBVIOUS
  <2>1. RequestSound(x)
    BY <1>1, <1>2, DiscardTxSound
  <2>2. x.op = "discard" /\ x.user = p /\ DiscardLockFree(p)
    BY DiscardTxFields DEF DiscardHandlerNext
  <2>3. Goto(r, x)
    BY <1>2 DEF DiscardHandlerNext
  <2> QED
    BY <2>1, <2>2, <2>3, RequestPlay DEF DiscardHandlerNext, Rows
<1>3. CASE ~CanDiscard(p) /\ match.status = "awaiting_discards" /\ active[p]
  <2>1. Goto(r, [Busy(r, "discards") EXCEPT !.pending = rest])
    BY <1>3 DEF DiscardHandlerNext
  <2>2. \A q \in Player \ rest : hands[q].discarded
    BY <1>1, <1>3 DEF CanDiscard
  <2> HIDE DEF rest
  <2> QED
    BY <1>1, <2>1, <2>2, DiscardsPlay DEF DiscardHandlerNext, Rows
<1>4. CASE ~(match.status = "awaiting_discards" /\ active[p])
  <2>1. Goto(r, After(r, FALSE))
    BY <1>4 DEF DiscardHandlerNext, CanDiscard
  <2>2. Spent(0)
    BY <1>4, SlotFacts, DiscardsOver DEF PhaseShape, Spent
  <2> QED
    BY <1>1, <2>1, <2>2, QuitPlay DEF DiscardHandlerNext, Rows
<1> QED
  BY <1>2, <1>3, <1>4

\* ... and is done when none is left: the phase is then over.
LEMMA DiscardHandlerEndPlay ==
    ASSUME PlayInv, EngineInv', NEW r \in Slot, DiscardHandlerEnd(r)
    PROVE  PlayInv'
<1>1. /\ Turn(req[r].timer) = 0
      /\ \A p \in Player : hands[p].discarded
  BY SlotFacts DEF DiscardHandlerEnd, RequestSound, HandlerOnTime
<1>2. Spent(0)
  BY <1>1, SlotFacts, DiscardsOver, MatchEngineAssumption DEF PhaseShape, Spent
<1> QED
  BY <1>1, <1>2, QuitPlay DEF DiscardHandlerEnd, Rows

\* The player whose turn it is holds a card.
LEMMA PickerCard ==
    ASSUME PlayInv, match.status = "awaiting_pick"
    PROVE  /\ match.round + 1 \in Round
           /\ hands[Picker(match.round + 1)].cards > 0
<1>1. TypeOK /\ PhaseShape /\ PicksCounted /\ HandSize \in Nat
  BY MatchEngineAssumption DEF PlayInv, EngineInv
<1>2. match.round \in Nat /\ match.round < 2 * HandSize
  BY <1>1 DEF PhaseShape, TypeOK, MatchRow, Round
<1> DEFINE red == hands["red"].cards
           blue == hands["blue"].cards
           picker == Picker(match.round + 1)
<1>3. red \in Nat /\ blue \in Nat
  BY <1>1 DEF TypeOK, HandRow, Player
<1>4. /\ red + blue + match.round = 2 * HandSize
      /\ picker = "red" => blue = red
      /\ picker # "red" => blue = red + 1
  BY <1>1, <1>3 DEF PicksCounted
<1>5. picker = "red" \/ picker = "blue"
  BY DEF Picker
<1>6. hands[picker].cards > 0
  <2>1. CASE picker = "red"
    <3>1. red > 0
      BY <1>1, <1>2, <1>3, <1>4, <2>1
    <3> QED
      BY <2>1, <3>1
  <2>2. CASE picker = "blue"
    <3>1. blue > 0
      BY <1>3, <1>4, <2>2
    <3> QED
      BY <2>2, <3>1
  <2> QED
    BY <1>5, <2>1, <2>2
<1> QED
  BY <1>1, <1>2, <1>6 DEF Round

\* The pick timer finds the player whose turn it is, ...
LEMMA PickHandlerPlay ==
    ASSUME PlayInv, EngineInv', NEW r \in Slot, PickHandler(r)
    PROVE  PlayInv'
<1> DEFINE p == Picker(match.round + 1)
<1>1. /\ req[r].timer \in Timer /\ req[r].timer[1] = "pick"
      /\ Started(Turn(req[r].timer))
  BY SlotFacts, PickTurn DEF PickHandler
<1>2. CASE match.status # "awaiting_pick"
  <2>1. Spent(Turn(req[r].timer))
    BY <1>1, <1>2, PhaseOrSpent DEF PhaseTimer, Playing
  <2> QED
    BY <1>2, <2>1, QuitPlay DEF PickHandler, Rows
<1>3. CASE match.status = "awaiting_pick"
  <2> PICK x : x = [Busy(r, "auto_pick") EXCEPT !.user = p]
    OBVIOUS
  <2>1. /\ hands[p].cards # 0
        /\ x.op = "auto_pick" /\ x.user = p /\ x.timer = req[r].timer
    <3>1. hands[p].cards > 0 /\ p \in Player
      BY <1>3, PickerCard DEF Picker, Player
    <3>2. hands[p].cards \in Nat
      BY <3>1, SlotFacts DEF TypeOK, HandRow
    <3> QED
      BY <3>1, <3>2 DEF Busy, Idle
  <2>2. Goto(r, x)
    BY <1>3, <2>1 DEF PickHandler
  <2> HIDE DEF p
  <2>3. RequestSound(x)
    BY <1>1, <2>1
    DEF RequestSound, Issued, DiscardSound, SelectSound, ScoreSound,
        ResultsSound, HandlerOnTime, LockOp, p
  <2> QED
    BY <2>1, <2>2, <2>3, RequestPlay DEF PickHandler, Rows
<1> QED
  BY <1>2, <1>3

\* ... and picks for him, or finds the phase over.
LEMMA AutoPickPlay ==
    ASSUME PlayInv, EngineInv', NEW r \in Slot, AutoPick(r)
    PROVE  PlayInv'
<1> DEFINE p == req[r].user
<1>1. CASE CanSelect(p)
  <2> PICK x : x = SelectTx(r, p)
    OBVIOUS
  <2>1. x.op = "select" /\ RequestSound(x)
    BY <1>1, SlotFacts, SelectTxSound
  <2> QED
    BY <1>1, <2>1, RequestPlay DEF AutoPick, Rows
<1>2. CASE ~CanSelect(p)
  <2>1. /\ req[r].timer \in Timer /\ req[r].timer[1] = "pick"
        /\ Started(Turn(req[r].timer))
    BY SlotFacts
    DEF AutoPick, RequestSound, HandlerOnTime, Timer, NoTimer
  <2>2. Spent(Turn(req[r].timer))
    <3> SUFFICES ASSUME match.status \in Playing, req[r].timer = PhaseTimer
                 PROVE  FALSE
      BY <2>1, PhaseOrSpent
    <3>1. /\ match.status = "awaiting_pick"
          /\ req[r].timer[2] = match.round + 1
      BY <2>1 DEF PhaseTimer, Playing
    <3>2. p = Picker(match.round + 1)
      BY <3>1, SlotFacts DEF AutoPick, RequestSound, HandlerOnTime
    <3>3. active[p]
      BY SlotFacts, <3>1 DEF PhaseShape, Over, Terminal
    <3> QED
      BY <1>2, <3>1, <3>2, <3>3, PickerCard DEF CanSelect
  <2> QED
    BY <1>2, <2>2, QuitPlay DEF AutoPick, Rows
<1> QED
  BY <1>1, <1>2

\* A round that has begun and is not open has ended.
LEMMA ScoreHandlerPlay ==
    ASSUME PlayInv, EngineInv', NEW r \in Slot, ScoreHandler(r)
    PROVE  PlayInv'
<1> DEFINE n == req[r].timer[2]
           missing == {p \in Player : scores[n][p] = "none"}
<1>1. /\ req[r].timer \in Timer /\ req[r].timer[1] = "score_submission"
      /\ Started(Turn(req[r].timer))
      /\ Turn(req[r].timer) = 3 * n - 1 /\ n \in Round
  BY SlotFacts, ScoreTurn DEF ScoreHandler
<1>2. CASE rounds[n] # "open" \/ match.status # "awaiting_scores"
  <2>1. Spent(Turn(req[r].timer))
    <3> SUFFICES ASSUME match.status \in Playing, req[r].timer = PhaseTimer
                 PROVE  FALSE
      BY <1>1, PhaseOrSpent
    <3>1. match.status = "awaiting_scores" /\ n = match.round
      BY <1>1 DEF PhaseTimer, Playing
    <3> QED
      BY <1>2, <3>1, SlotFacts DEF PhaseShape
  <2> QED
    BY <1>2, <2>1, QuitPlay DEF ScoreHandler, Rows
<1>3. CASE rounds[n] = "open" /\ match.status = "awaiting_scores"
  <2> PICK x : x = [Busy(r, "expire") EXCEPT !.round = n, !.pending = missing]
    OBVIOUS
  <2>1. /\ x.op = "expire" /\ x.round = n /\ x.pending = missing
        /\ x.timer = req[r].timer
    BY DEF Busy, Idle
  <2>2. Goto(r, x)
    BY <1>3 DEF ScoreHandler
  <2>3. /\ \A p \in Player \ x.pending : scores[n][p] # "none"
        /\ Turn(x.timer) <= 3 * x.round - 1
    BY <1>1, <2>1, SlotFacts
  <2> HIDE DEF n, missing
  <2>4. RequestSound(x)
    BY <1>1, <1>3, <2>1, <2>3
    DEF RequestSound, Issued, DiscardSound, SelectSound, ScoreSound,
        ResultsSound, HandlerOnTime, LockOp
  <2> QED
    BY <2>1, <2>2, <2>4, RequestPlay DEF ScoreHandler, Rows
<1> QED
  BY <1>2, <1>3

\* An ended round is behind the phase, unless its results are displayed.
LEMMA ResultsHandlerPlay ==
    ASSUME PlayInv, EngineInv', NEW r \in Slot, ResultsHandler(r)
    PROVE  PlayInv'
<1> DEFINE n == req[r].timer[2]
<1>1. /\ req[r].timer \in Timer /\ req[r].timer[1] = "round_results"
      /\ Started(Turn(req[r].timer))
      /\ Turn(req[r].timer) = 3 * n /\ n \in Round
  BY SlotFacts, ResultsTurn DEF ResultsHandler
<1>2. \/ Spent(Turn(req[r].timer))
      \/ /\ match.status = "round_results" /\ match.round = n
         /\ rounds[n] = "ended" /\ BothScored(n)
  <2> SUFFICES ASSUME match.status \in Playing, req[r].timer = PhaseTimer
               PROVE  /\ match.status = "round_results" /\ match.round = n
                      /\ rounds[n] = "ended" /\ BothScored(n)
    BY <1>1, PhaseOrSpent
  <2>1. match.status = "round_results" /\ match.round = n
    BY <1>1 DEF PhaseTimer, Playing
  <2>2. rounds[n] # "none"
    BY <1>1, <2>1, SlotFacts DEF PlayInv, EngineInv, RoundsNumbered
  <2>3. rounds[n] # "open"
    BY <1>1, <2>1, SlotFacts DEF PhaseShape, Terminal
  <2> QED
    BY <1>1, <2>1, <2>2, <2>3, SlotFacts DEF PhaseShape, TypeOK
<1>3. CASE \E ok \in BOOLEAN : Goto(r, After(r, ok))
           /\ ~(/\ match.status = "round_results" /\ match.round = n
                /\ rounds[n] = "ended" /\ BothScored(n))
  BY <1>2, <1>3, QuitPlay DEF ResultsHandler, Rows
<1>4. CASE Goto(r, Busy(r, "announce")) /\ match.status # "round_results"
  <2> PICK x : x = Busy(r, "announce")
    OBVIOUS
  <2>1. x.op = "announce" /\ x.timer = req[r].timer
    BY DEF Busy, Idle
  <2>2. RequestSound(x)
    BY <1>1, <1>2, <1>4, <2>1
    DEF RequestSound, Issued, DiscardSound, SelectSound, ScoreSound,
        ResultsSound, HandlerOnTime, LockOp
  <2> QED
    BY <1>4, <2>1, <2>2, RequestPlay DEF ResultsHandler, Rows
<1>5. CASE /\ Goto(r, [Busy(r, "results") EXCEPT !.round = n,
                                                 !.version = match.version])
           /\ match.status = "round_results" /\ match.round = n
  <2> PICK x : x = [Busy(r, "results") EXCEPT !.round = n,
                                              !.version = match.version]
    OBVIOUS
  <2>1. /\ x.op = "results" /\ x.round = n /\ x.version = match.version
        /\ x.timer = req[r].timer
    BY DEF Busy, Idle
  <2>2. Turn(x.timer) <= 3 * x.round
    BY <1>1, <2>1, SlotFacts
  <2> HIDE DEF n
  <2>3. RequestSound(x)
    BY <1>1, <1>5, <2>1, <2>2
    DEF RequestSound, Issued, DiscardSound, SelectSound, ScoreSound,
        ResultsSound, HandlerOnTime, LockOp
  <2> QED
    BY <1>5, <2>1, <2>3, RequestPlay DEF ResultsHandler, Rows
<1> QED
  <2> HIDE DEF n
  <2> QED
    BY <1>3, <1>4, <1>5 DEF ResultsHandler, n

\* An announcement changes no row.
LEMMA AnnouncePlay ==
    ASSUME PlayInv, EngineInv', NEW r \in Slot, Announce(r)
    PROVE  PlayInv'
<1>1. Spent(Turn(req[r].timer))
  BY SlotFacts DEF Announce, RequestSound, HandlerOnTime
<1> QED
  BY <1>1, QuitPlay DEF Announce, Rows

\* A crash drops the request of a slot.
LEMMA CrashPlay ==
    ASSUME PlayInv, EngineInv', NEW r \in Slot, Crash(r)
    PROVE  PlayInv'
<1> PICK x : x = Idle
  OBVIOUS
<1>1. x.op = "idle" /\ RequestSound(x)
  BY SlotFacts, IdleSound DEF Idle
<1> QED
  BY <1>1, RequestPlay DEF Crash, Rows

-----------------------------------------------------------------------------
(* An instance writes the row of a timer: it claims one whose turn has     *)
(* begun, and completes or gives up one whose phase is over.               *)

\* A step that writes one row of the timers, and no other table, keeps the
\* invariant if the timer has begun and is not lost.
LEMMA TimerPlay ==
    ASSUME PlayInv, EngineInv', NEW r \in Slot, NEW y, Goto(r, y),
           UNCHANGED <<match, hands, active, rounds, scores, settled>>,
           y.op \notin {"discard", "results"}, RequestSound(y),
           NEW t \in Timer \cup {NoTimer}, NEW row,
           timers' = [timers EXCEPT ![t] = row] \/ UNCHANGED timers,
           Started(Turn(t)), row.status # "paused",
           row.status \in {"scheduled", "processing"} \/ Spent(Turn(t))
    PROVE  PlayInv'
<1>1. TypeOK /\ PhaseShape /\ TimersOnTime /\ TypeOK'
  BY DEF PlayInv, EngineInv
<1>2. RowsForward /\ \A s \in Slot \ {r} : Undisturbed(req[s])
  BY DEF RowsForward, Forward, Undisturbed
<1>3. RequestSound(y)'
  <2>1. req'[r] = y
    BY <1>1 DEF Goto, TypeOK
  <2>2. y \in Request /\ (y.op \in Critical => y.round \in Round)
    BY <1>1, <2>1 DEF EngineInv, TypeOK, RequestsNameRounds, Critical
  <2>3. Undisturbed(y)
    BY DEF Undisturbed
  <2> QED
    BY <1>1, <1>2, <2>2, <2>3, UndisturbedSound
<1>4. PhaseShape'
  BY <1>1 DEF PhaseShape, BothScored, Over
<1>5. PicksCounted'
  BY DEF PlayInv, PicksCounted
<1>6. TimersOnTime'
  <2>1. \A u \in Timer : timers'[u] = timers[u] \/ (u = t /\ timers'[u] = row)
    BY <1>1 DEF TypeOK
  <2>2. ASSUME NEW u \in Timer
        PROVE  /\ timers'[u].status # "paused"
               /\ timers'[u].status # "none" => Started(Turn(u))'
    <3>1. Started(Turn(u))' <=> Started(Turn(u))
      BY DEF Started, Over, PhaseTimer
    <3> QED
      BY <1>1, <2>1, <3>1 DEF TimersOnTime
  <2>3. ASSUME match.status \in Playing
        PROVE  \/ timers'[PhaseTimer].status \in {"scheduled", "processing"}
               \/ DiscardsOverlap /\ match.status = "awaiting_discards"
    <3>1. PhaseTimer \in Timer
      BY <1>1, <2>3, PhaseTimerType
    <3>2. CASE PhaseTimer # t \/ timers'[PhaseTimer] = timers[PhaseTimer]
      BY <1>1, <2>1, <2>3, <3>1, <3>2 DEF TimersOnTime
    <3>3. CASE PhaseTimer = t /\ timers'[PhaseTimer] = row
      <4>1. CASE Spent(Turn(t))
        <5>1. Turn(PhaseTimer) = TurnAt(match) /\ TurnAt(match) \in Int
          BY <1>1, <2>3, PhaseTurn
        <5>2. ~(Turn(t) < Turn(PhaseTimer)) /\ ~Over
          BY <2>3, <3>3, <5>1 DEF Over, Playing, Terminal
        <5>3. DiscardsOverlap /\ TurnAt(match) = 0
          BY <3>3, <4>1, <5>1, <5>2 DEF Spent
        <5>4. match.status = "awaiting_discards"
          BY <1>1, <2>3, <5>3, DiscardPhase
        <5> QED
          BY <5>3, <5>4
      <4>2. CASE row.status \in {"scheduled", "processing"}
        BY <3>3, <4>2
      <4> QED
        BY <4>1, <4>2
    <3> QED
      BY <2>1, <3>1, <3>2, <3>3
  <2> QED
    BY <2>2, <2>3 DEF TimersOnTime, PhaseTimer
<1>7. SettledByResolution'
  BY DEF PlayInv, SettledByResolution, Over
<1> QED
  BY <1>2, <1>3, <1>4, <1>5, <1>6, <1>7, CommitPlay

\* An instance takes a timer that is due, or whose lease has expired.
LEMMA ClaimTimerPlay ==
    ASSUME PlayInv, EngineInv', NEW r \in Workers, NEW t \in Timer,
           ClaimTimer(r, t)
    PROVE  PlayInv'
<1> PICK x : x = [Idle EXCEPT !.op = "claimed", !.timer = t]
  OBVIOUS
<1> PICK row : row = [status |-> "processing", owner |-> r]
  OBVIOUS
<1>1. x.op = "claimed" /\ x.timer = t /\ r \in Slot
  BY DEF Idle, Slot
<1>2. TypeOK /\ TimersOnTime
  BY DEF PlayInv, EngineInv
<1>3. Started(Turn(t))
  BY <1>2 DEF ClaimTimer, Due, TimersOnTime
<1>4. RequestSound(x)
  BY <1>1, <1>3
  DEF RequestSound, Issued, DiscardSound, SelectSound, ScoreSound,
      ResultsSound, HandlerOnTime, LockOp
<1>5. Goto(r, x) /\ timers' = [timers EXCEPT ![t] = row]
      /\ UNCHANGED <<match, hands, active, rounds, scores, settled>>
  BY DEF ClaimTimer
<1>6. row.status = "processing"
  OBVIOUS
<1> QED
  BY <1>1, <1>3, <1>4, <1>5, <1>6, TimerPlay

\* The timer whose handler has returned or thrown.
LEMMA OutcomePlay ==
    ASSUME PlayInv, EngineInv', NEW r \in Slot,
           req[r].op \in {"handled", "threw"}, Goto(r, Idle),
           NEW st, st # "paused",
           UNCHANGED timers \/ Set(req[r].timer, st),
           UNCHANGED <<match, hands, active, rounds, scores, settled>>
    PROVE  PlayInv'
<1> PICK x : x = Idle
  OBVIOUS
<1> PICK t : t = req[r].timer
  OBVIOUS
<1> PICK row : row = Row(st)
  OBVIOUS
<1>1. x.op = "idle" /\ RequestSound(x)
  BY SlotFacts, IdleSound DEF Idle
<1>2. t \in Timer \cup {NoTimer} /\ Started(Turn(t)) /\ Spent(Turn(t))
  BY SlotFacts DEF RequestSound, HandlerOnTime
<1>3. row.status # "paused"
  BY DEF Row
<1>4. timers' = [timers EXCEPT ![t] = row] \/ UNCHANGED timers
  BY DEF Set
<1> QED
  BY <1>1, <1>2, <1>3, <1>4, TimerPlay

\* An instance is done with a timer, ...
LEMMA CompleteTimerPlay ==
    ASSUME PlayInv, EngineInv', NEW r \in Slot, CompleteTimer(r)
    PROVE  PlayInv'
<1> PICK st : st = "completed"
  OBVIOUS
<1> QED
  BY OutcomePlay DEF CompleteTimer

\* ... or schedules it again.
LEMMA RetryTimerPlay ==
    ASSUME PlayInv, EngineInv', NEW r \in Slot, RetryTimer(r)
    PROVE  PlayInv'
<1>1. PICK st \in {"scheduled", "failed"} :
        UNCHANGED timers \/ Set(req[r].timer, st)
  BY DEF RetryTimer
<1> QED
  BY <1>1, OutcomePlay DEF RetryTimer

-----------------------------------------------------------------------------
(* Scores are written.                                                     *)

\* Scores are only added.
LEMMA ScoresShape ==
    ASSUME PhaseShape, UNCHANGED <<match, hands, active, rounds>>,
           \A m \in Round, p \in Player :
               scores[m][p] # "none" => scores'[m][p] # "none"
    PROVE  PhaseShape'
BY DEF PhaseShape, BothScored, Over

\* A step that only adds scores keeps the invariant.
LEMMA ScoresPlay ==
    ASSUME PlayInv, EngineInv', NEW r \in Slot, NEW n \in Round, NEW y,
           Goto(r, y), UNCHANGED <<match, hands, active, rounds, timers, settled>>,
           \A m \in Round, p \in Player :
               scores[m][p] # "none" => scores'[m][p] # "none",
           y.op \notin {"discard", "results"}, RequestSound(y)'
    PROVE  PlayInv'
<1>1. TypeOK /\ PhaseShape /\ TimersOnTime /\ TypeOK'
  BY DEF PlayInv, EngineInv
<1>2. RowsForward /\ \A s \in Slot \ {r} : Undisturbed(req[s])
  BY DEF RowsForward, Forward, Undisturbed
<1>3. PhaseShape'
  BY <1>1, ScoresShape
<1>4. PicksCounted'
  BY DEF PlayInv, PicksCounted
<1>5. TimersOnTime'
  BY <1>1 DEF TimersOnTime, Started, PhaseTimer, Over
<1>6. SettledByResolution'
  BY DEF PlayInv, SettledByResolution, Over
<1> QED
  BY <1>2, <1>3, <1>4, <1>5, <1>6, CommitPlay

\* The request to resolve a round that has both scores.
LEMMA ToResolveSound ==
    ASSUME PlayInv, EngineInv', NEW r \in Slot, req[r].op \in LockOp,
           UNCHANGED <<match, rounds>>, NEW n, n = req[r].round,
           NEW y, y = [Busy(r, "to_resolve") EXCEPT !.round = n],
           BothScored(n)'
    PROVE  y.op = "to_resolve" /\ RequestSound(y)'
<1> PICK t : t = req[r].timer
  OBVIOUS
<1>1. y.op = "to_resolve" /\ y.round = n /\ y.timer = t
  BY DEF Busy, Idle
<1>2. /\ rounds[n] # "none" /\ Turn(t) <= 3 * n - 1 /\ Started(Turn(t))
      /\ Turn(t) \in Int
  BY SlotFacts DEF RequestSound, ScoreSound, HandlerOnTime
<1>3. Started(Turn(t))'
  BY <1>2 DEF Started, Over, PhaseTimer
<1> QED
  BY <1>1, <1>2, <1>3
  DEF RequestSound, Issued, DiscardSound, SelectSound, ScoreSound,
      ResultsSound, HandlerOnTime, LockOp

\* A score is stored, perhaps the second of its round.
LEMMA SubmitCommitPlay ==
    ASSUME PlayInv, EngineInv', NEW r \in Slot, SubmitCommit(r)
    PROVE  PlayInv'
<1> PICK n : n = req[r].round
  OBVIOUS
<1> PICK p : p = req[r].user
  OBVIOUS
<1>1. n \in Round /\ p \in Player /\ req[r].op \in LockOp /\ TypeOK
  BY DEF SubmitCommit, PlayInv, EngineInv, RequestsNameRounds, LockOp, TypeOK,
         Request
<1>2. CASE Goto(r, Idle) /\ UNCHANGED scores
  <2> PICK y : y = Idle
    OBVIOUS
  <2>1. y.op = "idle" /\ RequestSound(y)
    BY SlotFacts, IdleSound DEF Idle
  <2> QED
    BY <1>2, <2>1, RequestPlay DEF SubmitCommit, Rows
<1>3. CASE scores' = [scores EXCEPT ![n][p] = "played"]
  <2>1. \A m \in Round, q \in Player :
            scores[m][q] # "none" => scores'[m][q] # "none"
    BY <1>1, <1>3 DEF TypeOK
  <2>2. CASE Goto(r, Idle)
    <3> PICK y : y = Idle
      OBVIOUS
    <3>1. PhaseShape' /\ TypeOK'
      BY <2>1, ScoresShape DEF SubmitCommit, PlayInv, EngineInv
    <3>2. y.op = "idle" /\ RequestSound(y)'
      BY <3>1, IdleSound DEF Idle
    <3> QED
      BY <1>1, <2>1, <2>2, <3>2, ScoresPlay DEF SubmitCommit
  <2>3. CASE /\ scores[n][Other(p)] # "none"
             /\ Goto(r, [Busy(r, "to_resolve") EXCEPT !.round = n])
    <3> PICK y : y = [Busy(r, "to_resolve") EXCEPT !.round = n]
      OBVIOUS
    <3>1. BothScored(n)'
      <4>1. \A q \in Player : q = p \/ q = Other(p)
        BY <1>1 DEF Player, Other
      <4> QED
        BY <1>1, <1>3, <2>1, <2>3, <4>1 DEF BothScored, TypeOK
    <3>2. y.op = "to_resolve" /\ RequestSound(y)'
      BY <1>1, <3>1, ToResolveSound DEF SubmitCommit
    <3> QED
      BY <1>1, <2>1, <2>3, <3>2, ScoresPlay DEF SubmitCommit
  <2> QED
    BY <1>1, <1>3, <2>2, <2>3 DEF SubmitCommit
<1> QED
  BY <1>2, <1>3 DEF SubmitCommit

\* The score deadline stores a missing score, perhaps the last.
LEMMA ExpireCommitPlay ==
    ASSUME PlayInv, EngineInv', NEW r \in Slot, ExpireCommit(r)
    PROVE  PlayInv'
<1> PICK n : n = req[r].round
  OBVIOUS
<1> PICK y : y = [Busy(r, "to_resolve") EXCEPT !.round = n]
  OBVIOUS
<1>1. n \in Round /\ req[r].op \in LockOp /\ TypeOK
  BY DEF ExpireCommit, PlayInv, EngineInv, RequestsNameRounds, LockOp, TypeOK
<1>2. /\ \A m \in Round \ {n} : scores'[m] = scores[m]
      /\ \A p \in Player : scores'[n][p] = IF p \in req[r].pending
                                           THEN "timed_out" ELSE scores[n][p]
  BY <1>1 DEF ExpireCommit, TypeOK
<1>3. \A m \in Round, q \in Player :
          scores[m][q] # "none" => scores'[m][q] # "none"
  BY <1>2
<1>4. \A p \in Player \ req[r].pending : scores[n][p] # "none"
  BY SlotFacts DEF RequestSound, ScoreSound, ExpireCommit
<1>5. BothScored(n)'
  BY <1>2, <1>4 DEF BothScored
<1>6. y.op = "to_resolve" /\ RequestSound(y)'
  BY <1>1, <1>5, ToResolveSound DEF ExpireCommit
<1> QED
  BY <1>1, <1>3, <1>6, ScoresPlay DEF ExpireCommit

-----------------------------------------------------------------------------
(* The transactions that move the match on. Each fails, or finds the match *)
(* in the one phase that it may end.                                       *)

\* The phase is past the pick of a round that exists, and past the scores of
\* a round that has ended.
LEMMA RoundTurn ==
    ASSUME PlayInv, NEW n \in Round, rounds[n] # "none", ~Over
    PROVE  /\ match.status \in Playing
           /\ 3 * n - 2 < TurnAt(match)
           /\ rounds[n] # "open" => 3 * n - 1 < TurnAt(match)
<1>1. TypeOK /\ PhaseShape /\ match.round \in Nat /\ n \in Nat /\ n > 0
  BY DEF PlayInv, EngineInv, TypeOK, MatchRow, Round
<1>2. match.status \in Playing
  BY <1>1 DEF TypeOK, MatchRow, Status, PhaseShape, Over
<1>3. n <= match.round
  BY DEF PlayInv, EngineInv, RoundsNumbered
<1>4. match.status # "awaiting_discards"
  BY <1>1, <1>3 DEF PhaseShape
<1>5. match.status = "awaiting_scores" /\ rounds[n] # "open" => n # match.round
  BY <1>1 DEF PhaseShape
<1>6. CASE match.status = "awaiting_pick"
  <2>1. TurnAt(match) = 3 * match.round + 1
    BY <1>6 DEF TurnAt
  <2> QED
    BY <1>1, <1>2, <1>3, <2>1
<1>7. CASE match.status = "awaiting_scores"
  <2>1. TurnAt(match) = 3 * match.round - 1
    BY <1>7 DEF TurnAt
  <2> QED
    BY <1>1, <1>2, <1>3, <1>5, <1>7, <2>1
<1>8. CASE match.status = "round_results"
  <2>1. TurnAt(match) = 3 * match.round
    BY <1>8 DEF TurnAt
  <2> QED
    BY <1>1, <1>2, <1>3, <2>1
<1> QED
  BY <1>2, <1>4, <1>6, <1>7, <1>8 DEF Playing

\* A turn no later than such a round's is spent.
LEMMA RoundSpends ==
    ASSUME PlayInv, NEW n \in Round, rounds[n] # "none", NEW turn \in Int,
           \/ turn <= 3 * n - 2
           \/ turn <= 3 * n - 1 /\ rounds[n] # "open"
    PROVE  Spent(turn)
<1>1. CASE Over
  BY <1>1 DEF Spent
<1>2. CASE ~Over
  <2>1. TypeOK /\ n \in Nat
    BY DEF PlayInv, EngineInv, Round
  <2>2. match.status \in Playing /\ TurnAt(match) \in Int
    BY <1>2, <2>1, RoundTurn, PhaseTurn
  <2>3. turn < TurnAt(match)
    BY <1>2, <2>1, <2>2, RoundTurn
  <2> QED
    BY <2>1, <2>2, <2>3, TurnReached
<1> QED
  BY <1>1, <1>2

\* A resolution reads a round that is open.
LEMMA ResolveBeginPlay ==
    ASSUME PlayInv, EngineInv', NEW r \in Slot, ResolveBegin(r)
    PROVE  PlayInv'
<1> PICK n : n = req[r].round
  OBVIOUS
<1> PICK t : t = req[r].timer
  OBVIOUS
<1>1. /\ n \in Round /\ rounds[n] # "none" /\ BothScored(n)
      /\ Turn(t) <= 3 * n - 1 /\ Turn(t) \in Int /\ Started(Turn(t))
  BY SlotFacts
  DEF PlayInv, EngineInv, RequestsNameRounds, RequestSound, ScoreSound,
      HandlerOnTime, ResolveBegin
<1>2. CASE Resolvable(n)
  <2> PICK x : x = [Busy(r, "resolve") EXCEPT !.round = n,
                                              !.version = match.version]
    OBVIOUS
  <2>1. x.op = "resolve" /\ x.round = n /\ x.timer = t
    BY DEF Busy, Idle
  <2>2. RequestSound(x)
    BY <1>1, <2>1
    DEF RequestSound, Issued, DiscardSound, SelectSound, ScoreSound,
        ResultsSound, HandlerOnTime, LockOp
  <2> QED
    BY <1>2, <2>1, <2>2, RequestPlay DEF ResolveBegin, Rows
<1>3. CASE ~Resolvable(n)
  <2>1. Spent(Turn(t))
    BY <1>1, <1>3, RoundSpends DEF Resolvable
  <2> QED
    BY <1>3, <2>1, QuitPlay DEF ResolveBegin, Rows
<1> QED
  BY <1>2, <1>3

\* No timer is paused, so a constraint on paused timers never bites.
LEMMA NothingPaused == ASSUME PlayInv, NEW kinds PROVE Cancellable(kinds)
BY DEF PlayInv, TimersOnTime, Cancellable

\* A phase begins with its own timer, and cancels others.
LEMMA StartTimers ==
    ASSUME PlayInv, TypeOK', Forward, NEW t \in Timer, NEW kinds,
           timers' = Start(t, kinds), match'.status \in Playing,
           PhaseTimer' = t
    PROVE  TimersOnTime'
<1>1. TypeOK /\ TimersOnTime
  BY DEF PlayInv, EngineInv
<1>2. ASSUME NEW u \in Timer
      PROVE  /\ timers'[u].status # "paused"
             /\ timers'[u].status # "none" => Started(Turn(u))'
  <2>1. CASE u = t
    <3>1. Turn(u) <= Turn(PhaseTimer')
      BY <2>1, TurnType
    <3>2. timers'[u].status = "scheduled"
      BY <2>1 DEF Start, Scheduled, Row, Cancelled
    <3> QED
      BY <3>1, <3>2 DEF Started
  <2>2. CASE u # t
    <3>1. \/ timers'[u].status = timers[u].status
          \/ timers'[u].status = "cancelled" /\ timers[u].status \in Live
      BY <2>2 DEF Start, Cancelled, Row
    <3>2. timers'[u].status # "none" => timers[u].status # "none"
      BY <3>1 DEF Live
    <3>3. Turn(u) \in Int
      BY TurnType
    <3> QED
      BY <1>1, <3>1, <3>2, <3>3, ForwardTurns DEF TimersOnTime
  <2> QED
    BY <2>1, <2>2
<1>3. timers'[PhaseTimer'].status = "scheduled"
  BY DEF Start, Scheduled, Row, Cancelled
<1> QED
  BY <1>2, <1>3 DEF TimersOnTime

\* The end of a match cancels every timer.
LEMMA CancelledTimers ==
    ASSUME PlayInv, TypeOK', Over', timers' = Cancelled(AllKinds) \/ UNCHANGED timers
    PROVE  TimersOnTime'
<1>1. \A u \in Timer : timers'[u].status # "paused"
  BY DEF PlayInv, TimersOnTime, Cancelled, Row
<1>2. match'.status \notin Playing
  BY DEF Over, Playing, Terminal
<1> QED
  BY <1>1, <1>2 DEF TimersOnTime, Started

\* The results of a step on the rows, for the slots that are in another phase.
LEMMA UndisturbedByPhase ==
    ASSUME PlayInv, NEW s \in Slot,
           match.status \notin {"awaiting_pick", "round_results"}, ~Over,
           \A p \in Player : hands'[p].discarded => hands[p].discarded
    PROVE  Undisturbed(req[s])
BY SlotFacts DEF Undisturbed, RequestSound, ResultsSound

\* A hand is discarded, while no other slot is discarding it.
LEMMA DiscardedHand ==
    ASSUME PlayInv, NEW r \in Slot, NEW p, p = req[r].user,
           req[r].op = "discard", hands' = [hands EXCEPT ![p].discarded = TRUE]
    PROVE  /\ \A q \in Player : /\ hands'[q].cards = hands[q].cards
                                /\ hands'[q].discarded
                                      <=> q = p \/ hands[q].discarded
           /\ \A s \in Slot \ {r} : req[s].op = "discard" =>
                 \A q \in Player : hands'[q].discarded =>
                    hands[q].discarded \/ (q # req[s].user /\ DiscardsOverlap)
<1>1. /\ p \in Player /\ hands \in [Player -> HandRow]
  BY SlotFacts DEF TypeOK
<1>2. \A q \in Player : /\ hands'[q].cards = hands[q].cards
                        /\ hands'[q].discarded
                              <=> q = p \/ hands[q].discarded
  <2> SUFFICES ASSUME NEW q \in Player
               PROVE  /\ hands'[q].cards = hands[q].cards
                      /\ hands'[q].discarded <=> q = p \/ hands[q].discarded
    OBVIOUS
  <2>1. CASE q = p
    BY <1>1, <2>1 DEF HandRow
  <2>2. CASE q # p
    BY <1>1, <2>2 DEF HandRow
  <2> QED
    BY <2>1, <2>2
<1> QED
  BY <1>2 DEF PlayInv, HandsAndResultsLocked

\* The slot that has discarded a hand goes on with the pending ones.
LEMMA DiscardDoneSound ==
    ASSUME PlayInv, EngineInv', PhaseShape', NEW r \in Slot,
           req[r].op = "discard", Forward, hands'[req[r].user].discarded,
           \A q \in Player : hands[q].discarded => hands'[q].discarded,
           NEW y, y = DiscardDone(r)
    PROVE  y.op \in {"idle", "discards"} /\ RequestSound(y)'
<1> PICK t : t = req[r].timer
  OBVIOUS
<1>1. TypeOK /\ TypeOK'
  BY DEF PlayInv, EngineInv
<1>2. CASE t = NoTimer
  <2>1. y = Idle
    BY <1>2 DEF DiscardDone
  <2> QED
    BY <1>1, <2>1, IdleSound DEF Idle
<1>3. CASE t # NoTimer
  <2> PICK rest : rest = req[r].pending
    OBVIOUS
  <2>1. y.op = "discards" /\ y.pending = rest /\ y.timer = t
    BY <1>3 DEF DiscardDone, Busy, Idle
  <2>2. /\ Turn(t) = 0 /\ Started(0)
        /\ \A p \in Player \ rest : hands[p].discarded \/ p = req[r].user
    BY <1>3, SlotFacts DEF RequestSound, HandlerOnTime
  <2>3. Started(0)'
    BY <1>1, <2>2, ForwardTurns
  <2>4. \A p \in Player \ rest : hands'[p].discarded
    BY <2>2
  <2> QED
    BY <2>1, <2>2, <2>3, <2>4
    DEF RequestSound, Issued, DiscardSound, SelectSound, ScoreSound,
        ResultsSound, HandlerOnTime, LockOp
<1> QED
  BY <1>2, <1>3

\* A discard is written; the second one starts the pick phase and its timer.
LEMMA DiscardCommitPlay ==
    ASSUME PlayInv, EngineInv', NEW r \in Slot, DiscardCommit(r)
    PROVE  PlayInv'
<1> PICK p : p = req[r].user
  OBVIOUS
<1>1. /\ TypeOK /\ TypeOK' /\ PhaseShape /\ req[r].op = "discard"
      /\ p \in Player /\ match.round \in Nat
  BY SlotFacts DEF PlayInv, EngineInv, DiscardCommit
<1>2. /\ ~hands[p].discarded
      /\ req[r].ready => hands[Other(p)].discarded
      /\ ~DiscardsOverlap /\ hands[Other(p)].discarded => req[r].ready
  BY <1>1, SlotFacts DEF RequestSound, DiscardSound
<1>3. match.status = "awaiting_discards" \/ Over
  BY <1>1, <1>2 DEF PhaseShape, TypeOK, MatchRow, Status, Over
<1>4. CASE req[r].ready /\ ~(StillPlayable /\ Cancellable({"discard"}))
  <2>1. Spent(Turn(req[r].timer))
    BY <1>4, NothingPaused DEF StillPlayable, Spent, Over
  <2> QED
    BY <1>4, <2>1, QuitPlay DEF DiscardCommit, Rows
<1>5. CASE /\ hands' = [hands EXCEPT ![p].discarded = TRUE]
           /\ Goto(r, DiscardDone(r))
           /\ \/ ~req[r].ready /\ UNCHANGED <<match, timers>>
              \/ /\ req[r].ready /\ StillPlayable
                 /\ match' = [match EXCEPT !.status = "awaiting_pick",
                                           !.version = req[r].version + 1]
                 /\ timers' = Start(<<"pick", 1>>, {"discard"})
  <2> PICK y : y = DiscardDone(r)
    OBVIOUS
  <2>1. /\ \A q \in Player : /\ hands'[q].cards = hands[q].cards
                             /\ hands'[q].discarded
                                   <=> q = p \/ hands[q].discarded
        /\ \A s \in Slot \ {r} : req[s].op = "discard" =>
              \A q \in Player : hands'[q].discarded =>
                  hands[q].discarded \/ (q # req[s].user /\ DiscardsOverlap)
    <3>1. hands' = [hands EXCEPT ![p].discarded = TRUE]
      BY <1>5
    <3> QED
      BY <1>1, <3>1, DiscardedHand
  <2>2. UNCHANGED <<active, rounds, scores, settled>>
    BY DEF DiscardCommit
  <2>3. PicksCounted'
    <3>1. match'.round = match.round
      BY <1>1, <1>5 DEF TypeOK, MatchRow
    <3>2. /\ hands'["red"].cards = hands["red"].cards
          /\ hands'["blue"].cards = hands["blue"].cards
      BY <2>1 DEF Player
    <3> QED
      BY <3>1, <3>2, Zenon DEF PlayInv, PicksCounted
  <2>4. CASE ~req[r].ready /\ UNCHANGED <<match, timers>>
    <3>1. Forward
      BY <2>4 DEF Forward
    <3>2. PhaseShape'
      <4> DEFINE q == Other(p)
      <4>1. q \in Player /\ q # p
        BY <1>1 DEF Other, Player
      <4>2. ~DiscardsOverlap => ~hands[q].discarded
        BY <1>2, <2>4
      <4> HIDE DEF q
      <4>3. ~DiscardsOverlap => ~hands'[q].discarded
        BY <2>1, <4>1, <4>2
      <4> QED
        BY <1>1, <2>1, <2>2, <2>4, <4>1, <4>3 DEF PhaseShape, BothScored, Over
    <3>3. TimersOnTime'
      BY <2>4 DEF PlayInv, TimersOnTime, Started, PhaseTimer, Over
    <3>4. SettledByResolution'
      BY <2>2, <2>4 DEF PlayInv, SettledByResolution, Over
    <3>5. RowsForward /\ \A s \in Slot \ {r} : Undisturbed(req[s])
      BY <2>1, <2>2, <2>4, <3>1 DEF RowsForward, Undisturbed
    <3>6. y.op \in {"idle", "discards"} /\ RequestSound(y)'
      BY <1>1, <2>1, <3>1, <3>2, DiscardDoneSound
    <3> QED
      BY <1>5, <2>3, <3>2, <3>3, <3>4, <3>5, <3>6, CommitPlay
  <2>5. CASE /\ req[r].ready /\ StillPlayable
             /\ match' = [match EXCEPT !.status = "awaiting_pick",
                                       !.version = req[r].version + 1]
             /\ timers' = Start(<<"pick", 1>>, {"discard"})
    <3>1. /\ match.status = "awaiting_discards" /\ match.round = 0 /\ ~Over
          /\ match'.status = "awaiting_pick" /\ match'.round = 0
      BY <1>1, <1>3, <2>5
      DEF StillPlayable, Over, PhaseShape, TypeOK, MatchRow
    <3>2. PhaseTimer' = <<"pick", 1>> /\ <<"pick", 1>> \in Timer
          /\ 0 < 2 * HandSize
      BY <3>1, MatchEngineAssumption DEF PhaseTimer, Timer, Round
    <3>3. Forward
      <4>1. TurnAt(match) = 0 /\ TurnAt(match') = 1
        BY <3>1 DEF TurnAt
      <4> QED
        BY <1>1, <3>1, <4>1, PhaseTurn, PhaseTurnNext DEF Forward, Playing
    <3>4. \A q \in Player : hands'[q].discarded
      BY <1>1, <1>2, <2>1, <2>5 DEF Other, Player
    <3>5. PhaseShape'
      BY <1>1, <2>2, <3>1, <3>2, <3>4 DEF PhaseShape, BothScored, Over, Terminal
    <3>6. TimersOnTime'
      BY <1>1, <2>5, <3>1, <3>2, <3>3, StartTimers DEF Playing
    <3>7. SettledByResolution'
      BY <2>2, <3>1 DEF PlayInv, SettledByResolution, Over
    <3>8. RowsForward /\ \A s \in Slot \ {r} : Undisturbed(req[s])
      <4>1. ASSUME NEW s \in Slot PROVE req[s].op # "results"
        BY <3>1, SlotFacts DEF RequestSound, ResultsSound
      <4> QED
        BY <2>1, <2>2, <3>1, <3>3, <4>1 DEF RowsForward, Undisturbed
    <3>9. y.op \in {"idle", "discards"} /\ RequestSound(y)'
      BY <1>1, <2>1, <3>3, <3>5, DiscardDoneSound
    <3> QED
      BY <1>5, <2>3, <3>5, <3>6, <3>7, <3>8, <3>9, CommitPlay
  <2> QED
    BY <1>5, <2>4, <2>5
<1> QED
  BY <1>4, <1>5 DEF DiscardCommit

\* The players pick in turns.
LEMMA PickersAlternate ==
    ASSUME NEW n \in Nat
    PROVE  /\ Picker(n) \in Player
           /\ Picker(n + 1) = Other(Picker(n))
<1>1. n % 2 = 0 \/ n % 2 = 1
  OBVIOUS
<1>2. n % 2 = 0 => (n + 1) % 2 = 1
  OBVIOUS
<1>3. n % 2 = 1 => (n + 1) % 2 = 0
  OBVIOUS
<1> QED
  BY <1>1, <1>2, <1>3 DEF Picker, Other, Player

\* A pick costs the picker a card and hands the turn to the other player.
LEMMA PickCounted ==
    ASSUME PlayInv, NEW p, NEW n, n = match.round + 1, p = Picker(n),
           hands[p].cards > 0, hands' = [hands EXCEPT ![p].cards = @ - 1],
           match'.round = n
    PROVE  /\ PicksCounted'
           /\ \A q \in Player : hands'[q].discarded = hands[q].discarded
<1>1. /\ TypeOK /\ PicksCounted /\ hands \in [Player -> HandRow]
      /\ match.round \in Nat /\ n \in Nat /\ HandSize \in Nat
  BY MatchEngineAssumption DEF PlayInv, EngineInv, TypeOK, MatchRow, Round
<1>2. p \in Player /\ Picker(n + 1) = Other(p)
  BY <1>1, PickersAlternate
<1>3. \A q \in Player :
        /\ hands'[q].discarded = hands[q].discarded
        /\ hands'[q].cards = IF q = p THEN hands[q].cards - 1
                             ELSE hands[q].cards
  <2> SUFFICES ASSUME NEW q \in Player
               PROVE  /\ hands'[q].discarded = hands[q].discarded
                      /\ hands'[q].cards = IF q = p THEN hands[q].cards - 1
                                           ELSE hands[q].cards
    OBVIOUS
  <2>1. CASE q = p
    BY <1>1, <2>1 DEF HandRow
  <2>2. CASE q # p
    BY <1>1, <2>2 DEF HandRow
  <2> QED
    BY <2>1, <2>2
<1> DEFINE red == hands["red"].cards
           blue == hands["blue"].cards
           red1 == hands'["red"].cards
           blue1 == hands'["blue"].cards
           picker1 == Picker(n + 1)
<1>4. red \in Nat /\ blue \in Nat
  BY <1>1 DEF HandRow, Player
<1>5. /\ red + blue + match.round = 2 * HandSize
      /\ p = "red" => blue = red
      /\ p # "red" => blue = red + 1
  BY <1>1, <1>4 DEF PicksCounted
<1>6. /\ p = "red" => red1 = red - 1 /\ blue1 = blue /\ picker1 = "blue"
      /\ p = "blue" => red1 = red /\ blue1 = blue - 1 /\ picker1 = "red"
  BY <1>2, <1>3 DEF Player, Other
<1> HIDE DEF red, blue, red1, blue1, picker1
<1>7. /\ red1 + blue1 + n = 2 * HandSize
      /\ blue1 = red1 + IF picker1 = "red" THEN 0 ELSE 1
  <2>1. CASE p = "red"
    <3>1. red1 = red - 1 /\ blue1 = red /\ picker1 # "red"
      BY <1>5, <1>6, <2>1
    <3>2. red + red + match.round = 2 * HandSize
      BY <1>5, <2>1
    <3>3. red1 + blue1 + n = 2 * HandSize /\ blue1 = red1 + 1
      BY <1>1, <1>4, <3>1, <3>2
    <3> QED
      BY <3>1, <3>3
  <2>2. CASE p = "blue"
    <3>1. red1 = red /\ blue1 = blue - 1 /\ picker1 = "red" /\ blue = red + 1
      BY <1>5, <1>6, <2>2
    <3>2. red1 + blue1 + n = 2 * HandSize /\ blue1 = red1 + 0
      BY <1>1, <1>4, <1>5, <3>1
    <3> QED
      BY <3>1, <3>2
  <2> QED
    BY <1>2, <2>1, <2>2 DEF Player
<1>8. PicksCounted'
  BY <1>7 DEF PicksCounted, red1, blue1, picker1
<1> QED
  BY <1>3, <1>8

\* A pick that commits is for the next round, and by the player whose turn it is.
LEMMA NextRound ==
    ASSUME PlayInv, NEW r \in Slot, req[r].op = "select",
           NEW n, n = req[r].round, NEW p, p = req[r].user,
           RoundIsNew(n), StillPlayable
    PROVE  /\ match.status = "awaiting_pick" /\ ~Over
           /\ n = match.round + 1
           /\ p = Picker(n) /\ hands[p].cards > 0
<1>1. /\ TypeOK /\ n \in Round /\ n \in Nat /\ match.round \in Nat
      /\ rounds[n] = "none"
  BY SlotFacts DEF PlayInv, EngineInv, RequestsNameRounds, Round, RoundIsNew
<1>2. match.status = "awaiting_pick" /\ ~Over
  BY <1>1, SlotFacts DEF RequestSound, SelectSound, StillPlayable, Over
<1>3. p = Picker(n) /\ hands[p].cards > 0
  BY <1>1 DEF PlayInv, EngineInv, SelectingNext
<1>4. /\ \A k \in Round : k < n => rounds[k] # "none"
      /\ \A k \in Round : rounds[k] # "none" <=> k <= match.round
  BY <1>1 DEF PlayInv, EngineInv, SelectingNext, RoundsNumbered
<1>5. n > match.round
  BY <1>1, <1>4
<1>6. ASSUME n > match.round + 1 PROVE FALSE
  <2> PICK k : k = match.round + 1
    OBVIOUS
  <2>1. k \in Round /\ k < n
    BY <1>1, <1>6, MatchEngineAssumption DEF Round
  <2>2. k <= match.round
    BY <1>4, <2>1
  <2> QED
    BY <1>1, <2>2
<1> QED
  BY <1>1, <1>2, <1>3, <1>5, <1>6

\* A pick is written: a round, its score deadline, and the card that is gone; or
\* the round exists already and nothing is written.
LEMMA SelectCommitPlay ==
    ASSUME PlayInv, EngineInv', NEW r \in Slot, SelectCommit(r)
    PROVE  PlayInv'
<1> PICK p : p = req[r].user
  OBVIOUS
<1> PICK n : n = req[r].round
  OBVIOUS
<1> PICK t : t = req[r].timer
  OBVIOUS
<1>1. /\ TypeOK /\ TypeOK' /\ PhaseShape /\ req[r].op = "select"
      /\ p \in Player /\ n \in Round /\ n \in Nat /\ n > 0
      /\ match.round \in Nat
  BY SlotFacts DEF PlayInv, EngineInv, SelectCommit, RequestsNameRounds, Round
<1>2. /\ t \in Timer \cup {NoTimer} /\ Turn(t) \in Int /\ Turn(t) <= 3 * n - 2
  BY <1>1, SlotFacts DEF RequestSound, HandlerOnTime
<1>3. rounds[n] # "none" \/ match.status = "awaiting_pick" \/ Over
  BY <1>1, SlotFacts DEF RequestSound, SelectSound
<1>4. CASE ~(RoundIsNew(n) /\ StillPlayable /\ Cancellable({"pick"}))
  <2>1. rounds[n] # "none" \/ Over
    BY <1>4, NothingPaused DEF RoundIsNew, StillPlayable, Over
  <2>2. Spent(Turn(t))
    BY <1>1, <1>2, <2>1, RoundSpends DEF Spent
  <2> QED
    BY <1>4, <2>2, QuitPlay DEF SelectCommit, Rows
<1>5. CASE RoundIsNew(n) /\ StillPlayable /\ Cancellable({"pick"})
  <2> PICK y : y = After(r, TRUE)
    OBVIOUS
  <2>1. /\ rounds' = [rounds EXCEPT ![n] = "open"]
        /\ hands' = [hands EXCEPT ![p].cards = @ - 1]
        /\ match' = [match EXCEPT !.status = "awaiting_scores",
                                  !.round = n,
                                  !.version = req[r].version + 1]
        /\ timers' = Start(<<"score_submission", n>>, {"pick"})
        /\ Goto(r, y)
        /\ UNCHANGED <<active, scores, settled>>
    BY <1>5 DEF SelectCommit
  <2>2. /\ match.status = "awaiting_pick" /\ ~Over
        /\ match'.status = "awaiting_scores" /\ match'.round = n
    BY <1>1, <1>5, <2>1, NextRound DEF TypeOK, MatchRow
  <2>3. n = match.round + 1 /\ p = Picker(n) /\ hands[p].cards > 0
    BY <1>1, <1>5, NextRound
  <2>4. PicksCounted' /\ \A q \in Player : hands'[q].discarded = hands[q].discarded
    BY <2>1, <2>2, <2>3, PickCounted
  <2>5. /\ PhaseTimer' = <<"score_submission", n>>
        /\ <<"score_submission", n>> \in Timer
    BY <1>1, <2>2 DEF PhaseTimer, Timer
  <2>6. /\ TurnAt(match) = 3 * n - 2 /\ TurnAt(match') = 3 * n - 1
        /\ Turn(PhaseTimer) = TurnAt(match) /\ Turn(PhaseTimer') = TurnAt(match')
    <3>1. TurnAt(match) = 3 * match.round + 1 /\ TurnAt(match') = 3 * n - 1
      BY <2>2 DEF TurnAt
    <3>2. 3 * match.round + 1 = 3 * n - 2
      BY <1>1, <2>3
    <3> QED
      BY <1>1, <2>2, <3>1, <3>2, PhaseTurn, PhaseTurnNext DEF Playing
  <2>7. Forward
    BY <1>1, <2>2, <2>6 DEF Forward, Playing
  <2>8. \A k \in Round : rounds'[k] = IF k = n THEN "open" ELSE rounds[k]
    BY <1>1, <2>1 DEF TypeOK
  <2>9. PhaseShape'
    <3>1. \A k \in Round : rounds[k] # "open"
      BY <1>1, <2>2 DEF PhaseShape, Terminal
    <3>2. \A k \in Round : rounds'[k] = "open" => k = n
      BY <2>8, <3>1
    <3>3. \A k \in Round : rounds'[k] = "ended" => BothScored(k)'
      BY <1>1, <2>1, <2>8 DEF PhaseShape, BothScored
    <3>4. rounds'[n] = "open"
      BY <1>1, <2>8
    <3>5. \A q \in Player : hands'[q].discarded /\ active'[q]
      BY <1>1, <2>1, <2>2, <2>4 DEF PhaseShape, Playing
    <3> QED
      BY <1>1, <2>2, <3>2, <3>3, <3>4, <3>5 DEF PhaseShape
  <2>10. TimersOnTime'
    BY <1>1, <2>1, <2>2, <2>5, <2>7, StartTimers DEF Playing
  <2>11. SettledByResolution'
    BY <2>1, <2>2 DEF PlayInv, SettledByResolution, Over
  <2>12. RowsForward
    BY <2>1, <2>4, <2>7, <2>8 DEF RowsForward
  <2>13. ASSUME NEW s \in Slot PROVE Undisturbed(req[s])
    <3>1. req[s].op # "results"
      BY <2>2, SlotFacts DEF RequestSound, ResultsSound
    <3>2. ASSUME req[s].op = "select", rounds[req[s].round] = "none"
          PROVE  rounds'[req[s].round] # "none"
      <4> PICK m : m = req[s].round
        OBVIOUS
      <4>1. m \in Round /\ rounds[m] = "none"
            /\ \A k \in Round : k < m => rounds[k] # "none"
        BY <3>2 DEF PlayInv, EngineInv, SelectingNext, RequestsNameRounds
      <4>2. \A k \in Round : rounds[k] # "none" <=> k <= match.round
        BY DEF PlayInv, EngineInv, RoundsNumbered
      <4>3. m = n
        BY <1>1, <1>5, <2>3, <4>1, <4>2 DEF Round, RoundIsNew
      <4> QED
        BY <1>1, <2>8, <4>3
    <3> QED
      BY <2>4, <3>1, <3>2, SlotFacts DEF Undisturbed
  <2>14. y.op \notin {"discard", "results"} /\ RequestSound(y)'
    <3>1. y = Idle \/ EndedBy(y, t)
      BY AfterEnds
    <3>2. Spent(Turn(t))'
      <4>1. Turn(t) < Turn(PhaseTimer')
        BY <1>1, <1>2, <2>6
      <4> QED
        BY <4>1 DEF Spent
    <3>3. EndedBy(y, t)
      BY <3>1 DEF EndedBy
    <3> QED
      BY <1>1, <1>2, <2>9, <3>2, <3>3, EndedOp, EndedSoundNext
  <2> QED
    BY <2>1, <2>4, <2>9, <2>10, <2>11, <2>12, <2>13, <2>14, CommitPlay
<1> QED
  BY <1>4, <1>5

\* A step ends the match, and with it the phase of every timer.
LEMMA EndPlay ==
    ASSUME PlayInv, EngineInv', NEW r \in Slot, NEW y, Goto(r, y),
           NEW t \in Timer \cup {NoTimer}, EndedBy(y, t),
           Over', match'.round = match.round,
           "abort" \notin Enabled => match'.status # "aborted",
           UNCHANGED <<hands, scores>>,
           \A k \in Round : \/ rounds'[k] = rounds[k]
                            \/ rounds'[k] = "ended" /\ BothScored(k),
           timers' = Cancelled(AllKinds) \/ UNCHANGED timers,
           SettledByResolution'
    PROVE  PlayInv'
<1>1. TypeOK' /\ PhaseShape /\ match'.status \in Terminal
  BY DEF PlayInv, EngineInv, Over
<1>2. PhaseShape'
  <2>1. \A k \in Round : rounds'[k] = "open" => k = match'.round
    BY <1>1 DEF PhaseShape
  <2>2. \A k \in Round : rounds'[k] = "ended" => BothScored(k)'
    BY <1>1 DEF PhaseShape, BothScored
  <2> QED
    BY <1>1, <2>1, <2>2 DEF PhaseShape, Terminal, Playing, Over
<1>3. PicksCounted'
  BY DEF PlayInv, PicksCounted
<1>4. TimersOnTime'
  BY <1>1, CancelledTimers
<1>5. RowsForward /\ \A s \in Slot \ {r} : Undisturbed(req[s])
  BY DEF RowsForward, Forward, Undisturbed
<1>6. y.op \notin {"discard", "results"} /\ RequestSound(y)'
  <2>1. Spent(Turn(t))'
    BY DEF Spent
  <2> QED
    BY <1>1, <1>2, <2>1, EndedOp, EndedSoundNext
<1> QED
  BY <1>2, <1>3, <1>4, <1>5, <1>6, CommitPlay

\* Settling ends every phase.
LEMMA SettleEnds ==
    ASSUME TypeOK, NEW v, NEW w, Settle(v, w)
    PROVE  /\ match'.status = "completed" /\ match'.round = match.round
           /\ Over'
           /\ "abort" \notin Enabled => match'.status # "aborted"
           /\ timers' = Cancelled(AllKinds) /\ settled' = settled + 1
BY DEF Settle, TypeOK, MatchRow, Over, Terminal

\* A forfeit settles the match.
LEMMA ForfeitCommitPlay ==
    ASSUME PlayInv, EngineInv', NEW r \in Slot, ForfeitCommit(r)
    PROVE  PlayInv'
<1> PICK y : y = Idle
  OBVIOUS
<1> PICK t : t = NoTimer
  OBVIOUS
<1>1. TypeOK /\ Goto(r, y) /\ EndedBy(y, t) /\ t \in Timer \cup {NoTimer}
  BY DEF PlayInv, EngineInv, ForfeitCommit, EndedBy
<1>2. PICK v, w : Settle(v, w)
  BY NothingPaused DEF ForfeitCommit
<1>3. "forfeit" \in Enabled
  BY SlotFacts DEF RequestSound, Issued, ForfeitCommit
<1>4. SettledByResolution'
  BY <1>3 DEF SettledByResolution
<1>5. /\ Over' /\ match'.round = match.round
      /\ "abort" \notin Enabled => match'.status # "aborted"
      /\ timers' = Cancelled(AllKinds)
  BY <1>1, <1>2, SettleEnds
<1>6. /\ UNCHANGED <<hands, scores>>
      /\ \A k \in Round : \/ rounds'[k] = rounds[k]
                          \/ rounds'[k] = "ended" /\ BothScored(k)
  BY DEF ForfeitCommit
<1> QED
  BY <1>1, <1>4, <1>5, <1>6, EndPlay

\* Without pauses the only transition is an abort.
LEMMA TransitionCommitPlay ==
    ASSUME PlayInv, EngineInv', NEW r \in Slot, TransitionCommit(r)
    PROVE  PlayInv'
<1> PICK y : y = Idle
  OBVIOUS
<1> PICK t : t = NoTimer
  OBVIOUS
<1>1. TypeOK /\ EndedBy(y, t) /\ t \in Timer \cup {NoTimer}
  BY DEF PlayInv, EngineInv, EndedBy
<1>2. req[r].status = "aborted" /\ "abort" \in Enabled
  BY SlotFacts DEF RequestSound, Issued, TransitionCommit
<1>3. Goto(r, y)
  BY <1>2 DEF TransitionCommit
<1>4. CASE UNCHANGED match
  <2>1. y.op = "idle" /\ RequestSound(y)
    BY SlotFacts, IdleSound DEF Idle
  <2> QED
    BY <1>3, <1>4, <2>1, RequestPlay DEF TransitionCommit, Rows
<1>5. CASE match' = [match EXCEPT !.status = "aborted", !.version = @ + 1]
  <2>1. match'.status = "aborted" /\ match'.round = match.round /\ Over'
    BY <1>1, <1>5 DEF TypeOK, MatchRow, Over, Terminal
  <2>2. SettledByResolution'
    BY <2>1 DEF PlayInv, SettledByResolution, TransitionCommit
  <2> QED
    BY <1>1, <1>2, <1>3, <2>1, <2>2, EndPlay DEF TransitionCommit
<1> QED
  BY <1>2, <1>4, <1>5 DEF TransitionCommit

\* A results display ends with the next pick phase and its timer.
LEMMA ResultsCommitPlay ==
    ASSUME PlayInv, EngineInv', NEW r \in Slot, ResultsCommit(r)
    PROVE  PlayInv'
<1> PICK n : n = req[r].round
  OBVIOUS
<1> PICK t : t = req[r].timer
  OBVIOUS
<1>1. /\ TypeOK /\ TypeOK' /\ PhaseShape /\ TimersOnTime
      /\ req[r].op = "results" /\ match.round \in Nat
      /\ t \in Timer \cup {NoTimer} /\ Turn(t) \in Int /\ Turn(t) <= 3 * n
  BY SlotFacts
  DEF PlayInv, EngineInv, ResultsCommit, RequestSound, HandlerOnTime
<1>2. Over \/ /\ match.status = "round_results" /\ match.round = n
              /\ match.version = req[r].version
  BY <1>1, SlotFacts DEF RequestSound, ResultsSound
<1>3. CASE Over
  <2>1. Goto(r, After(r, FALSE)) /\ Spent(Turn(t))
    BY <1>3 DEF ResultsCommit, StillPlayable, Spent, Over
  <2> QED
    BY <1>3, <2>1, QuitPlay DEF ResultsCommit, StillPlayable, Over, Rows
<1>4. CASE ~Over
  <2> PICK u : u = <<"pick", n + 1>>
    OBVIOUS
  <2> PICK y : y = Busy(r, "announce")
    OBVIOUS
  <2>1. /\ match.status = "round_results" /\ match.round = n
        /\ n \in Nat /\ n > 0 /\ n < 2 * HandSize
    BY <1>1, <1>2, <1>4 DEF PhaseShape
  <2>2. u \in Timer /\ Turn(u) = 3 * n + 1
    <3>1. n + 1 \in Round
      BY <2>1, MatchEngineAssumption DEF Round
    <3> QED
      BY <2>1, <3>1 DEF Timer, Turn
  <2>3. TurnAt(match) = 3 * n /\ Turn(PhaseTimer) = 3 * n
    BY <1>1, <2>1, PhaseTurn DEF TurnAt, Playing
  <2>4. timers[u].status = "none"
    <3>1. ~Started(Turn(u))
      BY <1>4, <2>1, <2>2, <2>3 DEF Started
    <3> QED
      BY <1>1, <2>2, <3>1 DEF TimersOnTime
  <2>5. /\ match' = [match EXCEPT !.status = "awaiting_pick", !.version = @ + 1]
        /\ timers' = Start(u, {}) /\ Goto(r, y)
        /\ UNCHANGED <<hands, active, rounds, scores, settled>>
    BY <1>2, <1>4, <2>4 DEF ResultsCommit, StillPlayable, Over
  <2>6. match'.status = "awaiting_pick" /\ match'.round = n
    BY <1>1, <2>1, <2>5 DEF TypeOK, MatchRow
  <2>7. /\ PhaseTimer' = u /\ TurnAt(match') = 3 * n + 1
        /\ Turn(PhaseTimer') = TurnAt(match')
    BY <1>1, <2>6, PhaseTurnNext DEF PhaseTimer, TurnAt, Playing
  <2>8. Forward
    BY <2>1, <2>3, <2>6, <2>7 DEF Forward, Playing
  <2>9. PhaseShape'
    BY <1>1, <2>1, <2>5, <2>6 DEF PhaseShape, BothScored, Over, Playing, Terminal
  <2>10. PicksCounted'
    BY <2>1, <2>5, <2>6 DEF PlayInv, PicksCounted
  <2>11. TimersOnTime'
    BY <1>1, <2>2, <2>5, <2>6, <2>7, <2>8, StartTimers DEF Playing
  <2>12. SettledByResolution'
    BY <1>4, <2>5, <2>6 DEF PlayInv, SettledByResolution
  <2>13. RowsForward /\ \A s \in Slot \ {r} : Undisturbed(req[s])
    <3>1. \A s \in Slot \ {r} : req[s].op # "results"
      BY <1>1 DEF PlayInv, HandsAndResultsLocked
    <3> QED
      BY <2>1, <2>5, <2>8, <3>1 DEF RowsForward, Undisturbed
  <2>14. y.op = "announce" /\ RequestSound(y)'
    <3>1. y.op = "announce" /\ y.timer = t
      BY DEF Busy, Idle
    <3>2. Turn(t) < Turn(PhaseTimer')
      BY <1>1, <2>1, <2>7
    <3>3. Spent(Turn(t))'
      BY <3>2 DEF Spent
    <3>4. Started(Turn(t))'
      BY <1>1, <2>9, <3>3, SpentStartedNext
    <3> QED
      BY <3>1, <3>3, <3>4
      DEF RequestSound, Issued, DiscardSound, SelectSound, ScoreSound,
          ResultsSound, HandlerOnTime, LockOp
  <2> QED
    BY <2>5, <2>9, <2>10, <2>11, <2>12, <2>13, <2>14, CommitPlay
<1> QED
  BY <1>3, <1>4

\* A resolution that does not decide the match leads to the results display.
LEMMA PlayOnPlay ==
    ASSUME PlayInv, EngineInv', NEW r \in Slot, NEW n, n = req[r].round,
           req[r].op = "resolve", match.status = "awaiting_scores",
           hands["red"].cards + hands["blue"].cards > 0,
           match' = [match EXCEPT !.status = "round_results",
                                  !.version = req[r].version + 1],
           timers' = Start(<<"round_results", n>>, {"score_submission"}),
           rounds' = [rounds EXCEPT ![n] = "ended"],
           Goto(r, After(r, TRUE)), UNCHANGED <<hands, active, scores, settled>>
    PROVE  PlayInv'
<1> PICK y : y = After(r, TRUE)
  OBVIOUS
<1> PICK t : t = req[r].timer
  OBVIOUS
<1> PICK u : u = <<"round_results", n>>
  OBVIOUS
<1>1. /\ TypeOK /\ TypeOK' /\ PhaseShape /\ n \in Round /\ n \in Nat /\ n > 0
      /\ rounds[n] = "open" /\ BothScored(n)
      /\ t \in Timer \cup {NoTimer} /\ Turn(t) \in Int /\ Turn(t) <= 3 * n - 1
  BY SlotFacts
  DEF PlayInv, EngineInv, RequestsNameRounds, ResolvingOpen, RequestSound,
      ScoreSound, HandlerOnTime, Round, LockOp
<1>2. /\ match.round = n /\ ~Over
      /\ match'.status = "round_results" /\ match'.round = n
  BY <1>1, OpenRound DEF TypeOK, MatchRow, Over, Terminal
<1>3. n < 2 * HandSize
  <2> DEFINE red == hands["red"].cards
             blue == hands["blue"].cards
  <2>1. red \in Nat /\ blue \in Nat
    BY <1>1 DEF TypeOK, HandRow, Player
  <2>2. red + blue + n = 2 * HandSize /\ red + blue > 0
    BY <1>2 DEF PlayInv, PicksCounted
  <2>3. HandSize \in Nat
    BY MatchEngineAssumption
  <2> HIDE DEF red, blue
  <2> QED
    BY <1>1, <2>1, <2>2, <2>3
<1>4. /\ TurnAt(match) = 3 * n - 1 /\ TurnAt(match') = 3 * n
      /\ Turn(PhaseTimer) = TurnAt(match) /\ Turn(PhaseTimer') = TurnAt(match')
      /\ PhaseTimer' = u /\ u \in Timer
  BY <1>1, <1>2, PhaseTurn, PhaseTurnNext DEF TurnAt, Playing, PhaseTimer, Timer
<1>5. Forward
  BY <1>1, <1>2, <1>4 DEF Forward, Playing
<1>6. \A k \in Round : rounds'[k] = IF k = n THEN "ended" ELSE rounds[k]
  BY <1>1 DEF TypeOK
<1>7. PhaseShape'
  <2>1. \A k \in Round : rounds'[k] # "open"
    BY <1>1, <1>2, <1>6 DEF PhaseShape
  <2>2. \A k \in Round : rounds'[k] = "ended" => BothScored(k)'
    BY <1>1, <1>6 DEF PhaseShape, BothScored
  <2>3. \A q \in Player : hands'[q].discarded /\ active'[q]
    BY <1>1, <1>2 DEF PhaseShape, Playing
  <2> QED
    BY <1>1, <1>2, <1>3, <2>1, <2>2, <2>3 DEF PhaseShape
<1>8. PicksCounted'
  BY <1>2 DEF PlayInv, PicksCounted
<1>9. TimersOnTime'
  BY <1>1, <1>2, <1>4, <1>5, StartTimers DEF Playing
<1>10. SettledByResolution'
  BY <1>2 DEF PlayInv, SettledByResolution
<1>11. RowsForward
  BY <1>5, <1>6 DEF RowsForward
<1>12. \A s \in Slot \ {r} : Undisturbed(req[s])
  BY <1>2, UndisturbedByPhase
<1>13. y.op \notin {"discard", "results"} /\ RequestSound(y)'
  <2>1. EndedBy(y, t)
    BY AfterEnds DEF EndedBy
  <2>2. Turn(t) < Turn(PhaseTimer')
    BY <1>1, <1>4
  <2>3. Spent(Turn(t))'
    BY <2>2 DEF Spent
  <2> QED
    BY <1>1, <1>7, <2>1, <2>3, EndedOp, EndedSoundNext
<1>14. Goto(r, y)
  OBVIOUS
<1> QED
  BY <1>7, <1>8, <1>9, <1>10, <1>11, <1>12, <1>13, <1>14, CommitPlay

\* A resolution that decides the match ends it, with no round left open.
LEMMA DecidedPlay ==
    ASSUME PlayInv, EngineInv', NEW r \in Slot, NEW n, n = req[r].round,
           req[r].op = "resolve", NEW v, NEW w, Settle(v, w),
           rounds' = [rounds EXCEPT ![n] = "ended"],
           Goto(r, After(r, TRUE)), UNCHANGED <<hands, scores>>
    PROVE  PlayInv'
<1> PICK y : y = After(r, TRUE)
  OBVIOUS
<1> PICK t : t = req[r].timer
  OBVIOUS
<1>1. /\ TypeOK /\ PhaseShape /\ n \in Round
      /\ rounds[n] = "open" /\ BothScored(n)
      /\ t \in Timer \cup {NoTimer} /\ EndedBy(y, t) /\ Goto(r, y)
  BY SlotFacts, AfterEnds
  DEF PlayInv, EngineInv, RequestsNameRounds, ResolvingOpen, RequestSound,
      ScoreSound, LockOp, EndedBy
<1>2. /\ match'.status = "completed" /\ match'.round = match.round
      /\ Over' /\ timers' = Cancelled(AllKinds) /\ settled' = settled + 1
      /\ "abort" \notin Enabled => match'.status # "aborted"
  BY <1>1, SettleEnds
<1>3. \A k \in Round : rounds'[k] = IF k = n THEN "ended" ELSE rounds[k]
  BY <1>1 DEF TypeOK
<1>4. SettledByResolution'
  <2> SUFFICES ASSUME "forfeit" \notin Enabled
               PROVE  settled' <= 1 /\ \A k \in Round : rounds'[k] # "open"
    BY <1>2 DEF SettledByResolution
  <2>1. settled = 0
    BY <1>1 DEF PlayInv, SettledByResolution, TypeOK
  <2>2. \A k \in Round : rounds'[k] # "open"
    <3>1. \A k \in Round : rounds[k] = "open" => k = match.round
      BY <1>1 DEF PhaseShape
    <3> QED
      BY <1>1, <1>3, <3>1
  <2> QED
    BY <1>2, <2>1, <2>2
<1>5. \A k \in Round : \/ rounds'[k] = rounds[k]
                       \/ rounds'[k] = "ended" /\ BothScored(k)
  BY <1>1, <1>3
<1> QED
  BY <1>1, <1>2, <1>4, <1>5, EndPlay

\* A resolution ends the round: the match goes on, or is settled.
LEMMA ResolveCommitPlay ==
    ASSUME PlayInv, EngineInv', NEW r \in Slot, ResolveCommit(r)
    PROVE  PlayInv'
<1> PICK n : n = req[r].round
  OBVIOUS
<1> DEFINE cards == hands["red"].cards + hands["blue"].cards
<1>1. /\ TypeOK /\ n \in Round /\ rounds[n] = "open" /\ req[r].op = "resolve"
      /\ match.status = "awaiting_scores" \/ Over
  BY OpenRound
  DEF PlayInv, EngineInv, RequestsNameRounds, ResolvingOpen, LockOp,
      ResolveCommit
<1>2. PICK h, o :
        /\ o = Outcome(h, cards)
        /\ \/ /\ o = "none" /\ ResolutionAccepted(o)
              /\ match' = [match EXCEPT !.status = "round_results",
                                        !.version = req[r].version + 1]
              /\ timers' = Start(<<"round_results", n>>, {"score_submission"})
              /\ rounds' = [rounds EXCEPT ![n] = "ended"]
              /\ Goto(r, After(r, TRUE))
              /\ UNCHANGED <<active, settled>>
           \/ /\ o # "none"
              /\ Settle(req[r].version, IF o = "draw" THEN Nobody ELSE o)
              /\ rounds' = [rounds EXCEPT ![n] = "ended"]
              /\ Goto(r, After(r, TRUE))
           \/ /\ ~ResolutionAccepted(o)
              /\ Goto(r, After(r, FALSE))
              /\ UNCHANGED <<match, timers, rounds, active, settled>>
  BY DEF ResolveCommit
<1>3. UNCHANGED <<hands, scores>>
  BY DEF ResolveCommit
<1> HIDE DEF cards
<1>4. CASE /\ o = "none" /\ ResolutionAccepted(o)
           /\ match' = [match EXCEPT !.status = "round_results",
                                     !.version = req[r].version + 1]
           /\ timers' = Start(<<"round_results", n>>, {"score_submission"})
           /\ rounds' = [rounds EXCEPT ![n] = "ended"]
           /\ Goto(r, After(r, TRUE))
           /\ UNCHANGED <<active, settled>>
  <2>1. match.status = "awaiting_scores"
    BY <1>1, <1>4 DEF ResolutionAccepted, StillPlayable, Over
  <2>2. hands["red"].cards + hands["blue"].cards > 0
    <3>1. cards > 0
      BY <1>2, <1>4 DEF Outcome
    <3> QED
      BY <3>1 DEF cards
  <2> QED
    BY <1>1, <1>3, <1>4, <2>1, <2>2, PlayOnPlay
<1>5. CASE /\ Settle(req[r].version, IF o = "draw" THEN Nobody ELSE o)
           /\ rounds' = [rounds EXCEPT ![n] = "ended"]
           /\ Goto(r, After(r, TRUE))
  <2>1. PICK v, w : Settle(v, w)
    BY <1>5
  <2> QED
    BY <1>1, <1>3, <1>5, <2>1, DecidedPlay
<1>6. CASE /\ ~ResolutionAccepted(o)
           /\ Goto(r, After(r, FALSE))
           /\ UNCHANGED <<match, timers, rounds, active, settled>>
  <2>1. Over
    BY <1>6, NothingPaused DEF ResolutionAccepted, StillPlayable, Over
  <2> QED
    BY <1>3, <1>6, <2>1, QuitPlay DEF Spent, Rows
<1> QED
  BY <1>2, <1>4, <1>5, <1>6

-----------------------------------------------------------------------------
(* The invariant holds at the start and is kept by every step.             *)

\* A new match satisfies the invariant.
LEMMA InitPlay == ASSUME Init PROVE PlayInv
<1> USE DEF Init
<1>1. EngineInv /\ TypeOK
  BY InitInv DEF EngineInv
<1>2. /\ match.status = "awaiting_discards" /\ match.round = 0
      /\ match.winner = Nobody
      /\ \A p \in Player : /\ ~hands[p].discarded /\ active[p]
                           /\ hands[p].cards = HandSize
      /\ \A n \in Round : rounds[n] = "none"
      /\ settled = 0
  OBVIOUS
<1>3. PhaseShape
  BY <1>2 DEF PhaseShape, Playing, Player
<1>4. PicksCounted
  <2>1. hands["red"].cards = HandSize /\ hands["blue"].cards = HandSize
    BY <1>2 DEF Player
  <2>2. Picker(match.round + 1) = "red"
    BY <1>2 DEF Picker
  <2> QED
    BY <1>2, <2>1, <2>2, MatchEngineAssumption DEF PicksCounted
<1>5. TimersOnTime
  <2>1. \A t \in Timer :
          timers[t].status = IF t = <<"discard", 0>> THEN "scheduled" ELSE "none"
    BY DEF Row
  <2>2. PhaseTimer = <<"discard", 0>> /\ <<"discard", 0>> \in Timer
    BY <1>2 DEF PhaseTimer, Timer
  <2>3. Started(Turn(<<"discard", 0>>))
    BY <2>2, TurnType DEF Started
  <2> QED
    BY <2>1, <2>2, <2>3 DEF TimersOnTime
<1>6. SettledByResolution
  BY <1>2 DEF SettledByResolution
<1>7. \A r \in Slot : req[r] = Idle
  OBVIOUS
<1>8. RequestSound(Idle) /\ Idle.op = "idle"
  BY <1>1, <1>3, IdleSound DEF Idle
<1>9. HandsAndResultsLocked
  BY <1>7, <1>8 DEF HandsAndResultsLocked
<1> QED
  BY <1>1, <1>3, <1>4, <1>5, <1>6, <1>7, <1>8, <1>9 DEF PlayInv

\* The steps of a pause are never taken.
LEMMA NoPauseSteps ==
    ASSUME "pause" \notin Enabled, PlayInv, NEW r \in Slot
    PROVE  /\ ~PauseBegin(r) /\ ~PauseMark(r) /\ ~PauseTransition(r)
           /\ ~PauseTimers(r) /\ ~ResumeBegin(r) /\ ~ResumeTransition(r)
           /\ ~ResumeClear(r) /\ ~ResumeTimers(r)
           /\ \A t \in Timer : ~SkipTimer(t)
<1>1. /\ PhaseShape /\ TimersOnTime
      /\ req[r].op \notin {"pause_mark", "pause_tx", "pause_timers",
                           "resume_tx", "resume_clear", "resume_timers"}
  BY SlotFacts DEF RequestSound, Issued
<1>2. ~PauseBegin(r) /\ ~ResumeBegin(r) /\ \A t \in Timer : ~SkipTimer(t)
  BY <1>1 DEF PauseBegin, ResumeBegin, SkipTimer, PhaseShape, TimersOnTime
<1> QED
  BY <1>1, <1>2 DEF PauseMark, PauseTransition, PauseTimers, ResumeTransition,
                    ResumeClear, ResumeTimers

\* A stuttering step keeps it, ...
LEMMA StutterPlay ==
    ASSUME PlayInv, EngineInv', UNCHANGED vars
    PROVE  PlayInv'
<1> USE DEF vars
<1>1. PhaseShape' /\ PicksCounted' /\ SettledByResolution'
  BY DEF PlayInv, PhaseShape, BothScored, Over, PicksCounted,
         SettledByResolution
<1>2. TimersOnTime'
  BY DEF PlayInv, TimersOnTime, Started, PhaseTimer, Over
<1>3. (\A r \in Slot : RequestSound(req[r]))'
  <2> SUFFICES ASSUME NEW r \in Slot PROVE RequestSound(req[r])'
    OBVIOUS
  <2>1. RequestSound(req[r])
    BY DEF PlayInv
  <2> PICK x : x = req[r]
    OBVIOUS
  <2>2. RowsForward /\ Undisturbed(x)
    BY DEF RowsForward, Forward, Undisturbed
  <2>3. TypeOK /\ TypeOK' /\ x \in Request
        /\ (x.op \in Critical => x.round \in Round)
    BY DEF PlayInv, EngineInv, TypeOK, RequestsNameRounds, Critical
  <2>4. RequestSound(x)'
    BY <2>1, <2>2, <2>3, UndisturbedSound
  <2> QED
    BY <2>4 DEF RequestSound, Issued, DiscardSound, SelectSound, ScoreSound,
                ResultsSound, HandlerOnTime
<1>4. HandsAndResultsLocked'
  BY DEF PlayInv, HandsAndResultsLocked
<1> QED
  BY <1>1, <1>2, <1>3, <1>4 DEF PlayInv

\* ... and so does every step that no pause takes part in.
LEMMA StepPlay ==
    ASSUME "pause" \notin Enabled, PlayInv, [Next]_vars
    PROVE  PlayInv'
<1>0. EngineInv'
  BY StepInv DEF PlayInv
<1>1. ASSUME NEW r \in Slot, NEW p \in Player,
             \/ DiscardBegin(r, p) \/ SelectBegin(r, p)
             \/ \E n \in Round : SubmitBegin(r, p, n)
             \/ ForfeitBegin(r, p)
      PROVE  PlayInv'
  BY <1>0, <1>1, DiscardBeginPlay, SelectBeginPlay, SubmitBeginPlay,
     ForfeitBeginPlay
<1>2. ASSUME NEW r \in Slot, AbortBegin(r) \/ PauseBegin(r) \/ ResumeBegin(r)
      PROVE  PlayInv'
  BY <1>0, <1>2, AbortBeginPlay, NoPauseSteps
<1>3. ASSUME NEW r \in Slot, Proceed(r)
      PROVE  PlayInv'
  BY <1>0, <1>3, NoPauseSteps, DiscardCommitPlay, SelectCommitPlay,
     SubmitCommitPlay, ResolveBeginPlay, ResolveCommitPlay, ForfeitCommitPlay,
     TransitionCommitPlay DEF Proceed
<1>4. ASSUME NEW w \in Workers, Tick(w)
      PROVE  PlayInv'
  <2> USE DEF Slot
  <2>1. CASE \E t \in Timer : ClaimTimer(w, t)
    BY <1>0, <2>1, ClaimTimerPlay
  <2>2. CASE \E p \in Player : DiscardHandlerNext(w, p)
    BY <1>0, <2>2, DiscardHandlerNextPlay
  <2>3. CASE DiscardHandler(w) \/ DiscardHandlerEnd(w) \/ PickHandler(w)
             \/ AutoPick(w) \/ ScoreHandler(w) \/ ExpireCommit(w)
    BY <1>0, <2>3, DiscardHandlerPlay, DiscardHandlerEndPlay, PickHandlerPlay,
       AutoPickPlay, ScoreHandlerPlay, ExpireCommitPlay
  <2>4. CASE ResultsHandler(w) \/ ResultsCommit(w) \/ Announce(w)
             \/ CompleteTimer(w) \/ RetryTimer(w)
    BY <1>0, <2>4, ResultsHandlerPlay, ResultsCommitPlay, AnnouncePlay,
       CompleteTimerPlay, RetryTimerPlay
  <2> QED
    BY <1>4, <2>1, <2>2, <2>3, <2>4 DEF Tick
<1>5. ASSUME NEW t \in Timer, SkipTimer(t)
      PROVE  PlayInv'
  BY <1>5 DEF SkipTimer, PlayInv, TimersOnTime
<1>6. ASSUME NEW r \in Slot, Crash(r)
      PROVE  PlayInv'
  BY <1>0, <1>6, CrashPlay
<1>7. CASE UNCHANGED vars
  BY <1>0, <1>7, StutterPlay
<1> QED
  BY <1>1, <1>2, <1>3, <1>4, <1>5, <1>6, <1>7 DEF Next, Arrive, Slot

\* Where no match is paused, PlayInv holds in every reachable state, whoever
\* forfeits or aborts, however the instances crash and take timers over.
THEOREM PlayInvariance ==
    ASSUME "pause" \notin Enabled
    PROVE  Spec => []PlayInv
<1>1. PlayInv /\ [Next]_vars => PlayInv'
  BY StepPlay
<1> QED
  BY <1>1, InitPlay, PTL DEF Spec

-----------------------------------------------------------------------------
(* What follows from the invariant.                                        *)

\* Without pauses, rounds are played one after another: each has ended before
\* the next is picked, whoever picks, and none is started ahead.
THEOREM PlayedInOrder ==
    ASSUME "pause" \notin Enabled
    PROVE  Spec => []RoundsContiguous
<1>1. PlayInv => RoundsContiguous
  <2> SUFFICES ASSUME PlayInv, NEW n \in Round
               PROVE  /\ n < match.round => rounds[n] = "ended"
                      /\ n = match.round => rounds[n] # "none"
                      /\ n > match.round => rounds[n] = "none"
    BY DEF RoundsContiguous
  <2>1. /\ n \in Nat /\ match.round \in Nat
        /\ rounds[n] \in {"none", "open", "ended"}
        /\ rounds[n] # "none" <=> n <= match.round
    BY DEF PlayInv, EngineInv, TypeOK, MatchRow, Round, RoundsNumbered
  <2>2. rounds[n] = "open" => n = match.round
    BY DEF PlayInv, PhaseShape
  <2> QED
    BY <2>1, <2>2
<1> QED
  BY <1>1, PlayInvariance, PTL

\* Without pauses, the pick timer always finds a card to play: a match waits for
\* a pick only while rounds are left and the player whose turn it is holds one.
THEOREM PickerAlwaysHasCard ==
    ASSUME "pause" \notin Enabled
    PROVE  Spec => []PickerHasCard
<1>1. PlayInv => PickerHasCard
  BY PickerCard DEF PickerHasCard
<1> QED
  BY <1>1, PlayInvariance, PTL

\* Without pauses, and if the database runs the two discards of a match one after
\* the other, the phase a match is in always has a timer that is still to run:
\* take-overs, retries and late completions by another instance lose none.
THEOREM DeadlinesKept ==
    ASSUME "pause" \notin Enabled, ~DiscardsOverlap
    PROVE  Spec => []PhaseHasTimer
<1>1. PlayInv => PhaseHasTimer
  BY DEF PlayInv, TimersOnTime, PhaseHasTimer
<1> QED
  BY <1>1, PlayInvariance, PTL

\* Under the same assumptions the discard deadline works: once its timer is
\* completed, the match has left the discard phase.
THEOREM DiscardDeadlineWorks ==
    ASSUME "pause" \notin Enabled, ~DiscardsOverlap
    PROVE  Spec => []DiscardDeadlineEndsPhase
<1>1. PlayInv => DiscardDeadlineEndsPhase
  BY DEF PlayInv, TimersOnTime, DiscardDeadlineEndsPhase, PhaseTimer, Playing
<1> QED
  BY <1>1, PlayInvariance, PTL

\* Without pauses and forfeits, a match enters the statistics at most once: only
\* the resolution of its last round writes them.
THEOREM StatisticsWrittenOnce ==
    ASSUME "pause" \notin Enabled, "forfeit" \notin Enabled
    PROVE  Spec => []SettledOnce
<1>1. PlayInv => SettledOnce
  BY DEF PlayInv, SettledByResolution, SettledOnce
<1> QED
  BY <1>1, PlayInvariance, PTL

\* Only a settlement writes the row of a match that has ended.
LEMMA EndedStays ==
    ASSUME "pause" \notin Enabled, "abort" \notin Enabled, PlayInv,
           match.status \in Terminal, [Next]_vars
    PROVE  match'.status = match.status
<1>1. match.status = "completed" /\ ~StillPlayable
  BY DEF PlayInv, PhaseShape, Terminal, StillPlayable
<1>2. ASSUME NEW v, NEW w, Settle(v, w)
      PROVE  match'.status = "completed"
  BY <1>2 DEF Settle, PlayInv, EngineInv, TypeOK, MatchRow
<1>3. ASSUME NEW r \in Slot, Proceed(r)
      PROVE  match'.status = match.status
  <2>1. CASE DiscardCommit(r) \/ SelectCommit(r)
    BY <1>1, <2>1 DEF DiscardCommit, SelectCommit
  <2>2. CASE SubmitCommit(r) \/ ResolveBegin(r)
    BY <2>2 DEF SubmitCommit, ResolveBegin
  <2>3. CASE ResolveCommit(r)
    <3>1. match' = match \/ StillPlayable \/ \E v, w : Settle(v, w)
      BY <2>3 DEF ResolveCommit, ResolutionAccepted
    <3> QED
      BY <1>1, <1>2, <3>1
  <2>4. CASE ForfeitCommit(r)
    BY <1>1, <1>2, <2>4 DEF ForfeitCommit
  <2>5. ~TransitionCommit(r)
    BY SlotFacts DEF TransitionCommit, RequestSound, Issued
  <2> QED
    BY <1>3, <2>1, <2>2, <2>3, <2>4, <2>5, NoPauseSteps DEF Proceed
<1>4. ASSUME NEW r \in Clients, Arrive(r)
      PROVE  match' = match
  BY <1>4 DEF Arrive, DiscardBegin, SelectBegin, SubmitBegin, ForfeitBegin,
              AbortBegin, PauseBegin, ResumeBegin
<1>5. ASSUME NEW w \in Workers, Tick(w)
      PROVE  match' = match
  BY <1>1, <1>5
  DEF Tick, ClaimTimer, DiscardHandler, DiscardHandlerNext, DiscardHandlerEnd,
      PickHandler, AutoPick, ScoreHandler, ExpireCommit, ResultsHandler,
      ResultsCommit, Announce, CompleteTimer, RetryTimer
<1>6. ASSUME NEW t \in Timer, SkipTimer(t)
      PROVE  match' = match
  BY <1>6 DEF SkipTimer
<1>7. ASSUME NEW r \in Slot, Crash(r)
      PROVE  match' = match
  BY <1>7 DEF Crash
<1>8. CASE UNCHANGED vars
  BY <1>8 DEF vars
<1> QED
  BY <1>3, <1>4, <1>5, <1>6, <1>7, <1>8 DEF Next

\* Without pauses and aborts a match that has ended, drawn ones too, stays ended:
\* a late discard, pick, results display or resolution that read it before the
\* forfeit or the knock-out either fails or settles it once more.
THEOREM EndIsFinal ==
    ASSUME "pause" \notin Enabled, "abort" \notin Enabled
    PROVE  Spec => NeverReopened
<1>1. PlayInv /\ [Next]_vars
        => [match.status \in Terminal => match'.status = match.status]_vars
  BY EndedStays
<1> QED
  BY <1>1, PlayInvariance, PTL DEF Spec, NeverReopened

\* A request that is to commit a forfeit is moved on by that commit alone: the
\* other steps are of other slots, or of requests that are elsewhere (code: a
\* handler runs its own transaction and no other's).
LEMMA ForfeitMoves ==
    ASSUME TypeOK, MaxCrashes = 0, [Next]_vars,
           NEW c \in Clients, req[c].op = "forfeit", req'[c].op # "forfeit"
    PROVE  ForfeitCommit(c)
<1>1. req \in [Slot -> Request] /\ c \in Slot
  BY DEF TypeOK, Slot
<1>2. ASSUME NEW r \in Clients, Arrive(r) PROVE FALSE
  <2>1. ASSUME NEW p \in Player, NEW n \in Round,
               \/ DiscardBegin(r, p) \/ SelectBegin(r, p)
               \/ SubmitBegin(r, p, n) \/ ForfeitBegin(r, p)
        PROVE  FALSE
    <3>1. req[r].op = "idle"
      BY <2>1 DEF DiscardBegin, SelectBegin, SubmitBegin, ForfeitBegin
    <3>2. r = c
      BY <1>1, <2>1
      DEF DiscardBegin, SelectBegin, SubmitBegin, ForfeitBegin, Goto
    <3> QED
      BY <3>1, <3>2
  <2>2. CASE AbortBegin(r) \/ PauseBegin(r) \/ ResumeBegin(r)
    <3>1. req[r].op = "idle"
      BY <2>2 DEF AbortBegin, PauseBegin, ResumeBegin
    <3>2. r = c
      BY <1>1, <2>2 DEF AbortBegin, PauseBegin, ResumeBegin, Goto
    <3> QED
      BY <3>1, <3>2
  <2>3. Round # {}
    BY MatchEngineAssumption DEF Round
  <2> QED
    BY <1>2, <2>1, <2>2, <2>3 DEF Arrive
<1>3. ASSUME NEW r \in Slot, Proceed(r) PROVE ForfeitCommit(c)
  <2>1. CASE ForfeitCommit(r)
    BY <1>1, <2>1 DEF ForfeitCommit, Goto
  <2>2. CASE ~ForfeitCommit(r)
    <3>1. req[r].op # "forfeit"
      BY <1>3, <2>2
      DEF Proceed, DiscardCommit, SelectCommit, SubmitCommit, ResolveBegin,
          ResolveCommit, TransitionCommit, PauseMark, PauseTransition,
          PauseTimers, ResumeTransition, ResumeClear, ResumeTimers
    <3>2. r = c
      BY <1>1, <1>3, <2>2
      DEF Proceed, DiscardCommit, SelectCommit, SubmitCommit, ResolveBegin,
          ResolveCommit, TransitionCommit, PauseMark, PauseTransition,
          PauseTimers, ResumeTransition, ResumeClear, ResumeTimers, Goto
    <3> QED
      BY <3>1, <3>2
  <2> QED
    BY <2>1, <2>2
<1>4. ASSUME NEW w \in Workers, Tick(w) PROVE FALSE
  <2>1. w # c
    BY MatchEngineAssumption
  <2>2. ASSUME NEW t \in Timer, NEW p \in Player,
               ClaimTimer(w, t) \/ DiscardHandlerNext(w, p)
        PROVE  FALSE
    <3>1. req'[c] = req[c]
      BY <1>1, <2>1, <2>2 DEF ClaimTimer, DiscardHandlerNext, Goto
    <3> QED
      BY <3>1
  <2>3. CASE DiscardHandler(w) \/ DiscardHandlerEnd(w) \/ PickHandler(w)
    BY <1>1, <2>1, <2>3 DEF DiscardHandler, DiscardHandlerEnd, PickHandler, Goto
  <2>5. CASE AutoPick(w) \/ ScoreHandler(w)
    BY <1>1, <2>1, <2>5 DEF AutoPick, ScoreHandler, Goto
  <2>6. Timer # {} /\ Player # {}
    BY DEF Timer, Player
  <2>4. CASE \/ ExpireCommit(w) \/ ResultsHandler(w) \/ ResultsCommit(w)
             \/ Announce(w) \/ CompleteTimer(w) \/ RetryTimer(w)
    BY <1>1, <2>1, <2>4
    DEF ExpireCommit, ResultsHandler, ResultsCommit, Announce, CompleteTimer,
        RetryTimer, Goto
  <2> QED
    BY <1>4, <2>2, <2>3, <2>4, <2>5, <2>6 DEF Tick
<1>5. ASSUME NEW t \in Timer, SkipTimer(t) PROVE FALSE
  BY <1>5 DEF SkipTimer
<1>6. ASSUME NEW r \in Slot, Crash(r) PROVE FALSE
  BY <1>6 DEF Crash, TypeOK
<1>7. CASE UNCHANGED vars
  BY <1>7 DEF vars
<1> QED
  BY <1>2, <1>3, <1>4, <1>5, <1>6, <1>7 DEF Next

\* Without pauses, and unless the process dies on the way, a forfeit that found
\* the match unfinished completes it: it meets no paused timer, so its
\* transaction is never undone (code: forfeitMatch; paused_forfeit shows what a
\* pause does to it).
THEOREM ForfeitsComplete ==
    ASSUME "pause" \notin Enabled, MaxCrashes = 0
    PROVE  Spec => ForfeitCompletes
<1>1. ASSUME PlayInv, [Next]_vars, NEW c \in Clients,
             req[c].op = "forfeit", req'[c].op # "forfeit"
      PROVE  match'.status = "completed"
  <2>1. TypeOK
    BY <1>1 DEF PlayInv, EngineInv
  <2>2. ForfeitCommit(c)
    BY <1>1, <2>1, ForfeitMoves
  <2>3. PICK v, w : Settle(v, w)
    BY <1>1, <2>2, NothingPaused DEF ForfeitCommit
  <2> QED
    BY <2>1, <2>3 DEF Settle, TypeOK, MatchRow
<1>2. PlayInv /\ [Next]_vars
        => [\A r \in Clients :
              req[r].op = "forfeit" /\ req'[r].op # "forfeit"
                  => match'.status = "completed"]_vars
  BY <1>1
<1> QED
  BY <1>2, PlayInvariance, PTL DEF Spec, ForfeitCompletes

-----------------------------------------------------------------------------
(* The refinement. Only five commits are steps of MatchLifecycle; all else *)
(* leaves alone what the players see of the match.                         *)

Cards == [p \in Player |-> hands[p].cards]
Seen == <<match.status, match.round, health, Cards, match.winner>>

\* Both hands together hold an even number of cards.
LEMMA Half == ASSUME NEW n \in Nat PROVE (2 * n) \div 2 = n
OBVIOUS

\* A new match is one of MatchLifecycle.
LEMMA InitRefines == ASSUME Init PROVE Lifecycle!Init
<1>1. \A p \in Player : Cards[p] = HandSize
  BY DEF Init, Cards
<1>2. Cards = [p \in Player |-> (2 * HandSize) \div 2]
  BY <1>1, Half, MatchEngineAssumption DEF Cards
<1> QED
  BY <1>2 DEF Init, Lifecycle!Init, Cards

\* A step that leaves these alone is a stutter of MatchLifecycle.
LEMMA Unseen ==
    ASSUME match'.status = match.status, match'.round = match.round,
           match'.winner = match.winner, health' = health,
           \A p \in Player : hands'[p].cards = hands[p].cards
    PROVE  UNCHANGED Seen
<1>1. Cards' = Cards
  BY DEF Cards
<1> QED
  BY <1>1 DEF Seen

\* The second discard ends the discards.
LEMMA DiscardRefines ==
    ASSUME PlayInv, NEW r \in Slot, DiscardCommit(r)
    PROVE  Lifecycle!FinishDiscards \/ UNCHANGED Seen
<1>1. TypeOK /\ health' = health
  BY DEF PlayInv, EngineInv, DiscardCommit
<1>2. \A p \in Player : hands'[p].cards = hands[p].cards
  <2>1. CASE hands' = [hands EXCEPT ![req[r].user].discarded = TRUE]
    BY <2>1, DiscardedHand DEF DiscardCommit
  <2>2. CASE hands' = hands
    BY <2>2
  <2> QED
    BY <2>1, <2>2 DEF DiscardCommit
<1>3. Cards' = Cards
  BY <1>2 DEF Cards
<1>4. CASE match' = match
  BY <1>1, <1>2, <1>4, Unseen
<1>5. CASE match' # match
  <2>1. /\ StillPlayable /\ req[r].op = "discard"
        /\ match' = [match EXCEPT !.status = "awaiting_pick",
                                  !.version = req[r].version + 1]
    BY <1>5 DEF DiscardCommit
  <2>2. match.status = "awaiting_discards"
    BY <2>1, SlotFacts
    DEF RequestSound, DiscardSound, PhaseShape, StillPlayable, TypeOK, MatchRow,
        Status, Playing
  <2>3. /\ match'.status = "awaiting_pick" /\ match'.round = match.round
        /\ match'.winner = match.winner
    BY <1>1, <2>1 DEF TypeOK, MatchRow
  <2> QED
    BY <1>1, <1>3, <2>2, <2>3 DEF Lifecycle!FinishDiscards, Cards
<1> QED
  BY <1>4, <1>5

\* A pick that commits is the pick of the player whose turn it is.
LEMMA SelectRefines ==
    ASSUME PlayInv, NEW r \in Slot, SelectCommit(r)
    PROVE  Lifecycle!Pick \/ UNCHANGED Seen
<1> PICK p : p = req[r].user
  OBVIOUS
<1> PICK n : n = req[r].round
  OBVIOUS
<1>1. /\ TypeOK /\ req[r].op = "select" /\ p \in Player /\ match.round \in Nat
      /\ health' = health
  BY SlotFacts DEF SelectCommit
<1>2. CASE RoundIsNew(n) /\ StillPlayable /\ Cancellable({"pick"})
  <2>1. /\ hands' = [hands EXCEPT ![p].cards = @ - 1]
        /\ match' = [match EXCEPT !.status = "awaiting_scores",
                                  !.round = n,
                                  !.version = req[r].version + 1]
    BY <1>2 DEF SelectCommit
  <2>2. /\ match.status = "awaiting_pick" /\ n = match.round + 1
        /\ p = Picker(n) /\ hands[p].cards > 0
    BY <1>1, <1>2, NextRound
  <2>3. /\ match'.status = "awaiting_scores" /\ match'.round = match.round + 1
        /\ match'.winner = match.winner
    BY <1>1, <2>1, <2>2 DEF TypeOK, MatchRow
  <2>4. Cards[p] > 0 /\ Cards' = [Cards EXCEPT ![p] = @ - 1]
    BY <1>1, <2>1, <2>2 DEF Cards, TypeOK, HandRow
  <2>5. (p = "red") = (match.round % 2 = 0)
    BY <1>1, <2>2 DEF Picker
  <2> QED
    BY <1>1, <2>2, <2>3, <2>4, <2>5 DEF Lifecycle!Pick, Cards
<1>3. CASE ~(RoundIsNew(n) /\ StillPlayable /\ Cancellable({"pick"}))
  BY <1>1, <1>3, Unseen DEF SelectCommit
<1> QED
  BY <1>2, <1>3

\* The end of a results display shows the next pick.
LEMMA ResultsRefines ==
    ASSUME PlayInv, NEW r \in Slot, ResultsCommit(r)
    PROVE  Lifecycle!ShowNextPick \/ UNCHANGED Seen
<1>1. /\ TypeOK /\ health' = health /\ hands' = hands
      /\ req[r].op = "results"
  BY DEF PlayInv, EngineInv, ResultsCommit
<1>2. CASE match' = match
  BY <1>1, <1>2, Unseen
<1>3. CASE match' # match
  <2>1. /\ StillPlayable
        /\ match' = [match EXCEPT !.status = "awaiting_pick", !.version = @ + 1]
    BY <1>3 DEF ResultsCommit
  <2>2. match.status = "round_results"
    BY <1>1, <2>1, SlotFacts DEF RequestSound, ResultsSound, StillPlayable, Over
  <2>3. /\ match'.status = "awaiting_pick" /\ match'.round = match.round
        /\ match'.winner = match.winner
    BY <1>1, <2>1 DEF TypeOK, MatchRow
  <2> QED
    BY <1>1, <2>2, <2>3 DEF Lifecycle!ShowNextPick, Cards
<1> QED
  BY <1>2, <1>3

\* A resolution hurts at most one player and heals nobody.
LEMMA DamageHurts ==
    ASSUME TypeOK, NEW n, NEW d \in Damages(n), NEW h,
           h = [p \in Player |-> Remaining(health[p], d[p])]
    PROVE  /\ \A p \in Player : h[p] \in 0 .. health[p]
           /\ h \in [Player -> 0 .. StartHealth]
           /\ \E p \in Player : h[p] = health[p]
<1>1. \A p \in Player : d[p] \in Nat /\ health[p] \in Nat
                            /\ health[p] \in 0 .. StartHealth
  BY MatchEngineAssumption DEF TypeOK, Damages
<1>2. PICK w \in Player : d[w] = 0
  BY DEF Damages
<1>3. \A p \in Player : h[p] \in 0 .. health[p] /\ h[p] \in 0 .. StartHealth
  BY <1>1, MatchEngineAssumption DEF Remaining
<1>4. h[w] = health[w]
  BY <1>1, <1>2 DEF Remaining
<1> QED
  BY <1>3, <1>4

\* The outcome is the healthier player, when the cards or one's health are gone.
LEMMA OutcomeOf ==
    ASSUME NEW h \in [Player -> Nat], NEW cards, NEW o, o = Outcome(h, cards)
    PROVE  /\ o = "none" => cards > 0 /\ \A p \in Player : h[p] # 0
           /\ o # "none" /\ cards > 0 => \E p \in Player : h[p] = 0
           /\ o \in {"none", "draw"} \cup Player
           /\ \A p, q \in Player : o # "none" /\ h[p] > h[q] => o = p
           /\ o # "none" /\ (\A p, q \in Player : h[p] = h[q]) => o = "draw"
<1>1. h["red"] \in Nat /\ h["blue"] \in Nat
  BY DEF Player
<1> QED
  BY <1>1 DEF Outcome, Player

\* The round that is resolved is the match's current one, and the match is
\* waiting for its scores.
LEMMA ResolvedRound ==
    ASSUME Enabled = {}, PlayInv, NEW r \in Slot, req[r].op = "resolve"
    PROVE  match.status = "awaiting_scores"
<1> PICK n : n = req[r].round
  OBVIOUS
<1>1. n \in Round /\ rounds[n] = "open"
  BY DEF PlayInv, EngineInv, RequestsNameRounds, ResolvingOpen, LockOp
<1>2. match.status = "awaiting_scores" \/ Over
  BY <1>1, OpenRound
<1>3. match.status # "aborted" /\ match.status # "completed"
  BY <1>1 DEF PlayInv, PhaseShape, SettledByResolution
<1> QED
  BY <1>2, <1>3 DEF Over, Terminal

\* A resolution plays on or finishes the match, with the abstract damage.
LEMMA ResolveRefines ==
    ASSUME Enabled = {}, PlayInv, NEW r \in Slot, ResolveCommit(r)
    PROVE  Lifecycle!PlayOn \/ Lifecycle!Finish \/ UNCHANGED Seen
<1> PICK n : n = req[r].round
  OBVIOUS
<1> DEFINE cards == hands["red"].cards + hands["blue"].cards
<1>1. /\ TypeOK /\ hands' = hands /\ req[r].op = "resolve"
      /\ match.status = "awaiting_scores"
      /\ match.round \in Nat
  BY ResolvedRound, SlotFacts DEF ResolveCommit
<1>2. PICK d \in Damages(n) : \E h, o :
        /\ h = [p \in Player |-> Remaining(health[p], d[p])]
        /\ o = Outcome(h, cards)
        /\ \/ /\ o = "none" /\ health' = h
              /\ match' = [match EXCEPT !.status = "round_results",
                                        !.version = req[r].version + 1]
           \/ /\ o # "none" /\ health' = h
              /\ Settle(req[r].version, IF o = "draw" THEN Nobody ELSE o)
           \/ UNCHANGED <<match, health>>
  BY DEF ResolveCommit
<1> PICK h, o :
        /\ h = [p \in Player |-> Remaining(health[p], d[p])]
        /\ o = Outcome(h, cards)
        /\ \/ /\ o = "none" /\ health' = h
              /\ match' = [match EXCEPT !.status = "round_results",
                                        !.version = req[r].version + 1]
           \/ /\ o # "none" /\ health' = h
              /\ Settle(req[r].version, IF o = "draw" THEN Nobody ELSE o)
           \/ UNCHANGED <<match, health>>
  BY <1>2
<1>3. /\ \A p \in Player : h[p] \in 0 .. health[p]
      /\ h \in [Player -> 0 .. StartHealth]
      /\ \E p \in Player : h[p] = health[p]
  BY <1>1, <1>2, DamageHurts
<1>4. h \in [Player -> Nat]
  BY <1>3, MatchEngineAssumption
<1>5. cards \in Nat /\ cards + match.round = 2 * HandSize
  BY <1>1, SlotFacts, MatchEngineAssumption
  DEF TypeOK, HandRow, PicksCounted, Player
<1> HIDE DEF cards
<1>6. CASE /\ o = "none" /\ health' = h
           /\ match' = [match EXCEPT !.status = "round_results",
                                     !.version = req[r].version + 1]
  <2>1. cards > 0 /\ \A p \in Player : h[p] # 0
    BY <1>2, <1>4, <1>6, OutcomeOf
  <2>2. h \in [Player -> 1 .. StartHealth]
    BY <1>3, <2>1, MatchEngineAssumption
  <2>3. match.round < 2 * HandSize
    BY <1>1, <1>5, <2>1, MatchEngineAssumption
  <2>4. /\ match'.status = "round_results" /\ match'.round = match.round
        /\ match'.winner = match.winner
    BY <1>1, <1>6 DEF TypeOK, MatchRow
  <2> QED
    BY <1>1, <1>3, <1>6, <2>2, <2>3, <2>4
    DEF Lifecycle!PlayOn, Lifecycle!Hurt, Cards
<1>7. CASE /\ o # "none" /\ health' = h
           /\ Settle(req[r].version, IF o = "draw" THEN Nobody ELSE o)
  <2> PICK w : w = IF o = "draw" THEN Nobody ELSE o
    OBVIOUS
  <2>1. /\ match'.status = "completed" /\ match'.round = match.round
        /\ match'.winner = w
    BY <1>1, <1>7 DEF Settle, TypeOK, MatchRow
  <2>2. /\ cards > 0 => \E p \in Player : h[p] = 0
        /\ o \in {"draw"} \cup Player
        /\ \A p, q \in Player : h[p] > h[q] => o = p
        /\ (\A p, q \in Player : h[p] = h[q]) => o = "draw"
    BY <1>2, <1>4, <1>7, OutcomeOf
  <2>3. "draw" \notin Player
    BY DEF Player
  <2>4. /\ w \in Player \cup {Nobody}
        /\ \A p, q \in Player : h[p] > h[q] => w = p
        /\ (\A p, q \in Player : h[p] = h[q]) => w = Nobody
    BY <2>2, <2>3
  <2>5. match.round = 2 * HandSize \/ \E p \in Player : h[p] = 0
    BY <1>1, <1>5, <2>2, MatchEngineAssumption
  <2> QED
    BY <1>1, <1>3, <1>7, <2>1, <2>4, <2>5
    DEF Lifecycle!Finish, Lifecycle!Hurt, Cards
<1>8. CASE UNCHANGED <<match, health>>
  BY <1>1, <1>8, Unseen
<1> QED
  BY <1>2, <1>6, <1>7, <1>8

\* Every step is one of MatchLifecycle or a stutter.
LEMMA StepRefines ==
    ASSUME Enabled = {}, PlayInv, [Next]_vars
    PROVE  [Lifecycle!Next]_Seen
<1>1. ASSUME UNCHANGED <<match, hands, health>>
      PROVE  UNCHANGED Seen
  BY <1>1, Unseen
<1>2. ASSUME NEW r \in Slot, Proceed(r)
      PROVE  Lifecycle!Next \/ UNCHANGED Seen
  <2>1. CASE DiscardCommit(r) \/ SelectCommit(r) \/ ResolveCommit(r)
    BY <2>1, DiscardRefines, SelectRefines, ResolveRefines DEF Lifecycle!Next
  <2>2. CASE SubmitCommit(r) \/ ResolveBegin(r)
    BY <1>1, <2>2 DEF SubmitCommit, ResolveBegin
  <2>3. ~ForfeitCommit(r) /\ ~TransitionCommit(r)
    BY SlotFacts DEF ForfeitCommit, TransitionCommit, RequestSound, Issued
  <2> QED
    BY <1>2, <2>1, <2>2, <2>3, NoPauseSteps DEF Proceed
<1>3. ASSUME NEW r \in Clients, Arrive(r)
      PROVE  UNCHANGED Seen
  <2>1. UNCHANGED <<match, hands, health>>
    BY <1>3 DEF Arrive, DiscardBegin, SelectBegin, SubmitBegin, ForfeitBegin,
                AbortBegin, PauseBegin, ResumeBegin
  <2> QED
    BY <1>1, <2>1
<1>4. ASSUME NEW w \in Workers, Tick(w)
      PROVE  Lifecycle!Next \/ UNCHANGED Seen
  <2>1. CASE ResultsCommit(w)
    BY <2>1, ResultsRefines DEF Lifecycle!Next, Slot
  <2>2. CASE ~ResultsCommit(w)
    <3>1. UNCHANGED <<match, hands, health>>
      BY <1>4, <2>2
      DEF Tick, ClaimTimer, DiscardHandler, DiscardHandlerNext,
          DiscardHandlerEnd, PickHandler, AutoPick, ScoreHandler, ExpireCommit,
          ResultsHandler, Announce, CompleteTimer, RetryTimer
    <3> QED
      BY <1>1, <3>1
  <2> QED
    BY <2>1, <2>2
<1>5. ASSUME NEW t \in Timer, SkipTimer(t)
      PROVE  UNCHANGED Seen
  BY <1>1, <1>5 DEF SkipTimer
<1>6. ASSUME NEW r \in Slot, Crash(r)
      PROVE  UNCHANGED Seen
  BY <1>1, <1>6 DEF Crash
<1>7. CASE UNCHANGED vars
  BY <1>1, <1>7 DEF vars
<1> QED
  BY <1>2, <1>3, <1>4, <1>5, <1>6, <1>7 DEF Next

\* Without forfeits, pauses and aborts, the transactions, timers, retries and
\* instances of the server play exactly the match that MatchLifecycle describes:
\* in order, each phase once, each round's damage once, one result.
THEOREM EngineRefinesLifecycle ==
    ASSUME Enabled = {}
    PROVE  Spec => ImplementsLifecycle
<1>1. Seen = Lifecycle!vars /\ Seen' = Lifecycle!vars'
  BY DEF Seen, Lifecycle!vars, Cards
<1>2. PlayInv /\ [Next]_vars => [Lifecycle!Next]_(Lifecycle!vars)
  BY <1>1, StepRefines
<1>3. "pause" \notin Enabled
  OBVIOUS
<1>4. Spec => []PlayInv
  BY <1>3, PlayInvariance
<1> QED
  BY <1>2, <1>4, InitRefines, PTL DEF Spec, ImplementsLifecycle, Lifecycle!Spec
=============================================================================
