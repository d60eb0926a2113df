-------------------------- MODULE MatchEngineProofs --------------------------
(***************************************************************************)
(* Proofs about MatchEngine for every value of its constants: any number   *)
(* of clients and instances, any hand size and health, every kind of       *)
(* request enabled, with overlapping discards and crashes.                 *)
(***************************************************************************)
EXTENDS MatchEngine, TLAPS

-----------------------------------------------------------------------------
(* What the record constructors of MatchEngine return.                     *)

\* A slot's next request record is well typed: it starts from Idle.
LEMMA BusyType ==
    ASSUME NEW r \in Slot, req \in [Slot -> Request], NEW op \in Op
    PROVE  /\ Busy(r, op) \in Request
           /\ Busy(r, op).op = op
           /\ Busy(r, op).round = 0
BY DEF Busy, Idle, Request, Op, Status, Playing, Terminal, Player

\* A slot whose operation is over is idle or goes back to its timer.
LEMMA AfterType ==
    ASSUME NEW r \in Slot, req \in [Slot -> Request], NEW ok \in BOOLEAN
    PROVE  /\ After(r, ok) \in Request
           /\ After(r, ok).op \in {"idle", "handled", "threw"}
<1>1. Idle \in Request /\ Idle.op = "idle"
  BY DEF Idle, Request, Op, Status, Playing, Terminal, Player
<1>2. "handled" \in Op /\ "threw" \in Op
  BY DEF Op
<1> QED
  BY <1>1, <1>2, BusyType DEF After

\* The table of requests stays well typed when one slot's record changes.
LEMMA GotoType ==
    ASSUME NEW r \in Slot, req \in [Slot -> Request],
           NEW record \in Request, Goto(r, record)
    PROVE  /\ req' \in [Slot -> Request]
           /\ req'[r] = record
           /\ \A s \in Slot \ {r} : req'[s] = req[s]
BY DEF Goto

\* Cancelling or starting timers keeps the table of timers well typed.
LEMMA TimersType ==
    ASSUME NEW kinds, NEW t,
           timers \in [Timer -> TimerRow]
    PROVE  /\ Cancelled(kinds) \in [Timer -> TimerRow]
           /\ Start(t, kinds) \in [Timer -> TimerRow]
BY DEF Cancelled, Start, Scheduled, Row, TimerRow, TimerStatus

-----------------------------------------------------------------------------
(* Most steps are quiet: they change no round, no current_round and no     *)
(* card, and leave their slot with an operation the invariant ignores.     *)

Critical == LockOp \cup {"to_resolve", "select"}
QuietGoto(r) == \E x \in Request : x.op \notin Critical /\ Goto(r, x)
QuietStep(r) ==
    /\ QuietGoto(r)
    /\ match'.round = match.round
    /\ \A p \in Player : hands'[p].cards = hands[p].cards
    /\ UNCHANGED <<rounds, resolved>>

\* Idle is such a record.
LEMMA IdleQuiet == Idle \in Request /\ Idle.op \notin Critical
BY DEF Idle, Request, Op, Status, Playing, Terminal, Player, Critical, LockOp

\* So is what a slot is left with after an operation.
LEMMA AfterQuiet ==
    ASSUME NEW r \in Slot, TypeOK, NEW ok \in BOOLEAN
    PROVE  After(r, ok) \in Request /\ After(r, ok).op \notin Critical
<1>1. /\ After(r, ok) \in Request
      /\ After(r, ok).op \in {"idle", "handled", "threw"}
  BY AfterType DEF TypeOK
<1> QED
  BY <1>1 DEF Critical, LockOp

\* A slot that goes on with an operation the invariant ignores.
LEMMA BusyQuiet ==
    ASSUME NEW r \in Slot, TypeOK, NEW op \in Op \ Critical
    PROVE  Busy(r, op) \in Request /\ Busy(r, op).op \notin Critical
BY BusyType DEF TypeOK

\* A quiet step leaves the table of requests well typed and the requests of
\* the other slots alone.
LEMMA QuietFrame ==
    ASSUME NEW r \in Slot, TypeOK, QuietGoto(r)
    PROVE  /\ req' \in [Slot -> Request]
           /\ req'[r].op \notin Critical
           /\ \A s \in Slot \ {r} : req'[s] = req[s]
BY DEF QuietGoto, Goto, TypeOK

\* A step that changes only what one slot is doing, and gives it a request
\* that respects the locks and the rounds, keeps the invariant.
LEMMA RequestInv ==
    ASSUME NEW r \in Slot, NEW x \in Request, EngineInv, TypeOK', Goto(r, x),
           match'.round = match.round,
           \A p \in Player : hands'[p].cards = hands[p].cards,
           UNCHANGED <<rounds, resolved>>,
           x.op \in Critical => x.round \in Round,
           x.op \in LockOp => RoundLockFree(x.round),
           x.op = "resolve" => rounds[x.round] = "open",
           x.op = "select" =>
                /\ x.user = Picker(x.round)
                /\ \A n \in Round : n < x.round => rounds[n] # "none"
                /\ rounds[x.round] = "none" => hands[x.user].cards > 0
    PROVE  EngineInv'
<1> USE DEF EngineInv
<1>1. req'[r] = x /\ \A s \in Slot \ {r} : req'[s] = req[s]
  BY DEF Goto, TypeOK
<1>2. RequestsNameRounds'
  BY <1>1 DEF RequestsNameRounds, Critical
<1>3. LockExclusive'
  BY <1>1 DEF LockExclusive, LockOp, RoundLockFree
<1>4. ResolvingOpen'
  BY <1>1 DEF ResolvingOpen
<1>5. RoundsNumbered'
  BY DEF RoundsNumbered
<1>6. SelectingNext'
  <2>1. \A s \in Slot : req[s].user \in Player
    BY DEF TypeOK, Request
  <2>2. x.user \in Player
    BY DEF Request
  <2> QED
    BY <1>1, <2>1, <2>2 DEF SelectingNext
<1>7. RoundResolvedOnce'
  BY DEF RoundResolvedOnce
<1> QED
  BY <1>2, <1>3, <1>4, <1>5, <1>6, <1>7

\* A quiet step that keeps the types keeps the whole invariant.
LEMMA QuietInv ==
    ASSUME NEW r \in Slot, EngineInv, QuietStep(r), TypeOK'
    PROVE  EngineInv'
<1>1. PICK x \in Request : x.op \notin Critical /\ Goto(r, x)
  BY DEF QuietStep, QuietGoto
<1> QED
  BY <1>1, RequestInv DEF QuietStep, Critical, LockOp

-----------------------------------------------------------------------------
(* How the rows are written.                                               *)

\* A write of the status and the version of the match.
StatusWrite ==
    \E st \in Status, v \in Nat :
        match' = [match EXCEPT !.status = st, !.version = v]

\* Such a write keeps the row well typed and the round it is in.
LEMMA StatusWriteType ==
    ASSUME TypeOK, StatusWrite \/ match' = match
    PROVE  match' \in MatchRow /\ match'.round = match.round
BY DEF StatusWrite, TypeOK, MatchRow

\* The versions that the code computes are natural numbers.
LEMMA VersionType ==
    ASSUME TypeOK, NEW r \in Slot
    PROVE  match.version + 1 \in Nat /\ req[r].version + 1 \in Nat
BY DEF TypeOK, MatchRow, Request

\* A timer row that nobody has claimed.
LEMMA SetType ==
    ASSUME TypeOK, NEW t, NEW st \in TimerStatus, Set(t, st)
    PROVE  timers' \in [Timer -> TimerRow]
BY DEF Set, Row, TypeOK, TimerRow

\* The timer whose handler works on a round names a round of the match.
LEMMA TimerRound ==
    ASSUME NEW t \in Timer \cup {NoTimer},
           t[1] \in {"score_submission", "round_results"}
    PROVE  t[2] \in Round
BY DEF Timer, NoTimer

\* A discard transaction is a well-typed request that the invariant ignores.
LEMMA DiscardTxQuiet ==
    ASSUME TypeOK, NEW r \in Slot, NEW p \in Player, NEW rest \in SUBSET Player
    PROVE  /\ DiscardTx(r, p, rest) \in Request
           /\ DiscardTx(r, p, rest).op \notin Critical
<1>1. Busy(r, "discard") \in Request /\ Busy(r, "discard").op \notin Critical
  BY BusyQuiet DEF Op, Critical, LockOp
<1>2. match.version \in Nat /\ hands[Other(p)].discarded \in BOOLEAN
  BY DEF TypeOK, MatchRow, HandRow, Other, Player
<1> QED
  BY <1>1, <1>2 DEF DiscardTx, Request

\* Settling a match keeps the rows well typed and the round it ended in.
LEMMA SettleType ==
    ASSUME TypeOK, NEW v \in Nat, NEW w \in Player \cup {Nobody}, Settle(v, w)
    PROVE  /\ match' \in MatchRow
           /\ match'.round = match.round
           /\ active' \in [Player -> BOOLEAN]
           /\ timers' \in [Timer -> TimerRow]
           /\ settled' \in Nat
<1> DEFINE next == v + 1
<1>1. "completed" \in Status /\ match \in MatchRow /\ next \in Nat
  BY DEF Status, Terminal, TypeOK
<1>2. match' = [match EXCEPT !.status = "completed", !.winner = w,
                             !.version = next]
  BY DEF Settle
<1> HIDE DEF next
<1>3. match' \in MatchRow /\ match'.round = match.round
  BY <1>1, <1>2 DEF MatchRow
<1>4. timers' \in [Timer -> TimerRow]
  BY TimersType DEF Settle, TypeOK
<1> QED
  BY <1>3, <1>4 DEF Settle, TypeOK

\* A discard transaction starts.
LEMMA DiscardBeginInv ==
    ASSUME NEW r \in Slot, NEW p \in Player, EngineInv, DiscardBegin(r, p)
    PROVE  EngineInv'
<1> USE DEF EngineInv
<1>1. QuietGoto(r)
  BY DiscardTxQuiet DEF DiscardBegin, QuietGoto, TypeOK
<1>2. TypeOK'
  BY <1>1, QuietFrame DEF DiscardBegin, TypeOK
<1> QED
  BY <1>1, <1>2, QuietInv DEF DiscardBegin, QuietStep

\* A forfeit starts.
LEMMA ForfeitBeginInv ==
    ASSUME NEW r \in Slot, NEW p \in Player, EngineInv, ForfeitBegin(r, p)
    PROVE  EngineInv'
<1> USE DEF EngineInv
<1>1. /\ Busy(r, "forfeit") \in Request
       /\ Busy(r, "forfeit").op \notin Critical
  BY BusyQuiet DEF Op, Critical, LockOp
<1> DEFINE next == [Busy(r, "forfeit") EXCEPT
                       !.user = p, !.version = match.version]
<1>2. next \in Request /\ next.op \notin Critical
  BY <1>1 DEF ForfeitBegin, TypeOK, MatchRow, Request
<1>3. QuietGoto(r)
  BY <1>1, <1>2 DEF ForfeitBegin, QuietGoto
<1>4. TypeOK'
  BY <1>3, QuietFrame DEF ForfeitBegin, TypeOK
<1> QED
  BY <1>3, <1>4, QuietInv DEF ForfeitBegin, QuietStep

\* A moderator aborts.
LEMMA AbortBeginInv ==
    ASSUME NEW r \in Slot, EngineInv, AbortBegin(r)
    PROVE  EngineInv'
<1> USE DEF EngineInv
<1>1. /\ Busy(r, "transition") \in Request
       /\ Busy(r, "transition").op \notin Critical
  BY BusyQuiet DEF Op, Critical, LockOp
<1>2. /\ TransitionTx(r, "aborted") \in Request
       /\ TransitionTx(r, "aborted").op \notin Critical
  BY <1>1
  DEF AbortBegin, TypeOK, MatchRow, Request, TransitionTx, Status, Terminal
<1>3. QuietGoto(r)
  BY <1>1, <1>2 DEF AbortBegin, QuietGoto
<1>4. TypeOK'
  BY <1>3, QuietFrame DEF AbortBegin, TypeOK
<1> QED
  BY <1>3, <1>4, QuietInv DEF AbortBegin, QuietStep

\* A moderator pauses.
LEMMA PauseBeginInv ==
    ASSUME NEW r \in Slot, EngineInv, PauseBegin(r)
    PROVE  EngineInv'
<1> USE DEF EngineInv
<1>1. /\ Busy(r, "pause_mark") \in Request
       /\ Busy(r, "pause_mark").op \notin Critical
  BY BusyQuiet DEF Op, Critical, LockOp
<1> DEFINE next == [Busy(r, "pause_mark") EXCEPT
                       !.status = match.status, !.version = match.version]
<1>2. next \in Request /\ next.op \notin Critical
  BY <1>1 DEF PauseBegin, TypeOK, MatchRow, Request
<1>3. QuietGoto(r)
  BY <1>1, <1>2 DEF PauseBegin, QuietGoto
<1>4. TypeOK'
  BY <1>3, QuietFrame DEF PauseBegin, TypeOK
<1> QED
  BY <1>3, <1>4, QuietInv DEF PauseBegin, QuietStep

\* The phase before the pause is noted.
LEMMA PauseMarkInv ==
    ASSUME NEW r \in Slot, EngineInv, PauseMark(r)
    PROVE  EngineInv'
<1> USE DEF EngineInv
<1>1. /\ Busy(r, "pause_tx") \in Request
       /\ Busy(r, "pause_tx").op \notin Critical
  BY BusyQuiet DEF Op, Critical, LockOp
<1> DEFINE next == [Busy(r, "pause_tx") EXCEPT !.version = req[r].version]
<1>2. next \in Request /\ next.op \notin Critical
  BY <1>1 DEF PauseMark, TypeOK, MatchRow, Request
<1>3. QuietGoto(r)
  BY <1>1, <1>2 DEF PauseMark, QuietGoto
<1>4. TypeOK'
  <2>1. req[r].status \in Status /\ match \in MatchRow
    BY DEF TypeOK, Request
  <2>2. match' \in MatchRow /\ match'.round = match.round
    BY <2>1 DEF PauseMark, MatchRow
  <2> QED
    BY <2>2, <1>3, QuietFrame DEF PauseMark, TypeOK
<1> QED
  BY <1>3, <1>4, QuietInv DEF PauseMark, QuietStep

\* The transition to paused starts or is refused.
LEMMA PauseTransitionInv ==
    ASSUME NEW r \in Slot, EngineInv, PauseTransition(r)
    PROVE  EngineInv'
<1> USE DEF EngineInv
<1>1. /\ Busy(r, "transition") \in Request
       /\ Busy(r, "transition").op \notin Critical
  BY BusyQuiet DEF Op, Critical, LockOp
<1>2. /\ TransitionTx(r, "paused") \in Request
       /\ TransitionTx(r, "paused").op \notin Critical
  BY IdleQuiet, <1>1
  DEF PauseTransition, TypeOK, MatchRow, Request, TransitionTx, Status
<1>3. QuietGoto(r)
  BY IdleQuiet, <1>1, <1>2 DEF PauseTransition, QuietGoto
<1>4. TypeOK'
  BY <1>3, QuietFrame DEF PauseTransition, TypeOK
<1> QED
  BY <1>3, <1>4, QuietInv DEF PauseTransition, QuietStep

\* The timers are paused.
LEMMA PauseTimersInv ==
    ASSUME NEW r \in Slot, EngineInv, PauseTimers(r)
    PROVE  EngineInv'
<1> USE DEF EngineInv
<1>1. QuietGoto(r)
  BY IdleQuiet DEF PauseTimers, QuietGoto
<1>2. TypeOK'
  BY <1>1, QuietFrame DEF PauseTimers, TypeOK, Row, TimerRow, TimerStatus
<1> QED
  BY <1>1, <1>2, QuietInv DEF PauseTimers, QuietStep

\* A moderator resumes.
LEMMA ResumeBeginInv ==
    ASSUME NEW r \in Slot, EngineInv, ResumeBegin(r)
    PROVE  EngineInv'
<1> USE DEF EngineInv
<1>1. /\ Busy(r, "resume_tx") \in Request
       /\ Busy(r, "resume_tx").op \notin Critical
  BY BusyQuiet DEF Op, Critical, LockOp
<1> DEFINE next == [Busy(r, "resume_tx") EXCEPT
                       !.status = match.before, !.version = match.version]
<1>2. next \in Request /\ next.op \notin Critical
  BY <1>1 DEF ResumeBegin, TypeOK, MatchRow, Request
<1>3. QuietGoto(r)
  BY <1>1, <1>2 DEF ResumeBegin, QuietGoto
<1>4. TypeOK'
  BY <1>3, QuietFrame DEF ResumeBegin, TypeOK
<1> QED
  BY <1>3, <1>4, QuietInv DEF ResumeBegin, QuietStep

\* The transition back starts or is refused.
LEMMA ResumeTransitionInv ==
    ASSUME NEW r \in Slot, EngineInv, ResumeTransition(r)
    PROVE  EngineInv'
<1> USE DEF EngineInv
<1>1. /\ Busy(r, "transition") \in Request
       /\ Busy(r, "transition").op \notin Critical
  BY BusyQuiet DEF Op, Critical, LockOp
<1>2. /\ TransitionTx(r, req[r].status) \in Request
       /\ TransitionTx(r, req[r].status).op \notin Critical
  BY IdleQuiet, <1>1
  DEF ResumeTransition, TypeOK, MatchRow, Request, TransitionTx
<1>3. QuietGoto(r)
  BY IdleQuiet, <1>1, <1>2 DEF ResumeTransition, QuietGoto
<1>4. TypeOK'
  BY <1>3, QuietFrame DEF ResumeTransition, TypeOK
<1> QED
  BY <1>3, <1>4, QuietInv DEF ResumeTransition, QuietStep

\* The note of the phase is cleared.
LEMMA ResumeClearInv ==
    ASSUME NEW r \in Slot, EngineInv, ResumeClear(r)
    PROVE  EngineInv'
<1> USE DEF EngineInv
<1>1. /\ Busy(r, "resume_timers") \in Request
       /\ Busy(r, "resume_timers").op \notin Critical
  BY BusyQuiet DEF Op, Critical, LockOp
<1>2. QuietGoto(r)
  BY <1>1 DEF ResumeClear, QuietGoto
<1>3. TypeOK'
  BY <1>2, QuietFrame DEF ResumeClear, TypeOK, MatchRow
<1> QED
  BY <1>2, <1>3, QuietInv DEF ResumeClear, QuietStep

\* The timers are resumed.
LEMMA ResumeTimersInv ==
    ASSUME NEW r \in Slot, EngineInv, ResumeTimers(r)
    PROVE  EngineInv'
<1> USE DEF EngineInv
<1>1. QuietGoto(r)
  BY IdleQuiet DEF ResumeTimers, QuietGoto
<1>2. TypeOK'
  BY <1>1, QuietFrame
  DEF ResumeTimers, TypeOK, Row, TimerRow, TimerStatus, Scheduled
<1> QED
  BY <1>1, <1>2, QuietInv DEF ResumeTimers, QuietStep

\* A transition commits or fails.
LEMMA TransitionCommitInv ==
    ASSUME NEW r \in Slot, EngineInv, TransitionCommit(r)
    PROVE  EngineInv'
<1> USE DEF EngineInv
<1>1. /\ Busy(r, "pause_timers") \in Request
       /\ Busy(r, "pause_timers").op \notin Critical
       /\ Busy(r, "resume_clear") \in Request
       /\ Busy(r, "resume_clear").op \notin Critical
  BY BusyQuiet DEF Op, Critical, LockOp
<1>2. QuietGoto(r)
  BY IdleQuiet, <1>1 DEF TransitionCommit, QuietGoto
<1>3. match' \in MatchRow /\ match'.round = match.round
  <2>1. req[r].status \in Status
    BY DEF TypeOK, Request
  <2>2. StatusWrite \/ match' = match
    BY <2>1, VersionType DEF TransitionCommit, StatusWrite
  <2> QED
    BY <2>2, StatusWriteType
<1> QED
  BY <1>2, <1>3, QuietFrame, QuietInv DEF TransitionCommit, QuietStep, TypeOK

\* A forfeit settles the match.
LEMMA ForfeitCommitInv ==
    ASSUME NEW r \in Slot, EngineInv, ForfeitCommit(r)
    PROVE  EngineInv'
<1> USE DEF EngineInv
<1>1. QuietGoto(r)
  BY IdleQuiet DEF ForfeitCommit, QuietGoto
<1>2. /\ match' \in MatchRow
       /\ match'.round = match.round
       /\ active' \in [Player -> BOOLEAN]
       /\ timers' \in [Timer -> TimerRow]
       /\ settled' \in Nat
  <2>1. req[r].version \in Nat /\ Other(req[r].user) \in Player
    BY DEF TypeOK, Request, Other, Player
  <2>2. CASE Settle(req[r].version, Other(req[r].user))
    BY <2>1, <2>2, SettleType
  <2>3. CASE UNCHANGED <<match, active, timers, settled>>
    BY <2>3 DEF TypeOK
  <2> QED
    BY <2>2, <2>3 DEF ForfeitCommit
<1> QED
  BY <1>1, <1>2, QuietFrame, QuietInv DEF ForfeitCommit, QuietStep, TypeOK

\* A discard transaction commits or fails.
LEMMA DiscardCommitInv ==
    ASSUME NEW r \in Slot, EngineInv, DiscardCommit(r)
    PROVE  EngineInv'
<1> USE DEF EngineInv
<1>1. /\ Busy(r, "discards") \in Request
       /\ Busy(r, "discards").op \notin Critical
  BY BusyQuiet DEF Op, Critical, LockOp
<1>2. /\ DiscardDone(r) \in Request
       /\ DiscardDone(r).op \notin Critical
  BY IdleQuiet, <1>1, AfterQuiet
  DEF DiscardCommit, TypeOK, MatchRow, Request, DiscardDone
<1>3. QuietGoto(r)
  BY IdleQuiet, <1>1, AfterQuiet, <1>2 DEF DiscardCommit, QuietGoto
<1>4. /\ match' \in MatchRow
       /\ match'.round = match.round
       /\ timers' \in [Timer -> TimerRow]
  <2>1. "awaiting_pick" \in Status
    BY DEF Status, Playing
  <2>2. StatusWrite \/ match' = match
    BY <2>1, VersionType DEF DiscardCommit, StatusWrite
  <2>3. timers' = Start(<<"pick", 1>>, {"discard"}) \/ timers' = timers
    BY DEF DiscardCommit
  <2> QED
    BY <2>2, <2>3, StatusWriteType, TimersType DEF TypeOK
<1>5. /\ hands' \in [Player -> HandRow]
       /\ \A p \in Player : hands'[p].cards = hands[p].cards
  <2>1. \/ hands' = [hands EXCEPT ![req[r].user].discarded = TRUE]
        \/ hands' = hands
    BY DEF DiscardCommit
  <2>2. hands \in [Player -> HandRow] /\ req[r].user \in Player
    BY DEF TypeOK, Request
  <2>3. hands' \in [Player -> HandRow]
    BY <2>1, <2>2 DEF HandRow
  <2>4. \A p \in Player : hands'[p].cards = hands[p].cards
    BY <2>1, <2>2 DEF HandRow
  <2> QED
    BY <2>3, <2>4
<1> QED
  BY <1>3, <1>4, <1>5, QuietFrame, QuietInv DEF DiscardCommit, QuietStep, TypeOK

\* An instance claims a timer.
LEMMA ClaimTimerInv ==
    ASSUME NEW r \in Workers, NEW t \in Timer, EngineInv, ClaimTimer(r, t)
    PROVE  EngineInv'
<1> USE DEF EngineInv
<1> USE DEF Slot
<1>1. /\ [Idle EXCEPT !.op = "claimed", !.timer = t] \in Request
       /\ [Idle EXCEPT !.op = "claimed", !.timer = t].op \notin Critical
  BY IdleQuiet, ZenonT(60) DEF ClaimTimer, TypeOK, MatchRow, Request, Op, Critical, LockOp
<1>2. QuietGoto(r)
  BY IdleQuiet, <1>1 DEF ClaimTimer, QuietGoto
<1>3. timers' \in [Timer -> TimerRow]
  BY DEF ClaimTimer, TypeOK, TimerRow, TimerStatus
<1> QED
  BY <1>2, <1>3, QuietFrame, QuietInv DEF ClaimTimer, QuietStep, TypeOK

\* The discard handler starts.
LEMMA DiscardHandlerInv ==
    ASSUME NEW r \in Slot, EngineInv, DiscardHandler(r)
    PROVE  EngineInv'
<1> USE DEF EngineInv
<1>1. /\ Busy(r, "discards") \in Request
       /\ Busy(r, "discards").op \notin Critical
  BY BusyQuiet DEF Op, Critical, LockOp
<1> DEFINE next == [Busy(r, "discards") EXCEPT
                       !.pending = {p \in Player : ~hands[p].discarded}]
<1>2. next \in Request /\ next.op \notin Critical
  BY <1>1, AfterQuiet DEF DiscardHandler, TypeOK, MatchRow, Request
<1>3. QuietGoto(r)
  BY <1>1, AfterQuiet, <1>2 DEF DiscardHandler, QuietGoto
<1>4. TypeOK'
  BY <1>3, QuietFrame DEF DiscardHandler, TypeOK
<1> QED
  BY <1>3, <1>4, QuietInv DEF DiscardHandler, QuietStep

\* The discard handler takes the next hand.
LEMMA DiscardHandlerNextInv ==
    ASSUME NEW r \in Slot, NEW p \in Player, EngineInv, DiscardHandlerNext(r, p)
    PROVE  EngineInv'
<1> USE DEF EngineInv
<1>1. /\ Busy(r, "discards") \in Request
       /\ Busy(r, "discards").op \notin Critical
  BY BusyQuiet DEF Op, Critical, LockOp
<1> DEFINE next == [Busy(r, "discards") EXCEPT !.pending = req[r].pending \ {p}]
<1>2. next \in Request /\ next.op \notin Critical
  BY <1>1, AfterQuiet DEF DiscardHandlerNext, TypeOK, MatchRow, Request
<1>3. QuietGoto(r)
  BY <1>1, AfterQuiet, <1>2, DiscardTxQuiet
  DEF DiscardHandlerNext, QuietGoto, TypeOK, Request
<1>4. TypeOK'
  BY <1>3, QuietFrame DEF DiscardHandlerNext, TypeOK
<1> QED
  BY <1>3, <1>4, QuietInv DEF DiscardHandlerNext, QuietStep

\* The discard handler returns.
LEMMA DiscardHandlerEndInv ==
    ASSUME NEW r \in Slot, EngineInv, DiscardHandlerEnd(r)
    PROVE  EngineInv'
<1> USE DEF EngineInv
<1>1. QuietGoto(r)
  BY AfterQuiet DEF DiscardHandlerEnd, QuietGoto
<1>2. TypeOK'
  BY <1>1, QuietFrame DEF DiscardHandlerEnd, TypeOK
<1> QED
  BY <1>1, <1>2, QuietInv DEF DiscardHandlerEnd, QuietStep

\* The pick handler names the picker.
LEMMA PickHandlerInv ==
    ASSUME NEW r \in Slot, EngineInv, PickHandler(r)
    PROVE  EngineInv'
<1> USE DEF EngineInv
<1>1. /\ Busy(r, "auto_pick") \in Request
       /\ Busy(r, "auto_pick").op \notin Critical
  BY BusyQuiet DEF Op, Critical, LockOp
<1> DEFINE next == [Busy(r, "auto_pick") EXCEPT
                       !.user = Picker(match.round + 1)]
<1>2. next \in Request /\ next.op \notin Critical
  BY <1>1, AfterQuiet, ZenonT(60) DEF PickHandler, TypeOK, MatchRow, Request, Picker, Player
<1>3. QuietGoto(r)
  BY <1>1, AfterQuiet, <1>2 DEF PickHandler, QuietGoto
<1>4. TypeOK'
  BY <1>3, QuietFrame DEF PickHandler, TypeOK
<1> QED
  BY <1>3, <1>4, QuietInv DEF PickHandler, QuietStep

\* The results handler starts.
LEMMA ResultsHandlerInv ==
    ASSUME NEW r \in Slot, EngineInv, ResultsHandler(r)
    PROVE  EngineInv'
<1> USE DEF EngineInv
<1>1. /\ Busy(r, "results") \in Request
       /\ Busy(r, "results").op \notin Critical
       /\ Busy(r, "announce") \in Request
       /\ Busy(r, "announce").op \notin Critical
  BY BusyQuiet DEF Op, Critical, LockOp
<1> DEFINE next == [Busy(r, "results") EXCEPT
                       !.round = req[r].timer[2], !.version = match.version]
<1>2. ASSUME req[r].timer[1] = "round_results"
     PROVE  next \in Request /\ next.op \notin Critical
  <2>1. req[r].timer[2] \in Round
    BY <1>2, TimerRound DEF TypeOK, Request
  <2> QED
    BY <2>1, <1>1 DEF TypeOK, Request, MatchRow
<1>3. QuietGoto(r)
  BY <1>1, AfterQuiet, <1>2 DEF ResultsHandler, QuietGoto
<1>4. TypeOK'
  BY <1>3, QuietFrame DEF ResultsHandler, TypeOK
<1> QED
  BY <1>3, <1>4, QuietInv DEF ResultsHandler, QuietStep

\* The results phase ends or is refused.
LEMMA ResultsCommitInv ==
    ASSUME NEW r \in Slot, EngineInv, ResultsCommit(r)
    PROVE  EngineInv'
<1> USE DEF EngineInv
<1>1. /\ Busy(r, "announce") \in Request
       /\ Busy(r, "announce").op \notin Critical
  BY BusyQuiet DEF Op, Critical, LockOp
<1>2. QuietGoto(r)
  BY <1>1, AfterQuiet DEF ResultsCommit, QuietGoto
<1>3. /\ match' \in MatchRow
       /\ match'.round = match.round
       /\ timers' \in [Timer -> TimerRow]
  <2>1. "awaiting_pick" \in Status
    BY DEF Status, Playing
  <2>2. StatusWrite \/ match' = match
    BY <2>1, VersionType DEF ResultsCommit, StatusWrite
  <2>3. timers' = Start(<<"pick", req[r].round + 1>>, {}) \/ timers' = timers
    BY DEF ResultsCommit
  <2> QED
    BY <2>2, <2>3, StatusWriteType, TimersType DEF TypeOK
<1> QED
  BY <1>2, <1>3, QuietFrame, QuietInv DEF ResultsCommit, QuietStep, TypeOK

\* The next pick phase is announced.
LEMMA AnnounceInv ==
    ASSUME NEW r \in Slot, EngineInv, Announce(r)
    PROVE  EngineInv'
<1> USE DEF EngineInv
<1>1. QuietGoto(r)
  BY AfterQuiet DEF Announce, QuietGoto
<1>2. TypeOK'
  BY <1>1, QuietFrame DEF Announce, TypeOK
<1> QED
  BY <1>1, <1>2, QuietInv DEF Announce, QuietStep

\* An instance completes a timer.
LEMMA CompleteTimerInv ==
    ASSUME NEW r \in Slot, EngineInv, CompleteTimer(r)
    PROVE  EngineInv'
<1> USE DEF EngineInv
<1>1. QuietGoto(r)
  BY IdleQuiet DEF CompleteTimer, QuietGoto
<1>2. timers' \in [Timer -> TimerRow]
  <2>1. "completed" \in TimerStatus
    BY DEF TimerStatus
  <2> QED
    BY <2>1, SetType DEF CompleteTimer, TypeOK
<1> QED
  BY <1>1, <1>2, QuietFrame, QuietInv DEF CompleteTimer, QuietStep, TypeOK

\* An instance reschedules or gives up a timer.
LEMMA RetryTimerInv ==
    ASSUME NEW r \in Slot, EngineInv, RetryTimer(r)
    PROVE  EngineInv'
<1> USE DEF EngineInv
<1>1. QuietGoto(r)
  BY IdleQuiet DEF RetryTimer, QuietGoto
<1>2. timers' \in [Timer -> TimerRow]
  <2>1. {"scheduled", "failed"} \subseteq TimerStatus
    BY DEF TimerStatus
  <2> QED
    BY <2>1, SetType DEF RetryTimer, TypeOK
<1> QED
  BY <1>1, <1>2, QuietFrame, QuietInv DEF RetryTimer, QuietStep, TypeOK

\* A slot crashes.
LEMMA CrashInv ==
    ASSUME NEW r \in Slot, EngineInv, Crash(r)
    PROVE  EngineInv'
<1> USE DEF EngineInv
<1>1. QuietGoto(r)
  BY IdleQuiet DEF Crash, QuietGoto
<1>2. crashes' \in 0 .. MaxCrashes
  BY MatchEngineAssumption DEF Crash, TypeOK
<1> QED
  BY <1>1, <1>2, QuietFrame, QuietInv DEF Crash, QuietStep, TypeOK

\* A transaction that a player or the pick timer prepares for the next round.
LEMMA SelectTxInv ==
    ASSUME NEW r \in Slot, NEW p \in Player, EngineInv, CanSelect(p),
           Goto(r, SelectTx(r, p)),
           UNCHANGED <<match, hands, active, health, rounds, scores, timers,
                   resolved, settled, crashes>>
    PROVE  EngineInv'
<1> USE DEF EngineInv
<1> DEFINE n == match.round + 1
<1> DEFINE x == SelectTx(r, p)
<1>1. Busy(r, "select") \in Request /\ Busy(r, "select").op = "select"
  BY BusyType DEF Op, TypeOK
<1>2. /\ n \in Round /\ p = Picker(n) /\ hands[p].cards > 0
      /\ match.version \in Nat
  BY DEF CanSelect, TypeOK, MatchRow
<1>3. x = [Busy(r, "select") EXCEPT !.user = p, !.round = n,
                                    !.version = match.version]
  BY DEF SelectTx
<1> HIDE DEF n, x
<1>4. x \in Request /\ x.op = "select" /\ x.user = p /\ x.round = n
  BY <1>1, <1>2, <1>3 DEF Request
<1>5. \A k \in Round : k < n => rounds[k] # "none"
  BY <1>2 DEF RoundsNumbered, n, Round, TypeOK, MatchRow
<1>6. TypeOK'
  BY <1>4, GotoType DEF TypeOK, x
<1> QED
  BY <1>2, <1>4, <1>5, <1>6, RequestInv DEF LockOp, Critical, x

\* A pick is prepared.
LEMMA SelectBeginInv ==
    ASSUME NEW r \in Slot, NEW p \in Player, EngineInv, SelectBegin(r, p)
    PROVE  EngineInv'
BY SelectTxInv DEF SelectBegin

\* The pick timer's handler prepares a pick, or gives up.
LEMMA AutoPickInv ==
    ASSUME NEW r \in Slot, EngineInv, AutoPick(r)
    PROVE  EngineInv'
<1> USE DEF EngineInv
<1>1. req[r].user \in Player
  BY DEF TypeOK, Request
<1>2. CASE CanSelect(req[r].user)
  BY <1>1, <1>2, SelectTxInv DEF AutoPick
<1>3. CASE ~CanSelect(req[r].user)
  <2>1. QuietGoto(r)
    BY <1>3, AfterQuiet DEF AutoPick, QuietGoto
  <2>2. TypeOK'
    BY <2>1, QuietFrame DEF AutoPick, TypeOK
  <2> QED
    BY <2>1, <2>2, QuietInv DEF AutoPick, QuietStep
<1> QED
  BY <1>2, <1>3

\* A submission takes the lock of its round.
LEMMA SubmitBeginInv ==
    ASSUME NEW r \in Slot, NEW p \in Player, NEW n \in Round, EngineInv,
           SubmitBegin(r, p, n)
    PROVE  EngineInv'
<1> USE DEF EngineInv
<1> DEFINE x == [Busy(r, "submit") EXCEPT !.user = p, !.round = n]
<1>1. Busy(r, "submit") \in Request /\ Busy(r, "submit").op = "submit"
  BY BusyType DEF Op, TypeOK
<1>2. x \in Request /\ x.op = "submit" /\ x.round = n
  BY <1>1 DEF Request
<1>3. Goto(r, x) /\ RoundLockFree(n)
  BY DEF SubmitBegin
<1> HIDE DEF x
<1>4. TypeOK'
  BY <1>2, <1>3, GotoType DEF SubmitBegin, TypeOK
<1> QED
  BY <1>2, <1>3, <1>4, RequestInv DEF SubmitBegin, LockOp, Critical

\* A score is inserted; the second one of a round leads to its resolution.
LEMMA SubmitCommitInv ==
    ASSUME NEW r \in Slot, EngineInv, SubmitCommit(r)
    PROVE  EngineInv'
<1> USE DEF EngineInv
<1> DEFINE n == req[r].round
           x == [Busy(r, "to_resolve") EXCEPT !.round = n]
<1>1. n \in Round
  BY DEF SubmitCommit, RequestsNameRounds, LockOp
<1>2. /\ Busy(r, "to_resolve") \in Request
      /\ Busy(r, "to_resolve").op = "to_resolve"
  BY BusyType DEF Op, TypeOK
<1>3. x \in Request /\ x.op = "to_resolve" /\ x.round = n
  BY <1>1, <1>2 DEF Request
<1>4. Goto(r, x) \/ Goto(r, Idle)
  BY DEF SubmitCommit
<1>5. req[r].user \in Player
  BY DEF TypeOK, Request
<1>6. scores' \in [Round -> [Player -> {"none", "played", "timed_out"}]]
  <2>1. \/ scores' = [scores EXCEPT ![n][req[r].user] = "played"]
        \/ scores' = scores
    BY DEF SubmitCommit
  <2>2. scores \in [Round -> [Player -> {"none", "played", "timed_out"}]]
    BY DEF TypeOK
  <2> HIDE DEF n
  <2> QED
    BY <1>1, <1>5, <2>1, <2>2
<1> HIDE DEF x
<1>7. TypeOK'
  BY <1>3, <1>4, <1>6, IdleQuiet, GotoType DEF SubmitCommit, TypeOK
<1>8. CASE Goto(r, x)
  BY <1>1, <1>3, <1>7, <1>8, RequestInv DEF SubmitCommit, LockOp
<1>9. CASE Goto(r, Idle)
  BY <1>7, <1>9, IdleQuiet, QuietInv DEF SubmitCommit, QuietStep, QuietGoto
<1> QED
  BY <1>4, <1>8, <1>9

\* The missing scores of a round are defaulted.
LEMMA ExpireCommitInv ==
    ASSUME NEW r \in Slot, EngineInv, ExpireCommit(r)
    PROVE  EngineInv'
<1> USE DEF EngineInv
<1> DEFINE n == req[r].round
           x == [Busy(r, "to_resolve") EXCEPT !.round = n]
<1>1. n \in Round
  BY DEF ExpireCommit, RequestsNameRounds, LockOp
<1>2. /\ Busy(r, "to_resolve") \in Request
      /\ Busy(r, "to_resolve").op = "to_resolve"
  BY BusyType DEF Op, TypeOK
<1>3. x \in Request /\ x.op = "to_resolve" /\ x.round = n
  BY <1>1, <1>2 DEF Request
<1>4. Goto(r, x)
  BY DEF ExpireCommit
<1>5. scores' \in [Round -> [Player -> {"none", "played", "timed_out"}]]
  BY <1>1 DEF ExpireCommit, TypeOK
<1> HIDE DEF x
<1>6. TypeOK'
  BY <1>3, <1>4, <1>5, GotoType DEF ExpireCommit, TypeOK
<1> QED
  BY <1>1, <1>3, <1>4, <1>6, RequestInv DEF ExpireCommit, LockOp

\* A resolution takes the round's lock and finds the round open, or returns.
LEMMA ResolveBeginInv ==
    ASSUME NEW r \in Slot, EngineInv, ResolveBegin(r)
    PROVE  EngineInv'
<1> USE DEF EngineInv
<1> DEFINE n == req[r].round
           v == match.version
           x == [Busy(r, "resolve") EXCEPT !.round = n, !.version = v]
<1>1. n \in Round /\ v \in Nat
  BY DEF ResolveBegin, RequestsNameRounds, TypeOK, MatchRow
<1>2. Busy(r, "resolve") \in Request /\ Busy(r, "resolve").op = "resolve"
  BY BusyType DEF Op, TypeOK
<1>3. x \in Request /\ x.op = "resolve" /\ x.round = n
  BY <1>1, <1>2 DEF Request
<1>4. RoundLockFree(n)
  BY DEF ResolveBegin
<1>5. CASE Resolvable(n)
  <2>1. Goto(r, x) /\ rounds[n] = "open"
    BY <1>5 DEF ResolveBegin, Resolvable
  <2> HIDE DEF x
  <2>2. TypeOK'
    BY <1>3, <2>1, GotoType DEF ResolveBegin, TypeOK
  <2> QED
    BY <1>1, <1>3, <1>4, <2>1, <2>2, RequestInv DEF ResolveBegin
<1>6. CASE ~Resolvable(n)
  <2>1. QuietGoto(r)
    BY <1>6, AfterQuiet DEF ResolveBegin, QuietGoto
  <2>2. TypeOK'
    BY <2>1, QuietFrame DEF ResolveBegin, TypeOK
  <2> QED
    BY <2>1, <2>2, QuietInv DEF ResolveBegin, QuietStep
<1> QED
  BY <1>5, <1>6

\* The deadline's handler takes the round's lock, or returns.
LEMMA ScoreHandlerInv ==
    ASSUME NEW r \in Slot, EngineInv, ScoreHandler(r)
    PROVE  EngineInv'
<1> USE DEF EngineInv
<1> DEFINE n == req[r].timer[2]
           missing == {p \in Player : scores[n][p] = "none"}
           x == [Busy(r, "expire") EXCEPT !.round = n, !.pending = missing]
<1>1. n \in Round
  BY TimerRound DEF ScoreHandler, TypeOK, Request
<1>2. Busy(r, "expire") \in Request /\ Busy(r, "expire").op = "expire"
  BY BusyType, SMTT(60) DEF Op, TypeOK
<1>3. x \in Request /\ x.op = "expire" /\ x.round = n
  BY <1>1, <1>2 DEF Request
<1>4. RoundLockFree(n)
  BY DEF ScoreHandler
<1>5. Goto(r, x) \/ Goto(r, After(r, TRUE))
  BY DEF ScoreHandler
<1> HIDE DEF x
<1>6. CASE Goto(r, x)
  <2>1. TypeOK'
    BY <1>3, <1>6, GotoType DEF ScoreHandler, TypeOK
  <2> QED
    BY <1>1, <1>3, <1>4, <1>6, <2>1, RequestInv DEF ScoreHandler
<1>7. CASE Goto(r, After(r, TRUE))
  <2>1. QuietGoto(r)
    BY <1>7, AfterQuiet DEF QuietGoto
  <2>2. TypeOK'
    BY <2>1, QuietFrame DEF ScoreHandler, TypeOK
  <2> QED
    BY <2>1, <2>2, QuietInv DEF ScoreHandler, QuietStep
<1> QED
  BY <1>5, <1>6, <1>7

\* A round is inserted with the next number and costs its picker one card.
LEMMA SelectCommitInv ==
    ASSUME NEW r \in Slot, EngineInv, SelectCommit(r)
    PROVE  EngineInv'
<1> USE DEF EngineInv
<1> DEFINE p == req[r].user
           n == req[r].round
<1>1. p \in Player /\ n \in Round /\ n \in Nat /\ match.round \in Nat
  BY DEF SelectCommit, RequestsNameRounds, TypeOK, Request, MatchRow, Round
<1>2. QuietGoto(r)
  BY AfterQuiet DEF SelectCommit, QuietGoto
<1>3. CASE RoundIsNew(n) /\ StillPlayable /\ Cancellable({"pick"})
  <2> DEFINE v == req[r].version + 1
  <2>1. /\ rounds' = [rounds EXCEPT ![n] = "open"]
        /\ hands' = [hands EXCEPT ![p].cards = @ - 1]
        /\ match' = [match EXCEPT !.status = "awaiting_scores",
                                  !.round = n, !.version = v]
        /\ timers' = Start(<<"score_submission", n>>, {"pick"})
        /\ UNCHANGED <<active, health, scores, resolved, settled, crashes>>
    BY <1>3 DEF SelectCommit
  <2>2. v \in Nat /\ "awaiting_scores" \in Status /\ match \in MatchRow
    BY VersionType DEF Status, Playing, TypeOK
  <2> HIDE DEF v
  <2>3. match' \in MatchRow /\ match'.round = n
    BY <1>1, <2>1, <2>2 DEF MatchRow
  <2>4. /\ rounds[n] = "none"
        /\ \A k \in Round : k < n => rounds[k] # "none"
        /\ hands[p].cards > 0
    BY <1>1, <1>3 DEF SelectCommit, SelectingNext, RoundIsNew
  <2>5. hands' \in [Player -> HandRow]
    <3>1. hands \in [Player -> HandRow] /\ HandSize \in Nat
      BY MatchEngineAssumption DEF TypeOK
    <3>2. hands[p].cards - 1 \in 0 .. HandSize
      BY <1>1, <2>4, <3>1 DEF HandRow
    <3> DEFINE c == hands[p].cards - 1
    <3>3. hands' = [hands EXCEPT ![p].cards = c]
      BY <2>1
    <3> HIDE DEF c
    <3>4. c \in 0 .. HandSize
      BY <3>2 DEF c
    <3> QED
      BY <1>1, <3>1, <3>3, <3>4 DEF HandRow
  <2>6. timers' \in [Timer -> TimerRow]
    BY <2>1, TimersType DEF TypeOK
  <2>7. rounds' \in [Round -> {"none", "open", "ended"}]
    BY <2>1 DEF TypeOK
  <2>8. TypeOK'
    BY <1>2, <2>1, <2>3, <2>5, <2>6, <2>7, QuietFrame DEF TypeOK
  <2>9. \A k \in Round : rounds'[k] = IF k = n THEN "open" ELSE rounds[k]
    BY <2>1 DEF TypeOK
  <2>10. \A s \in Slot : req'[s].op \in Critical => req'[s] = req[s]
    BY <1>2, QuietFrame
  <2>11. RequestsNameRounds'
    BY <2>10 DEF RequestsNameRounds, Critical
  <2>12. LockExclusive'
    BY <2>10 DEF LockExclusive, Critical
  <2>13. ResolvingOpen'
    BY <2>9, <2>10 DEF ResolvingOpen, RequestsNameRounds, Critical, LockOp
  <2>14. RoundsNumbered'
    BY <1>1, <2>3, <2>4, <2>9 DEF RoundsNumbered, Round
  <2>15. SelectingNext'
    <3> SUFFICES ASSUME NEW s \in Slot, req'[s].op = "select"
                 PROVE  /\ req'[s].user = Picker(req'[s].round)
                        /\ \A k \in Round :
                                k < req'[s].round => rounds'[k] # "none"
                        /\ rounds'[req'[s].round] # "none"
      BY DEF SelectingNext
    <3>1. req'[s] = req[s] /\ req[s].op = "select"
      BY <2>10 DEF Critical
    <3>2. req[s].round \in Round
      BY <3>1 DEF RequestsNameRounds
    <3>3. /\ req[s].user = Picker(req[s].round)
          /\ \A k \in Round : k < req[s].round => rounds[k] # "none"
      BY <3>1 DEF SelectingNext
    <3>4. req[s].round <= n
      BY <1>1, <2>4, <3>2, <3>3 DEF Round
    <3>5. rounds'[req[s].round] # "none"
      BY <1>1, <2>4, <2>9, <3>2, <3>4 DEF Round
    <3> QED
      BY <2>9, <3>1, <3>3, <3>5
  <2>16. RoundResolvedOnce'
    BY <2>1, <2>4, <2>9 DEF RoundResolvedOnce
  <2> QED
    BY <2>8, <2>11, <2>12, <2>13, <2>14, <2>15, <2>16
<1>4. CASE ~(RoundIsNew(n) /\ StillPlayable /\ Cancellable({"pick"}))
  <2>1. UNCHANGED <<match, hands, active, health, rounds, scores, timers,
                    resolved, settled, crashes>>
    BY <1>4 DEF SelectCommit
  <2>2. TypeOK'
    BY <1>2, <2>1, QuietFrame DEF TypeOK
  <2> QED
    BY <1>2, <2>1, <2>2, QuietInv DEF QuietStep
<1> QED
  BY <1>3, <1>4

\* resolveMatchHealthOutcome names a winner, a draw or nothing.
LEMMA OutcomeType ==
    ASSUME NEW h, NEW remaining
    PROVE  Outcome(h, remaining) \in Player \cup {"draw", "none"}
BY DEF Outcome, Player

\* A resolution ends the round that it holds the lock of, once.
LEMMA ResolveCommitInv ==
    ASSUME NEW r \in Slot, EngineInv, ResolveCommit(r)
    PROVE  EngineInv'
<1> USE DEF EngineInv
<1> DEFINE n == req[r].round
<1>1. n \in Round /\ rounds[n] = "open" /\ resolved[n] = 0
  BY DEF ResolveCommit, RequestsNameRounds, ResolvingOpen, RoundResolvedOnce,
         LockOp
<1>2. PICK d \in Damages(n) :
        LET h == [p \in Player |-> Remaining(health[p], d[p])]
            o == Outcome(h, hands["red"].cards + hands["blue"].cards)
        IN \/ /\ o = "none" /\ ResolutionAccepted(o)
              /\ match' = [match EXCEPT !.status = "round_results",
                                        !.version = req[r].version + 1]
              /\ timers' = Start(<<"round_results", n>>, {"score_submission"})
              /\ health' = h
              /\ rounds' = [rounds EXCEPT ![n] = "ended"]
              /\ resolved' = [resolved EXCEPT ![n] = @ + 1]
              /\ Goto(r, After(r, TRUE))
              /\ UNCHANGED <<active, settled>>
           \/ /\ o # "none" /\ ResolutionAccepted(o)
              /\ Settle(req[r].version, IF o = "draw" THEN Nobody ELSE o)
              /\ health' = h
              /\ rounds' = [rounds EXCEPT ![n] = "ended"]
              /\ resolved' = [resolved EXCEPT ![n] = @ + 1]
              /\ Goto(r, After(r, TRUE))
           \/ /\ ~ResolutionAccepted(o)
              /\ Goto(r, After(r, FALSE))
              /\ UNCHANGED <<match, timers, health, rounds, resolved, active,
                             settled>>
  BY DEF ResolveCommit
<1> DEFINE h == [p \in Player |-> Remaining(health[p], d[p])]
           o == Outcome(h, hands["red"].cards + hands["blue"].cards)
<1>3. QuietGoto(r) /\ UNCHANGED <<hands, scores, crashes>>
  BY <1>2, AfterQuiet DEF ResolveCommit, QuietGoto
<1>4. h \in [Player -> 0 .. StartHealth]
  <2>1. d \in [Player -> 0 .. StartHealth]
    BY DEF Damages
  <2>2. health \in [Player -> 0 .. StartHealth] /\ StartHealth \in Nat
    BY MatchEngineAssumption DEF TypeOK
  <2> QED
    BY <2>1, <2>2 DEF Remaining
<1>5. o \in Player \cup {"draw", "none"}
  BY OutcomeType
<1> HIDE DEF h, o
<1>6. CASE UNCHANGED <<match, timers, health, rounds, resolved, active,
                       settled>>
  <2>1. TypeOK'
    BY <1>3, <1>6, QuietFrame DEF TypeOK
  <2> QED
    BY <1>3, <1>6, <2>1, QuietInv DEF QuietStep
<1>7. CASE /\ health' = h
           /\ rounds' = [rounds EXCEPT ![n] = "ended"]
           /\ resolved' = [resolved EXCEPT ![n] = @ + 1]
           /\ match' \in MatchRow /\ match'.round = match.round
           /\ timers' \in [Timer -> TimerRow]
           /\ active' \in [Player -> BOOLEAN] /\ settled' \in Nat
  <2>1. /\ \A k \in Round : rounds'[k] = IF k = n THEN "ended" ELSE rounds[k]
        /\ \A k \in Round :
                resolved'[k] = IF k = n THEN 1 ELSE resolved[k]
    BY <1>1, <1>7 DEF TypeOK
  <2>2. /\ rounds' \in [Round -> {"none", "open", "ended"}]
        /\ resolved' \in [Round -> Nat]
    <3>1. rounds' \in [Round -> {"none", "open", "ended"}]
      BY <1>7 DEF TypeOK
    <3>2. resolved' \in [Round -> Nat]
      BY <1>1, <1>7 DEF TypeOK
    <3> QED
      BY <3>1, <3>2
  <2>3. TypeOK'
    BY <1>3, <1>4, <1>7, <2>2, QuietFrame DEF TypeOK
  <2>4. \A s \in Slot : req'[s].op \in Critical => req'[s] = req[s] /\ s # r
    BY <1>3, QuietFrame
  <2>5. RequestsNameRounds'
    BY <2>4 DEF RequestsNameRounds, Critical
  <2>6. LockExclusive'
    BY <2>4 DEF LockExclusive, Critical
  <2>7. ResolvingOpen'
    <3> SUFFICES ASSUME NEW s \in Slot, req'[s].op = "resolve"
                 PROVE  rounds'[req'[s].round] = "open"
      BY DEF ResolvingOpen
    <3>1. req'[s] = req[s] /\ s # r /\ req[s].op = "resolve"
      BY <2>4 DEF Critical, LockOp
    <3>2. req[s].round # n
      BY <3>1 DEF ResolveCommit, LockExclusive, LockOp
    <3> QED
      BY <2>1, <3>1, <3>2 DEF RequestsNameRounds, ResolvingOpen, LockOp
  <2>8. RoundsNumbered'
    BY <1>1, <1>7, <2>1 DEF RoundsNumbered
  <2>9. SelectingNext'
    <3> SUFFICES ASSUME NEW s \in Slot, req'[s].op = "select"
                 PROVE  /\ req'[s].user = Picker(req'[s].round)
                        /\ \A k \in Round :
                                k < req'[s].round => rounds'[k] # "none"
                        /\ rounds'[req'[s].round] = "none" =>
                                hands'[req'[s].user].cards > 0
      BY DEF SelectingNext
    <3>1. req'[s] = req[s] /\ req[s].op = "select"
      BY <2>4 DEF Critical
    <3> QED
      BY <1>1, <1>3, <2>1, <3>1 DEF SelectingNext, RequestsNameRounds
  <2>10. RoundResolvedOnce'
    BY <1>1, <2>1 DEF RoundResolvedOnce
  <2> QED
    BY <2>3, <2>5, <2>6, <2>7, <2>8, <2>9, <2>10
<1>8. ASSUME o = "none", ResolutionAccepted(o)
      PROVE  /\ match' \in MatchRow /\ match'.round = match.round
             /\ timers' \in [Timer -> TimerRow]
             /\ active' \in [Player -> BOOLEAN] /\ settled' \in Nat
  <2>1. "round_results" \in Status
    BY DEF Status, Playing
  <2>2. StatusWrite
    BY <1>2, <1>8, <2>1, VersionType DEF StatusWrite, o, h
  <2>3. timers' = Start(<<"round_results", n>>, {"score_submission"})
    BY <1>2, <1>8 DEF o, h
  <2>4. UNCHANGED <<active, settled>>
    BY <1>2, <1>8 DEF o, h
  <2> QED
    BY <2>2, <2>3, <2>4, StatusWriteType, TimersType DEF TypeOK
<1>9. ASSUME o # "none", ResolutionAccepted(o)
      PROVE  /\ match' \in MatchRow /\ match'.round = match.round
             /\ timers' \in [Timer -> TimerRow]
             /\ active' \in [Player -> BOOLEAN] /\ settled' \in Nat
  <2> DEFINE winner == IF o = "draw" THEN Nobody ELSE o
  <2>1. winner \in Player \cup {Nobody}
    BY <1>5, <1>9
  <2>2. Settle(req[r].version, winner)
    BY <1>2, <1>9 DEF o, h
  <2>3. req[r].version \in Nat
    BY DEF TypeOK, Request
  <2> QED
    BY <2>1, <2>2, <2>3, SettleType
<1> QED
  <2>1. \/ UNCHANGED <<match, timers, health, rounds, resolved, active,
                       settled>>
        \/ /\ ResolutionAccepted(o)
           /\ health' = h
           /\ rounds' = [rounds EXCEPT ![n] = "ended"]
           /\ resolved' = [resolved EXCEPT ![n] = @ + 1]
    BY <1>2 DEF o, h
  <2> QED
    BY <1>6, <1>7, <1>8, <1>9, <2>1

\* A skipped timer changes a timer row only.
LEMMA SkipTimerInv ==
    ASSUME NEW t \in Timer, EngineInv, SkipTimer(t)
    PROVE  EngineInv'
<1> USE DEF EngineInv
<1>1. timers' \in [Timer -> TimerRow]
  BY SetType DEF SkipTimer, TimerStatus
<1>2. TypeOK'
  BY <1>1 DEF SkipTimer, TypeOK
<1> QED
  BY <1>2 DEF SkipTimer, RequestsNameRounds, LockExclusive, ResolvingOpen,
              RoundsNumbered, SelectingNext, RoundResolvedOnce

\* A stuttering step changes nothing.
LEMMA StutterInv == ASSUME EngineInv, UNCHANGED vars PROVE EngineInv'
BY DEF EngineInv, vars, TypeOK, RequestsNameRounds, LockExclusive,
       ResolvingOpen, RoundsNumbered, SelectingNext, RoundResolvedOnce

\* A match is created with an empty history.
LEMMA InitInv == ASSUME Init PROVE EngineInv
<1> USE MatchEngineAssumption DEF Init
<1>1. \A r \in Slot : req[r].op \notin Critical
  BY IdleQuiet
<1>2. match \in MatchRow /\ match.round = 0
  BY DEF MatchRow, Status, Playing, Terminal
<1>3. timers \in [Timer -> TimerRow]
  BY DEF TimerRow, TimerStatus, Row
<1>4. hands \in [Player -> HandRow]
  BY DEF HandRow
<1>5. req \in [Slot -> Request]
  BY IdleQuiet
<1>6. TypeOK
  <2>1. health \in [Player -> 0 .. StartHealth] /\ crashes \in 0 .. MaxCrashes
    OBVIOUS
  <2>2. /\ rounds \in [Round -> {"none", "open", "ended"}]
        /\ scores \in [Round -> [Player -> {"none", "played", "timed_out"}]]
        /\ resolved \in [Round -> Nat]
    OBVIOUS
  <2>3. active \in [Player -> BOOLEAN] /\ settled \in Nat
    OBVIOUS
  <2> QED
    BY <1>2, <1>3, <1>4, <1>5, <2>1, <2>2, <2>3 DEF TypeOK
<1>7. RequestsNameRounds /\ LockExclusive /\ ResolvingOpen /\ SelectingNext
  BY <1>1
  DEF RequestsNameRounds, LockExclusive, ResolvingOpen, SelectingNext,
      Critical, LockOp
<1>8. RoundsNumbered /\ RoundResolvedOnce
  BY <1>2 DEF RoundsNumbered, RoundResolvedOnce, Round
<1> QED
  BY <1>6, <1>7, <1>8 DEF EngineInv

-----------------------------------------------------------------------------
\* Every step of the engine keeps the invariant.
LEMMA StepInv == ASSUME EngineInv, [Next]_vars PROVE EngineInv'
<1>1. ASSUME NEW r \in Slot, NEW p \in Player,
             \/ DiscardBegin(r, p) \/ SelectBegin(r, p)
             \/ \E n \in Round : SubmitBegin(r, p, n)
             \/ ForfeitBegin(r, p)
      PROVE  EngineInv'
  BY <1>1, DiscardBeginInv, SelectBeginInv, SubmitBeginInv, ForfeitBeginInv
<1>2. ASSUME NEW r \in Slot, AbortBegin(r) \/ PauseBegin(r) \/ ResumeBegin(r)
      PROVE  EngineInv'
  BY <1>2, AbortBeginInv, PauseBeginInv, ResumeBeginInv
<1>3. ASSUME NEW r \in Slot, Proceed(r)
      PROVE  EngineInv'
  BY <1>3, DiscardCommitInv, SelectCommitInv, SubmitCommitInv,
     ResolveBeginInv, ResolveCommitInv, ForfeitCommitInv, TransitionCommitInv,
     PauseMarkInv, PauseTransitionInv, PauseTimersInv, ResumeTransitionInv,
     ResumeClearInv, ResumeTimersInv DEF Proceed
<1>4. ASSUME NEW w \in Workers, Tick(w)
      PROVE  EngineInv'
  <2> USE DEF Slot
  <2>1. CASE \E t \in Timer : ClaimTimer(w, t)
    BY <2>1, ClaimTimerInv
  <2>2. CASE \E p \in Player : DiscardHandlerNext(w, p)
    BY <2>2, DiscardHandlerNextInv
  <2>3. CASE DiscardHandler(w) \/ DiscardHandlerEnd(w) \/ PickHandler(w)
             \/ AutoPick(w) \/ ScoreHandler(w) \/ ExpireCommit(w)
    BY <2>3, DiscardHandlerInv, DiscardHandlerEndInv, PickHandlerInv,
       AutoPickInv, ScoreHandlerInv, ExpireCommitInv
  <2>4. CASE ResultsHandler(w) \/ ResultsCommit(w) \/ Announce(w)
             \/ CompleteTimer(w) \/ RetryTimer(w)
    BY <2>4, ResultsHandlerInv, ResultsCommitInv, AnnounceInv,
       CompleteTimerInv, RetryTimerInv
  <2> QED
    BY <1>4, <2>1, <2>2, <2>3, <2>4 DEF Tick
<1>5. ASSUME NEW t \in Timer, SkipTimer(t)
      PROVE  EngineInv'
  BY <1>5, SkipTimerInv
<1>6. ASSUME NEW r \in Slot, Crash(r)
      PROVE  EngineInv'
  BY <1>6, CrashInv
<1>7. CASE UNCHANGED vars
  BY <1>7, StutterInv
<1> QED
  BY <1>1, <1>2, <1>3, <1>4, <1>5, <1>6, <1>7 DEF Next, Arrive, Slot

\* The inductive invariant holds in every reachable state, for every number of
\* clients and instances, hand size and kind of request.
THEOREM Invariance == Spec => []EngineInv
BY InitInv, StepInv, PTL DEF Spec

\* The rows keep their domains: no update drives the health, the cards or the
\* round of a match out of range.
THEOREM TypeCorrect == Spec => []TypeOK
BY Invariance, PTL DEF EngineInv

\* The rounds of a match are numbered 1 .. current_round, whatever pauses,
\* forfeits, retries and crashes interleave with selectMap.
THEOREM RoundsAreNumbered == Spec => []RoundsNumbered
BY Invariance, PTL DEF EngineInv

\* resolveRound applies the damage of each round once, however many submissions
\* and instances call it: the round's lock and ended_at are enough.
THEOREM DamageAppliedOnce == Spec => []RoundResolvedOnce
BY Invariance, PTL DEF EngineInv

-----------------------------------------------------------------------------
(* The result of a match is never undone.                                  *)

\* Every way in which a step writes the match row: not at all, a status that
\* a constraint lets through, the note of the phase before a pause, or a
\* result.
MatchWrite ==
    \/ match' = match
    \/ /\ StillPlayable \/ NoWinnerYet
       /\ match'.winner = match.winner
    \/ /\ match'.winner = match.winner
       /\ match'.status = match.status
    \/ match'.status = "completed"

\* A status write leaves the winner alone.
LEMMA StatusWriteKeepsWinner ==
    ASSUME TypeOK, StatusWrite
    PROVE  match'.winner = match.winner
BY DEF StatusWrite, TypeOK, MatchRow

\* Settling completes the match.
LEMMA SettleCompletes ==
    ASSUME TypeOK, NEW v, NEW w, Settle(v, w)
    PROVE  match'.status = "completed"
BY DEF Settle, TypeOK, MatchRow

\* A slot's commit writes the match in one of these ways.
LEMMA ProceedWrites ==
    ASSUME TypeOK, NEW r \in Slot, Proceed(r)
    PROVE  MatchWrite
<1>1. CASE DiscardCommit(r)
  <2>1. "awaiting_pick" \in Status
    BY DEF Status, Playing
  <2>2. match' = match \/ (StillPlayable /\ StatusWrite)
    BY <1>1, <2>1, VersionType DEF DiscardCommit, StatusWrite
  <2> QED
    BY <2>2, StatusWriteKeepsWinner DEF MatchWrite
<1>2. CASE SelectCommit(r)
  <2>1. \/ match' = match
        \/ /\ StillPlayable
           /\ match' = [match EXCEPT !.status = "awaiting_scores",
                                     !.round = req[r].round,
                                     !.version = req[r].version + 1]
    BY <1>2 DEF SelectCommit
  <2> QED
    BY <2>1 DEF MatchWrite, TypeOK, MatchRow
<1>3. CASE ResolveCommit(r)
  <2>1. "round_results" \in Status
    BY DEF Status, Playing
  <2>2. \/ match' = match
        \/ StillPlayable /\ StatusWrite
        \/ \E v, w : Settle(v, w)
    BY <1>3, <2>1, VersionType
    DEF ResolveCommit, ResolutionAccepted, StatusWrite
  <2> QED
    BY <2>2, StatusWriteKeepsWinner, SettleCompletes DEF MatchWrite
<1>4. CASE ForfeitCommit(r)
  BY <1>4, SettleCompletes DEF ForfeitCommit, MatchWrite
<1>5. CASE TransitionCommit(r)
  <2>1. req[r].status \in Status
    BY DEF TypeOK, Request
  <2>2. match' = match \/ (NoWinnerYet /\ StatusWrite)
    BY <1>5, <2>1, VersionType DEF TransitionCommit, StatusWrite
  <2> QED
    BY <2>2, StatusWriteKeepsWinner DEF MatchWrite
<1>6. CASE PauseMark(r) \/ ResumeClear(r)
  BY <1>6 DEF PauseMark, ResumeClear, MatchWrite, TypeOK, MatchRow
<1>7. CASE SubmitCommit(r) \/ ResolveBegin(r)
  BY <1>7 DEF SubmitCommit, ResolveBegin, MatchWrite
<1>8. CASE PauseTransition(r) \/ PauseTimers(r) \/ ResumeTransition(r)
            \/ ResumeTimers(r)
  BY <1>8 DEF PauseTransition, PauseTimers, ResumeTransition, ResumeTimers,
              MatchWrite
<1> QED
  BY <1>1, <1>2, <1>3, <1>4, <1>5, <1>6, <1>7, <1>8 DEF Proceed

\* So does every step.
LEMMA StepWrites ==
    ASSUME TypeOK, [Next]_vars
    PROVE  MatchWrite
<1>1. ASSUME NEW r \in Clients, Arrive(r)
      PROVE  match' = match
  BY <1>1 DEF Arrive, DiscardBegin, SelectBegin, SubmitBegin, ForfeitBegin,
              AbortBegin, PauseBegin, ResumeBegin
<1>2. ASSUME NEW w \in Workers, Tick(w)
      PROVE  MatchWrite
  <2>1. CASE ResultsCommit(w)
    <3>1. "awaiting_pick" \in Status
      BY DEF Status, Playing
    <3>2. match' = match \/ (StillPlayable /\ StatusWrite)
      BY <2>1, <3>1, VersionType DEF ResultsCommit, StatusWrite, Slot
    <3> QED
      BY <3>2, StatusWriteKeepsWinner DEF MatchWrite
  <2>2. CASE ~ResultsCommit(w)
    <3>1. match' = match
      BY <1>2, <2>2
      DEF Tick, ClaimTimer, DiscardHandler, DiscardHandlerNext,
          DiscardHandlerEnd, PickHandler, AutoPick, ScoreHandler,
          ExpireCommit, ResultsHandler, Announce, CompleteTimer, RetryTimer
    <3> QED
      BY <3>1 DEF MatchWrite
  <2> QED
    BY <2>1, <2>2
<1>3. ASSUME NEW t \in Timer, SkipTimer(t)
      PROVE  match' = match
  BY <1>3 DEF SkipTimer
<1>4. ASSUME NEW r \in Slot, Crash(r)
      PROVE  match' = match
  BY <1>4 DEF Crash
<1>5. CASE UNCHANGED vars
  BY <1>5 DEF vars, MatchWrite
<1> QED
  BY <1>1, <1>2, <1>3, <1>4, <1>5, ProceedWrites DEF Next, MatchWrite

\* None of these writes takes a decided match out of "completed", so a match
\* that has a winner is completed from then on.
LEMMA WriteKeepsResult ==
    ASSUME TypeOK, WinnerOnlyWhenCompleted, MatchWrite
    PROVE  /\ match.winner # Nobody => match'.status = "completed"
           /\ WinnerOnlyWhenCompleted'
BY DEF WinnerOnlyWhenCompleted, MatchWrite, StillPlayable, NoWinnerYet,
       Terminal

\* A match has a winner only while it is completed: the unconditional updates
\* that would break this are the ones a constraint of schema.ts rejects.
THEOREM ResultIsConsistent == Spec => []WinnerOnlyWhenCompleted
<1>1. Init => WinnerOnlyWhenCompleted
  BY DEF Init, WinnerOnlyWhenCompleted
<1>2. TypeOK /\ WinnerOnlyWhenCompleted /\ [Next]_vars
        => WinnerOnlyWhenCompleted'
  BY StepWrites, WriteKeepsResult
<1> QED
  BY <1>1, <1>2, TypeCorrect, PTL DEF Spec

\* No pick, resolution, results display, resume, pause or abort that read the
\* match before its end reopens a match that has got a winner meanwhile.
THEOREM DecidedIsFinal == Spec => DecidedStaysCompleted
<1>1. TypeOK /\ WinnerOnlyWhenCompleted /\ [Next]_vars
        => [match.winner # Nobody => match'.status = "completed"]_vars
  BY StepWrites, WriteKeepsResult
<1> QED
  BY <1>1, TypeCorrect, ResultIsConsistent, PTL
  DEF Spec, DecidedStaysCompleted

-----------------------------------------------------------------------------
(* A completed match is closed: its players are free, its timers are over. *)
(* Requests in flight name no "completed" of their own (ClosedInv), so only *)
(* a settlement completes a match.                                         *)

\* The next request of a slot names no result.
NextNamesNoResult(r) == \E y : Goto(r, y) /\ NamesNoResult(y)

\* Nor does any request that is built from Idle without a status.
LEMMA PlainRequests ==
    ASSUME NEW r \in Slot, NEW op, NEW ok, NEW p, NEW n, NEW rest
    PROVE  /\ NamesNoResult(Idle)
           /\ NamesNoResult(Busy(r, op))
           /\ NamesNoResult(After(r, ok))
           /\ NamesNoResult(DiscardDone(r))
           /\ NamesNoResult(DiscardTx(r, p, rest))
           /\ NamesNoResult(SelectTx(r, p))
           /\ NamesNoResult([Busy(r, op) EXCEPT !.user = p])
           /\ NamesNoResult([Busy(r, op) EXCEPT !.round = n])
           /\ NamesNoResult([Busy(r, op) EXCEPT !.version = n])
           /\ NamesNoResult([Busy(r, op) EXCEPT !.pending = rest])
           /\ NamesNoResult([Busy(r, op) EXCEPT !.user = p, !.round = n])
           /\ NamesNoResult([Busy(r, op) EXCEPT !.user = p, !.version = n])
           /\ NamesNoResult([Busy(r, op) EXCEPT !.round = n, !.version = p])
           /\ NamesNoResult([Busy(r, op) EXCEPT !.round = n, !.pending = rest])
<1>1. /\ NamesNoResult(Idle)
      /\ NamesNoResult(Busy(r, op))
      /\ NamesNoResult(After(r, ok))
  BY DEF After, Busy, Idle, NamesNoResult
<1>2. /\ NamesNoResult([Busy(r, op) EXCEPT !.user = p])
      /\ NamesNoResult([Busy(r, op) EXCEPT !.round = n])
      /\ NamesNoResult([Busy(r, op) EXCEPT !.version = n])
      /\ NamesNoResult([Busy(r, op) EXCEPT !.pending = rest])
  BY DEF Busy, Idle, NamesNoResult
<1>3. /\ NamesNoResult([Busy(r, op) EXCEPT !.user = p, !.round = n])
      /\ NamesNoResult([Busy(r, op) EXCEPT !.user = p, !.version = n])
      /\ NamesNoResult([Busy(r, op) EXCEPT !.round = n, !.version = p])
      /\ NamesNoResult([Busy(r, op) EXCEPT !.round = n, !.pending = rest])
  BY DEF Busy, Idle, NamesNoResult
<1>4. NamesNoResult(DiscardTx(r, p, rest)) /\ NamesNoResult(SelectTx(r, p))
  BY DEF DiscardTx, SelectTx, Busy, Idle, NamesNoResult
<1>5. NamesNoResult(DiscardDone(r))
  BY <1>1 DEF DiscardDone, Busy, Idle, NamesNoResult
<1> QED
  BY <1>1, <1>2, <1>3, <1>4, <1>5

\* A request that begins names none, ...
LEMMA ArriveNamesNoResult ==
    ASSUME ClosedInv, NEW r \in Slot, Arrive(r)
    PROVE  NextNamesNoResult(r)
<1>1. ASSUME NEW p \in Player, NEW n \in Round,
             DiscardBegin(r, p) \/ SelectBegin(r, p) \/ SubmitBegin(r, p, n)
                \/ ForfeitBegin(r, p)
      PROVE  NextNamesNoResult(r)
  BY <1>1, PlainRequests
  DEF DiscardBegin, SelectBegin, SubmitBegin, ForfeitBegin, NextNamesNoResult
<1>2. CASE AbortBegin(r)
  <2>1. NamesNoResult(TransitionTx(r, "aborted"))
    BY DEF TransitionTx, Busy, Idle, NamesNoResult
  <2> QED
    BY <1>2, <2>1 DEF AbortBegin, NextNamesNoResult
<1>3. CASE PauseBegin(r) \/ ResumeBegin(r)
  <2>1. ASSUME NEW op, NEW status, status # "completed"
        PROVE  NamesNoResult([Busy(r, op) EXCEPT !.status = status,
                                                 !.version = match.version])
    BY <2>1 DEF Busy, Idle, NamesNoResult
  <2> QED
    BY <1>3, <2>1
    DEF PauseBegin, ResumeBegin, Terminal, ClosedInv, NextNamesNoResult
<1>4. Round # {}
  BY MatchEngineAssumption DEF Round
<1> QED
  BY <1>1, <1>2, <1>3, <1>4 DEF Arrive

\* ... a slot that goes on hands itself none, not even a resume, since the phase
\* before a pause is never "completed", ...
LEMMA ProceedNamesNoResult ==
    ASSUME TypeOK, ClosedInv, NEW r \in Slot, Proceed(r)
    PROVE  NextNamesNoResult(r)
<1> USE PlainRequests DEF NextNamesNoResult
<1>1. CASE DiscardCommit(r) \/ SelectCommit(r)
  BY <1>1 DEF DiscardCommit, SelectCommit
<1>2. CASE SubmitCommit(r)
  BY <1>2 DEF SubmitCommit
<1>3. CASE ResolveBegin(r)
  BY <1>3 DEF ResolveBegin
<1>4. CASE ResolveCommit(r)
  BY <1>4 DEF ResolveCommit
<1>5. CASE ForfeitCommit(r) \/ TransitionCommit(r)
  BY <1>5 DEF ForfeitCommit, TransitionCommit
<1>6. CASE PauseMark(r) \/ PauseTimers(r) \/ ResumeClear(r) \/ ResumeTimers(r)
  BY <1>6 DEF PauseMark, PauseTimers, ResumeClear, ResumeTimers
<1>7. CASE PauseTransition(r) \/ ResumeTransition(r)
  <2>1. ASSUME NEW status, status # "completed"
        PROVE  NamesNoResult(TransitionTx(r, status))
    BY <2>1 DEF TransitionTx, Busy, Idle, NamesNoResult
  <2>2. req[r].op = "resume_tx" => req[r].status # "completed"
    BY DEF ClosedInv, NamesNoResult
  <2> QED
    BY <1>7, <2>1, <2>2 DEF PauseTransition, ResumeTransition
<1> QED
  BY <1>1, <1>2, <1>3, <1>4, <1>5, <1>6, <1>7 DEF Proceed

\* ... and neither does the loop of an instance.
LEMMA TickNamesNoResult ==
    ASSUME NEW w \in Workers, Tick(w)
    PROVE  NextNamesNoResult(w)
<1> USE PlainRequests DEF NextNamesNoResult, Slot
<1>1. ASSUME NEW t \in Timer, ClaimTimer(w, t)
      PROVE  NextNamesNoResult(w)
  <2>1. NamesNoResult([Idle EXCEPT !.op = "claimed", !.timer = t])
    BY DEF Idle, NamesNoResult
  <2> QED
    BY <1>1, <2>1 DEF ClaimTimer
<1>2. CASE \/ DiscardHandler(w) \/ DiscardHandlerEnd(w)
           \/ \E p \in Player : DiscardHandlerNext(w, p)
  BY <1>2 DEF DiscardHandler, DiscardHandlerNext, DiscardHandlerEnd
<1>3. CASE PickHandler(w) \/ AutoPick(w) \/ ScoreHandler(w)
  BY <1>3 DEF PickHandler, AutoPick, ScoreHandler
<1>4. CASE ExpireCommit(w) \/ Announce(w) \/ CompleteTimer(w) \/ RetryTimer(w)
  BY <1>4 DEF ExpireCommit, Announce, CompleteTimer, RetryTimer
<1>5. CASE ResultsHandler(w) \/ ResultsCommit(w)
  BY <1>5 DEF ResultsHandler, ResultsCommit
<1> QED
  BY <1>1, <1>2, <1>3, <1>4, <1>5 DEF Tick

\* Every way in which a step changes what a completed match consists of: it
\* settles the match and cancels its timers; or the match is not completed
\* afterwards; or status and participants stay, and no timer becomes live.
Settling ==
    /\ match'.before = match.before
    /\ \A p \in Player : ~active'[p]
    /\ \A t \in Timer : timers'[t].status \notin Live
NotCompleting == match'.status # "completed" /\ match'.before = match.before
Reviving == \E t \in Timer : timers'[t].status \in Live
                                /\ timers[t].status \notin Live
OnlyTimers ==
    /\ match'.status = match.status
    /\ match'.before # "completed"
    /\ active' = active
    /\ ~Reviving

\* Each of these ways keeps a completed match closed.
LEMMA WriteCloses ==
    ASSUME ClosedInv, Settling \/ NotCompleting \/ OnlyTimers
    PROVE  /\ EndedMatchIsClosed'
           /\ match'.before # "completed"
<1>1. CASE Settling
  BY <1>1 DEF Settling, ClosedInv, EndedMatchIsClosed
<1>2. CASE NotCompleting
  BY <1>2 DEF NotCompleting, ClosedInv, EndedMatchIsClosed
<1>3. CASE OnlyTimers
  BY <1>3 DEF OnlyTimers, Reviving, ClosedInv, EndedMatchIsClosed
<1> QED
  BY <1>1, <1>2, <1>3

\* Settling a match releases its players and cancels all its timers.
LEMMA SettleCloses ==
    ASSUME TypeOK, NEW v, NEW w, Settle(v, w)
    PROVE  Settling
<1>1. match'.before = match.before /\ \A p \in Player : ~active'[p]
  BY DEF Settle, TypeOK, MatchRow
<1>2. \A t \in Timer : t[1] \in AllKinds
  BY DEF Timer, AllKinds
<1>3. \A t \in Timer : timers'[t].status \notin Live
  BY <1>2 DEF Settle, Cancelled, Row, Live
<1> QED
  BY <1>1, <1>3 DEF Settling

\* Writing any other status does not complete a match.
LEMMA StatusNotCompleted ==
    ASSUME TypeOK, NEW status, status # "completed", NEW v, NEW n,
           \/ match' = [match EXCEPT !.status = status, !.version = v]
           \/ match' = [match EXCEPT !.status = status, !.round = n,
                                     !.version = v]
    PROVE  NotCompleting
BY DEF NotCompleting, TypeOK, MatchRow

\* Whatever a slot goes on with changes the match in one of these ways, ...
LEMMA ProceedCloses ==
    ASSUME TypeOK, ClosedInv, NEW r \in Slot, Proceed(r)
    PROVE  Settling \/ NotCompleting \/ OnlyTimers
<1> USE DEF ClosedInv
<1>0. ASSUME match' = match, active' = active, timers' = timers
      PROVE  OnlyTimers
  BY <1>0 DEF OnlyTimers, Reviving
<1>1. CASE DiscardCommit(r)
  BY <1>0, <1>1, StatusNotCompleted DEF DiscardCommit
<1>2. CASE SelectCommit(r)
  <2>1. \/ UNCHANGED <<match, active, timers>>
        \/ match' = [match EXCEPT !.status = "awaiting_scores",
                                  !.round = req[r].round,
                                  !.version = req[r].version + 1]
    BY <1>2 DEF SelectCommit
  <2> QED
    BY <1>0, <2>1, StatusNotCompleted
<1>3. CASE SubmitCommit(r) \/ ResolveBegin(r) \/ PauseTransition(r)
            \/ ResumeTransition(r)
  BY <1>0, <1>3 DEF SubmitCommit, ResolveBegin, PauseTransition,
                    ResumeTransition
<1>4. CASE ResolveCommit(r)
  <2>1. \/ UNCHANGED <<match, active, timers>>
        \/ match' = [match EXCEPT !.status = "round_results",
                                  !.version = req[r].version + 1]
        \/ \E v, w : Settle(v, w)
    BY <1>4 DEF ResolveCommit
  <2> QED
    BY <1>0, <2>1, StatusNotCompleted, SettleCloses
<1>5. CASE ForfeitCommit(r)
  BY <1>0, <1>5, SettleCloses DEF ForfeitCommit
<1>6. CASE TransitionCommit(r)
  <2>1. req[r].status # "completed"
    BY <1>6 DEF TransitionCommit, NamesNoResult
  <2> QED
    BY <1>0, <1>6, <2>1, StatusNotCompleted DEF TransitionCommit
<1>7. CASE PauseMark(r) \/ ResumeClear(r)
  <2>1. req[r].op = "pause_mark" => req[r].status # "completed"
    BY DEF NamesNoResult
  <2>2. match'.status = match.status /\ match'.before # "completed"
    BY <1>7, <2>1 DEF PauseMark, ResumeClear, TypeOK, MatchRow
  <2> QED
    BY <1>7, <2>2 DEF PauseMark, ResumeClear, OnlyTimers, Reviving
<1>8. CASE PauseTimers(r) \/ ResumeTimers(r)
  <2>1. ~Reviving
    BY <1>8 DEF PauseTimers, ResumeTimers, Reviving, Scheduled, Row, Live
  <2> QED
    BY <1>8, <2>1 DEF PauseTimers, ResumeTimers, OnlyTimers
<1> QED
  BY <1>1, <1>2, <1>3, <1>4, <1>5, <1>6, <1>7, <1>8 DEF Proceed

\* ... and so does what the loop of an instance adds.
LEMMA TickCloses ==
    ASSUME TypeOK, ClosedInv, NEW w \in Workers, Tick(w)
    PROVE  NotCompleting \/ OnlyTimers
<1> USE DEF ClosedInv
<1>1. CASE \E t \in Timer : ClaimTimer(w, t)
  <2>1. ~Reviving
    BY <1>1 DEF ClaimTimer, Due, Reviving, Live
  <2> QED
    BY <1>1, <2>1 DEF ClaimTimer, OnlyTimers
<1>2. CASE CompleteTimer(w) \/ RetryTimer(w)
  <2>1. \/ timers' = timers
        \/ /\ HoldsLease(w)
           /\ \E s \in TimerStatus : Set(req[w].timer, s)
    BY <1>2 DEF CompleteTimer, RetryTimer, TimerStatus
  <2>2. HoldsLease(w) => timers[req[w].timer].status = "processing"
    BY DEF HoldsLease
  <2>3. ~Reviving
    BY <2>1, <2>2 DEF Set, Reviving, Live, TypeOK
  <2> QED
    BY <1>2, <2>3 DEF CompleteTimer, RetryTimer, OnlyTimers
<1>3. CASE ResultsCommit(w)
  BY <1>3, StatusNotCompleted DEF ResultsCommit, OnlyTimers, Reviving
<1>4. CASE \/ DiscardHandler(w) \/ DiscardHandlerEnd(w) \/ PickHandler(w)
           \/ AutoPick(w) \/ ScoreHandler(w) \/ ExpireCommit(w)
           \/ ResultsHandler(w) \/ Announce(w)
           \/ \E p \in Player : DiscardHandlerNext(w, p)
  <2>1. UNCHANGED <<match, active, timers>>
    BY <1>4 DEF DiscardHandler, DiscardHandlerNext, DiscardHandlerEnd,
                PickHandler, AutoPick, ScoreHandler, ExpireCommit,
                ResultsHandler, Announce
  <2> QED
    BY <2>1 DEF OnlyTimers, Reviving
<1> QED
  BY <1>1, <1>2, <1>3, <1>4 DEF Tick

\* The invariant is inductive.
LEMMA StepCloses ==
    ASSUME TypeOK, ClosedInv, [Next]_vars
    PROVE  ClosedInv'
<1>1. ASSUME NEW r \in Slot, NextNamesNoResult(r)
      PROVE  (\A s \in Slot : NamesNoResult(req[s]))'
  BY <1>1 DEF NextNamesNoResult, TypeOK, Goto, ClosedInv, NamesNoResult
<1>2. ASSUME UNCHANGED req
      PROVE  (\A s \in Slot : NamesNoResult(req[s]))'
  BY <1>2 DEF ClosedInv, NamesNoResult
<1>3. ASSUME UNCHANGED <<match, active, timers>>
      PROVE  OnlyTimers
  BY <1>3 DEF OnlyTimers, Reviving, ClosedInv
<1>4. ASSUME NEW r \in Clients, Arrive(r)
      PROVE  ClosedInv'
  <2>1. UNCHANGED <<match, active, timers>>
    BY <1>4 DEF Arrive, DiscardBegin, SelectBegin, SubmitBegin, ForfeitBegin,
                AbortBegin, PauseBegin, ResumeBegin
  <2> QED
    BY <1>1, <1>3, <1>4, <2>1, ArriveNamesNoResult, WriteCloses
    DEF ClosedInv, Slot
<1>5. ASSUME NEW r \in Slot, Proceed(r)
      PROVE  ClosedInv'
  BY <1>1, <1>5, ProceedNamesNoResult, ProceedCloses, WriteCloses
  DEF ClosedInv
<1>6. ASSUME NEW w \in Workers, Tick(w)
      PROVE  ClosedInv'
  BY <1>1, <1>6, TickNamesNoResult, TickCloses, WriteCloses DEF ClosedInv, Slot
<1>7. ASSUME NEW t \in Timer, SkipTimer(t)
      PROVE  ClosedInv'
  <2>1. ~Reviving
    BY <1>7 DEF SkipTimer, Set, Row, Reviving, Live
  <2>2. OnlyTimers
    BY <1>7, <2>1 DEF SkipTimer, OnlyTimers, ClosedInv
  <2> QED
    BY <1>2, <1>7, <2>2, WriteCloses DEF SkipTimer, ClosedInv
<1>8. ASSUME NEW r \in Slot, Crash(r)
      PROVE  ClosedInv'
  <2>1. NextNamesNoResult(r)
    BY <1>8 DEF Crash, NextNamesNoResult, Idle, NamesNoResult
  <2> QED
    BY <1>1, <1>3, <1>8, <2>1, WriteCloses DEF Crash, ClosedInv
<1>9. CASE UNCHANGED vars
  BY <1>2, <1>3, <1>9, WriteCloses DEF vars, ClosedInv
<1> QED
  BY <1>4, <1>5, <1>6, <1>7, <1>8, <1>9 DEF Next

\* Whatever pauses, aborts, skips, take-overs and crashes run into the end of a
\* match, no request in flight can complete it by a name of its own, and a
\* completed match is closed: the invariant that `moderated` checks (code: only the
\* writes of forfeitMatch and of the resolution of a round do).
THEOREM ClosedInvariance == Spec => []ClosedInv
<1>1. Init => ClosedInv
  BY DEF Init, ClosedInv, EndedMatchIsClosed, NamesNoResult, Idle
<1>2. TypeOK /\ ClosedInv /\ [Next]_vars => ClosedInv'
  BY StepCloses
<1> QED
  BY <1>1, <1>2, TypeCorrect, PTL DEF Spec

\* A completed match has released both players and has no timer left to claim,
\* pause or resume, whatever pauses, aborts, skips, take-overs and crashes ran
\* into its end: only the writes of Settle complete a match.
THEOREM CompletedMatchIsClosed == Spec => []EndedMatchIsClosed
<1>1. ClosedInv => EndedMatchIsClosed
  BY DEF ClosedInv
<1> QED
  BY <1>1, ClosedInvariance, PTL
=============================================================================
