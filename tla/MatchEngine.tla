----------------------------- MODULE MatchEngine -----------------------------
(***************************************************************************)
(* One match of the CompCube server, as the rows of its database tables    *)
(* and the transactions that work on them: gameplay.service.ts,            *)
(* match.service.ts and the timer handlers of wsManager.ts.                *)
(*                                                                         *)
(* PostgreSQL runs at READ COMMITTED, so a transaction is two steps of the *)
(* slot that executes it: a Begin step takes the advisory lock and reads   *)
(* the rows that the code decides on, a Commit step writes every row at    *)
(* once or, when a constraint of schema.ts rejects a write, none of them.  *)
(* Between the two, any other slot may commit. A request that is refused   *)
(* changes nothing and is not a step.                                      *)
(*                                                                         *)
(* Time is abstract: a scheduled timer may be claimed at any moment, since *)
(* its deadline may have passed or a participant may have skipped it; a    *)
(* lease may expire as soon as it is taken.                                *)
(***************************************************************************)
EXTENDS Naturals, FiniteSets

CONSTANTS Clients,      \* slots that run packets and REST requests
          Workers,      \* slots that run due timers, one per server instance
          Nobody,       \* "no lease owner"
          HandSize,     \* cards dealt to each player (5 in the code)
          StartHealth,  \* whole units of health at the start
          Enabled,      \* the optional kinds of request that are issued
          DiscardsOverlap, \* may the two discard transactions overlap?
          MaxVersion,   \* bound: no pause starts at or above this version
          MaxCrashes    \* bound on the crashes of a slot

Player == {"red", "blue"}
Kinds == {"forfeit", "pause", "abort"}

ASSUME MatchEngineAssumption ==
    /\ Clients \cap Workers = {}
    /\ Nobody \notin Workers \cup Player
    /\ HandSize \in Nat \ {0}
    /\ StartHealth \in Nat \ {0}
    /\ Enabled \subseteq Kinds
    /\ DiscardsOverlap \in BOOLEAN
    /\ MaxVersion \in Nat
    /\ MaxCrashes \in Nat

Slot == Clients \cup Workers
Other(p) == IF p = "red" THEN "blue" ELSE "red"
Round == 1 .. (2 * HandSize)
RedOnly(n) == "red"   \* mutant: the players do not take turns
Picker(n) == IF n % 2 = 1 THEN "red" ELSE "blue"

Terminal == {"completed", "aborted"}
Playing == {"awaiting_discards", "awaiting_pick", "awaiting_scores",
            "round_results"}
Status == Playing \cup Terminal \cup {"paused"}

\* A timer is named by its idempotency key: its kind and its round.
Timer == {<<"discard", 0>>}
            \cup ({"pick", "score_submission", "round_results"} \X Round)
NoTimer == <<"none", 0>>
TimerStatus == {"none", "scheduled", "processing", "paused", "completed",
                "cancelled", "failed"}
Live == {"scheduled", "processing", "paused"}

MatchRow == [status : Status, before : Status \cup {"none"}, version : Nat,
             round : {0} \cup Round, winner : Player \cup {Nobody}]
HandRow == [discarded : BOOLEAN, cards : 0 .. HandSize]
TimerRow == [status : TimerStatus, owner : Workers \cup {Nobody}]

VARIABLES
    match,     \* the row of matches
    hands,     \* match_hands and the active rows of match_hand_maps
    active,    \* match_participants.active
    health,    \* match_participants.health
    rounds,    \* match_rounds: absent, open or ended
    scores,    \* match_scores: absent, played or defaulted at the deadline
    timers,    \* match_timers by idempotency key: status and lease_owner
    req,       \* what each slot is executing, with the rows it has read
    resolved,  \* history: how often each round's damage was applied
    settled,   \* history: how often a result was written to the statistics
    crashes

vars == <<match, hands, active, health, rounds, scores, timers, req, resolved,
         settled, crashes>>

-----------------------------------------------------------------------------
(* What a slot can be doing. The first four hold a transaction that took   *)
(* an advisory lock.                                                       *)
Op == {"discard", "submit", "expire", "resolve", "results",
       "idle", "select", "forfeit", "transition",
       "to_resolve", "announce", "discards", "auto_pick",
       "claimed", "handled", "threw",
       "pause_mark", "pause_tx", "pause_timers",
       "resume_tx", "resume_clear", "resume_timers"}

Request == [op : Op, user : Player, round : {0} \cup Round, version : Nat,
            status : Status, ready : BOOLEAN, pending : SUBSET Player,
            timer : Timer \cup {NoTimer}]

Idle == [op |-> "idle", user |-> "red", round |-> 0, version |-> 0,
         status |-> "paused", ready |-> FALSE, pending |-> {},
         timer |-> NoTimer]

\* The slot goes on with op, keeping the timer whose handler it runs, if any.
Busy(r, op) == [Idle EXCEPT !.op = op, !.timer = req[r].timer]

\* The operation of a slot is over: a client's request has been answered, a
\* worker's handler has returned (ok) or thrown.
After(r, ok) == IF req[r].timer = NoTimer THEN Idle
                ELSE Busy(r, IF ok THEN "handled" ELSE "threw")

Goto(r, record) == req' = [req EXCEPT ![r] = record]

\* A timer row that nobody has claimed. The owner column is read only while
\* the status is processing, so every other status is written with Nobody.
Row(status) == [status |-> status, owner |-> Nobody]
Set(t, status) == timers' = [timers EXCEPT ![t] = Row(status)]
Scheduled == Row("scheduled")

\* The cancellation of a match's live timers, of the kinds given.
Cancelled(kinds) ==
    [t \in Timer |-> IF t[1] \in kinds /\ timers[t].status \in Live
                     THEN Row("cancelled") ELSE timers[t]]
AllKinds == {"discard", "pick", "score_submission", "round_results"}

\* match_timers_pause_consistency: paused_remaining_ms is set exactly while the
\* status is paused. A cancellation leaves that column alone, so it is rejected,
\* with its whole transaction, when it meets a paused timer.
Cancellable(kinds) ==
    \A t \in Timer : t[1] \in kinds => timers[t].status # "paused"

\* A new phase cancels the old phase's timers and inserts its own.
OnePerKind(t, kinds) ==   \* mutant: the key does not name the round
    IF \E u \in Timer : u[1] = t[1] /\ timers[u].status # "none"
    THEN Cancelled(kinds) ELSE [Cancelled(kinds) EXCEPT ![t] = Scheduled]
Start(t, kinds) == [Cancelled(kinds) EXCEPT ![t] = Scheduled]

\* pg_advisory_xact_lock(hashtext(roundGuid))
NoRoundLock(n) == TRUE   \* mutant: the lock is not taken
RoundLockFree(n) ==
    \A s \in Slot : ~(req[s].op \in {"submit", "expire", "resolve"}
                      /\ req[s].round = n)
\* pg_advisory_xact_lock(hashtext(match:user:discard))
DiscardLockFree(p) ==
    \A s \in Slot : req[s].op = "discard" =>
        req[s].user # p /\ DiscardsOverlap
\* pg_advisory_xact_lock(hashtext(match:round-results))
ResultsLockFree == \A s \in Slot : req[s].op # "results"

\* matches_terminal_consistency: ended_at is set exactly in a terminal status,
\* so a write of a playing status that leaves ended_at alone is rejected when
\* the row has become terminal.
NoTerminalCheck == TRUE   \* mutant: the constraint is missing
StillPlayable == match.status \notin Terminal
\* matches_winner_only_when_completed, for a write that keeps the winner.
NoWinnerCheck == TRUE   \* mutant: the constraint is missing
NoWinnerYet == match.winner = Nobody

BothScored(n) == \A p \in Player : scores[n][p] # "none"
ResolvableTwice(n) == BothScored(n)   \* mutant: an ended round is not refused
Resolvable(n) == rounds[n] = "open" /\ BothScored(n)
\* match_rounds_number_unique rejects a second round of the same number.
NoUniqueNumber(n) == TRUE   \* mutant: the constraint is missing
RoundIsNew(n) == rounds[n] = "none"

Init ==
    /\ match = [status |-> "awaiting_discards", before |-> "none",
                version |-> 0, round |-> 0, winner |-> Nobody]
    /\ hands = [p \in Player |-> [discarded |-> FALSE, cards |-> HandSize]]
    /\ active = [p \in Player |-> TRUE]
    /\ health = [p \in Player |-> StartHealth]
    /\ rounds = [n \in Round |-> "none"]
    /\ scores = [n \in Round |-> [p \in Player |-> "none"]]
    /\ timers = [t \in Timer |->
                    Row(IF t = <<"discard", 0>> THEN "scheduled" ELSE "none")]
    /\ req = [r \in Slot |-> Idle]
    /\ resolved = [n \in Round |-> 0]
    /\ settled = 0
    /\ crashes = 0

-----------------------------------------------------------------------------
(* Discards. `ready` is what the transaction's read of the hands shows: it *)
(* sees the other hand only if that hand's transaction has committed.      *)

DiscardTx(r, p, rest) ==
    [Busy(r, "discard") EXCEPT
        !.user = p, !.version = match.version, !.pending = rest,
        !.ready = hands[Other(p)].discarded]

CanDiscard(p) ==
    /\ match.status = "awaiting_discards"
    /\ active[p]
    /\ ~hands[p].discarded

DiscardBegin(r, p) ==
    /\ req[r].op = "idle"
    /\ DiscardLockFree(p)
    /\ CanDiscard(p)
    /\ Goto(r, DiscardTx(r, p, {}))
    /\ UNCHANGED <<match, hands, active, health, rounds, scores, timers,
                   resolved, settled, crashes>>

\* The next operation of a slot whose discard transaction has ended well.
DiscardDone(r) == IF req[r].timer = NoTimer THEN Idle
                  ELSE [Busy(r, "discards") EXCEPT
                            !.pending = req[r].pending]

DiscardCommit(r) ==
    LET p == req[r].user IN
    /\ req[r].op = "discard"
    /\ \/ /\ ~req[r].ready
          /\ hands' = [hands EXCEPT ![p].discarded = TRUE]
          /\ Goto(r, DiscardDone(r))
          /\ UNCHANGED <<match, timers>>
       \/ /\ req[r].ready /\ StillPlayable /\ Cancellable({"discard"})
          /\ hands' = [hands EXCEPT ![p].discarded = TRUE]
          /\ match' = [match EXCEPT !.status = "awaiting_pick",
                                    !.version = req[r].version + 1]
          /\ timers' = Start(<<"pick", 1>>, {"discard"})
          /\ Goto(r, DiscardDone(r))
       \/ /\ req[r].ready /\ ~(StillPlayable /\ Cancellable({"discard"}))
          /\ Goto(r, After(r, FALSE))
          /\ UNCHANGED <<match, hands, timers>>
    /\ UNCHANGED <<active, health, rounds, scores, resolved, settled,
                   crashes>>

-----------------------------------------------------------------------------
(* A pick starts the next round. *)

CanSelect(p) ==
    /\ match.status = "awaiting_pick"
    /\ match.round + 1 \in Round
    /\ p = Picker(match.round + 1)
    /\ active[p]
    /\ hands[p].cards > 0

SelectTx(r, p) ==
    [Busy(r, "select") EXCEPT !.user = p, !.round = match.round + 1,
                              !.version = match.version]

SelectBegin(r, p) ==
    /\ req[r].op = "idle"
    /\ CanSelect(p)
    /\ Goto(r, SelectTx(r, p))
    /\ UNCHANGED <<match, hands, active, health, rounds, scores, timers,
                   resolved, settled, crashes>>

SelectCommit(r) ==
    LET p == req[r].user
        n == req[r].round IN
    /\ req[r].op = "select"
    /\ \/ /\ RoundIsNew(n) /\ StillPlayable /\ Cancellable({"pick"})
          /\ rounds' = [rounds EXCEPT ![n] = "open"]
          /\ hands' = [hands EXCEPT ![p].cards = @ - 1]
          /\ match' = [match EXCEPT !.status = "awaiting_scores",
                                    !.round = n,
                                    !.version = req[r].version + 1]
          /\ timers' = Start(<<"score_submission", n>>, {"pick"})
          /\ Goto(r, After(r, TRUE))
       \/ /\ ~(RoundIsNew(n) /\ StillPlayable /\ Cancellable({"pick"}))
          /\ Goto(r, After(r, FALSE))
          /\ UNCHANGED <<match, hands, rounds, timers>>
    /\ UNCHANGED <<active, health, scores, resolved, settled, crashes>>

-----------------------------------------------------------------------------
(* Scores, the score deadline and the resolution of a round. The insert of *)
(* a score and the resolution are two transactions, each under the round's *)
(* lock.                                                                   *)

SubmitBegin(r, p, n) ==
    /\ req[r].op = "idle"
    /\ RoundLockFree(n)
    /\ rounds[n] = "open"
    /\ match.status = "awaiting_scores"
    /\ active[p]
    /\ Goto(r, [Busy(r, "submit") EXCEPT !.user = p, !.round = n])
    /\ UNCHANGED <<match, hands, active, health, rounds, scores, timers,
                   resolved, settled, crashes>>

\* match_scores_round_user_unique rejects a second score of the same player.
SubmitCommit(r) ==
    LET p == req[r].user
        n == req[r].round IN
    /\ req[r].op = "submit"
    /\ IF scores[n][p] = "none"
       THEN /\ scores' = [scores EXCEPT ![n][p] = "played"]
            /\ Goto(r, IF scores[n][Other(p)] # "none"
                       THEN [Busy(r, "to_resolve") EXCEPT !.round = n]
                       ELSE Idle)
       ELSE /\ Goto(r, Idle)
            /\ UNCHANGED scores
    /\ UNCHANGED <<match, hands, active, health, rounds, timers,
                   resolved, settled, crashes>>

\* The missing players' scores are defaulted to zero in one transaction.
ExpireCommit(r) ==
    LET n == req[r].round IN
    /\ req[r].op = "expire"
    /\ scores' = [scores EXCEPT ![n] = [p \in Player |->
                    IF p \in req[r].pending THEN "timed_out" ELSE @[p]]]
    /\ Goto(r, [Busy(r, "to_resolve") EXCEPT !.round = n])
    /\ UNCHANGED <<match, hands, active, health, rounds, timers,
                   resolved, settled, crashes>>

ResolveBegin(r) ==
    LET n == req[r].round IN
    /\ req[r].op = "to_resolve"
    /\ RoundLockFree(n)
    /\ Goto(r, IF Resolvable(n)
               THEN [Busy(r, "resolve") EXCEPT !.round = n,
                                               !.version = match.version]
               ELSE After(r, TRUE))
    /\ UNCHANGED <<match, hands, active, health, rounds, scores, timers,
                   resolved, settled, crashes>>

\* The damage that calculateRoundHealth may yield: at most one player loses
\* health, and a defaulted (zero) score never beats another score.
Damages(n) ==
    {d \in [Player -> 0 .. StartHealth] :
        \E w \in Player : d[w] = 0
            /\ (scores[n][w] = "timed_out" => d[Other(w)] = 0)}

\* Health stops at zero.
NoClamp(h, d) == h - d   \* mutant: health may go below zero
Remaining(h, d) == IF d > h THEN 0 ELSE h - d

\* resolveMatchHealthOutcome
Outcome(h, remaining) ==
    IF h["red"] = 0 /\ h["blue"] = 0 THEN "draw"
    ELSE IF h["red"] = 0 THEN "blue"
    ELSE IF h["blue"] = 0 THEN "red"
    ELSE IF remaining > 0 THEN "none"
    ELSE IF h["red"] = h["blue"] THEN "draw"
    ELSE IF h["red"] > h["blue"] THEN "red" ELSE "blue"

\* The writes that end a match with a result: resolveRound's terminal branch
\* and forfeitMatch share them. Neither write of the match row is conditional.
SettleOnly(version, winner) ==   \* mutant: the timers are left running
    /\ match' = [match EXCEPT !.status = "completed", !.winner = winner,
                              !.version = version + 1]
    /\ active' = [p \in Player |-> FALSE]
    /\ settled' = settled + 1
    /\ UNCHANGED timers
Settle(version, winner) ==
    /\ match' = [match EXCEPT !.status = "completed", !.winner = winner,
                              !.version = version + 1]
    /\ active' = [p \in Player |-> FALSE]
    /\ timers' = Cancelled(AllKinds)
    /\ settled' = settled + 1

\* The constraints that the resolution of a round may run into.
ResolutionAccepted(o) ==
    IF o = "none" THEN StillPlayable /\ Cancellable({"score_submission"})
                  ELSE Cancellable(AllKinds)

ResolveCommit(r) ==
    LET n == req[r].round IN
    /\ req[r].op = "resolve"
    /\ \E d \in Damages(n) :
        LET h == [p \in Player |-> Remaining(health[p], d[p])]
            o == Outcome(h, hands["red"].cards + hands["blue"].cards)
        IN \/ /\ o = "none" /\ ResolutionAccepted(o)
              /\ match' = [match EXCEPT !.status = "round_results",
                                        !.version = req[r].version + 1]
              /\ timers' = Start(<<"round_results", n>>, {"score_submission"})
              /\ health' = h
              /\ rounds' = [rounds EXCEPT ![n] = "ended"]
              /\ resolved' = [resolved EXCEPT ![n] = @ + 1]
              /\ Goto(r, After(r, TRUE))
              /\ UNCHANGED <<active, settled>>
           \/ /\ o # "none" /\ ResolutionAccepted(o)
              /\ Settle(req[r].version, IF o = "draw" THEN Nobody ELSE o)
              /\ health' = h
              /\ rounds' = [rounds EXCEPT ![n] = "ended"]
              /\ resolved' = [resolved EXCEPT ![n] = @ + 1]
              /\ Goto(r, After(r, TRUE))
           \/ /\ ~ResolutionAccepted(o)
              /\ Goto(r, After(r, FALSE))
              /\ UNCHANGED <<match, timers, health, rounds, resolved, active,
                             settled>>
    /\ UNCHANGED <<hands, scores, crashes>>

-----------------------------------------------------------------------------
(* The results display ends. The update checks the version that it read,   *)
(* and the key of the next pick timer must be new. The handler announces   *)
(* the pick phase afterwards, and throws when that phase is over already.  *)

ResultsCommit(r) ==
    LET n == req[r].round IN
    /\ req[r].op = "results"
    /\ IF /\ match.version = req[r].version /\ StillPlayable
          /\ timers[<<"pick", n + 1>>].status = "none"
       THEN /\ match' = [match EXCEPT !.status = "awaiting_pick",
                                      !.version = @ + 1]
            /\ timers' = Start(<<"pick", n + 1>>, {})
            /\ Goto(r, Busy(r, "announce"))
       ELSE /\ Goto(r, After(r, FALSE))
            /\ UNCHANGED <<match, timers>>
    /\ UNCHANGED <<hands, active, health, rounds, scores, resolved,
                   settled, crashes>>

Announce(r) ==
    /\ req[r].op = "announce"
    /\ Goto(r, After(r, match.status = "awaiting_pick"))
    /\ UNCHANGED <<match, hands, active, health, rounds, scores, timers,
                   resolved, settled, crashes>>

-----------------------------------------------------------------------------
(* A forfeit: a disconnected plugin, the forfeit packet, or a moderator's  *)
(* forfeit / declare_winner decision.                                      *)

ForfeitBegin(r, p) ==
    /\ "forfeit" \in Enabled
    /\ req[r].op = "idle"
    /\ match.status \notin Terminal
    /\ Goto(r, [Busy(r, "forfeit") EXCEPT !.user = p,
                                          !.version = match.version])
    /\ UNCHANGED <<match, hands, active, health, rounds, scores, timers,
                   resolved, settled, crashes>>

ForfeitCommit(r) ==
    /\ req[r].op = "forfeit"
    /\ \/ /\ Cancellable(AllKinds)
          /\ Settle(req[r].version, Other(req[r].user))
       \/ /\ ~Cancellable(AllKinds)
          /\ UNCHANGED <<match, active, timers, settled>>
    /\ Goto(r, Idle)
    /\ UNCHANGED <<hands, health, rounds, scores, resolved, crashes>>

-----------------------------------------------------------------------------
(* matchService.transition, and the pause, resume and abort built on it.   *)

\* allowedTransitions, on the statuses that this server ever writes.
AllowedTransitions(from, to) ==
    \/ from \in Playing /\ to \in Terminal \cup {"paused"}
    \/ from = "paused" /\ to \in Playing \cup Terminal
    \/ <<from, to>> \in {<<"awaiting_discards", "awaiting_pick">>,
                         <<"awaiting_scores", "round_results">>,
                         <<"round_results", "awaiting_pick">>}

TransitionTx(r, to) ==
    [Busy(r, "transition") EXCEPT !.status = to, !.version = match.version]

\* The update is conditional on the version that the transaction read.
TransitionCommit(r) ==
    LET to == req[r].status IN
    /\ req[r].op = "transition"
    /\ \/ /\ match.version = req[r].version /\ NoWinnerYet
          /\ match' = [match EXCEPT !.status = to, !.version = @ + 1]
          /\ Goto(r, IF to = "aborted" THEN Idle
                     ELSE IF to = "paused" THEN Busy(r, "pause_timers")
                     ELSE Busy(r, "resume_clear"))
       \/ /\ match.version # req[r].version \/ ~NoWinnerYet
          /\ Goto(r, Idle)
          /\ UNCHANGED match
    /\ UNCHANGED <<hands, active, health, rounds, scores, timers,
                   resolved, settled, crashes>>

AbortBegin(r) ==
    /\ "abort" \in Enabled
    /\ req[r].op = "idle"
    /\ AllowedTransitions(match.status, "aborted")
    /\ Goto(r, TransitionTx(r, "aborted"))
    /\ UNCHANGED <<match, hands, active, health, rounds, scores, timers,
                   resolved, settled, crashes>>

PauseBegin(r) ==
    /\ "pause" \in Enabled
    /\ match.version < MaxVersion
    /\ req[r].op = "idle"
    /\ match.status \notin Terminal
    /\ Goto(r, [Busy(r, "pause_mark") EXCEPT !.status = match.status,
                                             !.version = match.version])
    /\ UNCHANGED <<match, hands, active, health, rounds, scores, timers,
                   resolved, settled, crashes>>

\* statusBeforePause is written before the transition is known to succeed.
PauseMark(r) ==
    /\ req[r].op = "pause_mark"
    /\ match' = [match EXCEPT !.before = req[r].status]
    /\ Goto(r, [Busy(r, "pause_tx") EXCEPT !.version = req[r].version])
    /\ UNCHANGED <<hands, active, health, rounds, scores, timers,
                   resolved, settled, crashes>>

PauseTransition(r) ==
    /\ req[r].op = "pause_tx"
    /\ Goto(r, IF /\ match.version = req[r].version
                  /\ AllowedTransitions(match.status, "paused")
               THEN TransitionTx(r, "paused") ELSE Idle)
    /\ UNCHANGED <<match, hands, active, health, rounds, scores, timers,
                   resolved, settled, crashes>>

PauseTimers(r) ==
    /\ req[r].op = "pause_timers"
    /\ timers' = [t \in Timer |->
                    IF timers[t].status \in {"scheduled", "processing"}
                    THEN Row("paused") ELSE timers[t]]
    /\ Goto(r, Idle)
    /\ UNCHANGED <<match, hands, active, health, rounds, scores,
                   resolved, settled, crashes>>

ResumeBegin(r) ==
    /\ req[r].op = "idle"
    /\ match.status = "paused"
    /\ match.before # "none"
    /\ Goto(r, [Busy(r, "resume_tx") EXCEPT !.status = match.before,
                                            !.version = match.version])
    /\ UNCHANGED <<match, hands, active, health, rounds, scores, timers,
                   resolved, settled, crashes>>

ResumeTransition(r) ==
    /\ req[r].op = "resume_tx"
    /\ Goto(r, IF /\ match.version = req[r].version
                  /\ AllowedTransitions(match.status, req[r].status)
               THEN TransitionTx(r, req[r].status) ELSE Idle)
    /\ UNCHANGED <<match, hands, active, health, rounds, scores, timers,
                   resolved, settled, crashes>>

ResumeClear(r) ==
    /\ req[r].op = "resume_clear"
    /\ match' = [match EXCEPT !.before = "none"]
    /\ Goto(r, Busy(r, "resume_timers"))
    /\ UNCHANGED <<hands, active, health, rounds, scores, timers,
                   resolved, settled, crashes>>

ResumeTimers(r) ==
    /\ req[r].op = "resume_timers"
    /\ timers' = [t \in Timer |-> IF timers[t].status = "paused"
                                  THEN Scheduled ELSE timers[t]]
    /\ Goto(r, Idle)
    /\ UNCHANGED <<match, hands, active, health, rounds, scores,
                   resolved, settled, crashes>>

\* skipTimer makes even a paused timer due; a scheduled one may be due anyway.
SkipTimer(t) ==
    /\ \E p \in Player : active[p]
    /\ timers[t].status = "paused"
    /\ Set(t, "scheduled")
    /\ UNCHANGED <<match, hands, active, health, rounds, scores, req,
                   resolved, settled, crashes>>

-----------------------------------------------------------------------------
(* The timer loop of an instance and the handlers of the four kinds.       *)

\* A due timer is claimed when scheduled, or when its lease has expired.
ScheduledOnly(t) == timers[t].status = "scheduled"   \* mutant: no take-over
Due(t) == timers[t].status \in {"scheduled", "processing"}

ClaimTimer(w, t) ==
    /\ req[w].op = "idle"
    /\ Due(t)
    /\ timers' = [timers EXCEPT ![t] = [status |-> "processing", owner |-> w]]
    /\ Goto(w, [Idle EXCEPT !.op = "claimed", !.timer = t])
    /\ UNCHANGED <<match, hands, active, health, rounds, scores, resolved,
                   settled, crashes>>

DiscardHandler(w) ==
    /\ req[w].op = "claimed" /\ req[w].timer[1] = "discard"
    /\ Goto(w, IF match.status # "awaiting_discards" THEN After(w, TRUE)
               ELSE [Busy(w, "discards") EXCEPT
                        !.pending = {p \in Player : ~hands[p].discarded}])
    /\ UNCHANGED <<match, hands, active, health, rounds, scores, timers,
                   resolved, settled, crashes>>

\* One turn of the handler's loop over the pending hands. A hand discarded
\* meanwhile is passed over; any other refusal makes the handler throw.
DiscardHandlerNext(w, p) ==
    LET rest == req[w].pending \ {p} IN
    /\ req[w].op = "discards"
    /\ p \in req[w].pending
    /\ DiscardLockFree(p)
    /\ Goto(w, IF CanDiscard(p) THEN DiscardTx(w, p, rest)
               ELSE IF match.status = "awaiting_discards" /\ active[p]
               THEN [Busy(w, "discards") EXCEPT !.pending = rest]
               ELSE After(w, FALSE))
    /\ UNCHANGED <<match, hands, active, health, rounds, scores, timers,
                   resolved, settled, crashes>>

DiscardHandlerEnd(w) ==
    /\ req[w].op = "discards" /\ req[w].pending = {}
    /\ Goto(w, After(w, TRUE))
    /\ UNCHANGED <<match, hands, active, health, rounds, scores, timers,
                   resolved, settled, crashes>>

\* getPickState names the picker; selectMap reads the match again.
PickHandler(w) ==
    LET p == Picker(match.round + 1) IN
    /\ req[w].op = "claimed" /\ req[w].timer[1] = "pick"
    /\ Goto(w, IF match.status # "awaiting_pick" THEN After(w, TRUE)
               ELSE IF hands[p].cards = 0 THEN After(w, FALSE)
               ELSE [Busy(w, "auto_pick") EXCEPT !.user = p])
    /\ UNCHANGED <<match, hands, active, health, rounds, scores, timers,
                   resolved, settled, crashes>>

AutoPick(w) ==
    LET p == req[w].user IN
    /\ req[w].op = "auto_pick"
    /\ Goto(w, IF CanSelect(p) THEN SelectTx(w, p) ELSE After(w, FALSE))
    /\ UNCHANGED <<match, hands, active, health, rounds, scores, timers,
                   resolved, settled, crashes>>

SkipComplete(w) ==   \* mutant: nobody missing, so nothing is left to do
    LET n == req[w].timer[2]
        missing == {p \in Player : scores[n][p] = "none"} IN
    /\ req[w].op = "claimed" /\ req[w].timer[1] = "score_submission"
    /\ RoundLockFree(n)
    /\ Goto(w, IF missing = {} \/ match.status # "awaiting_scores"
               THEN After(w, TRUE)
               ELSE [Busy(w, "expire") EXCEPT !.round = n,
                                              !.pending = missing])
    /\ UNCHANGED <<match, hands, active, health, rounds, scores, timers,
                   resolved, settled, crashes>>
ScoreHandler(w) ==
    LET n == req[w].timer[2] IN
    /\ req[w].op = "claimed" /\ req[w].timer[1] = "score_submission"
    /\ RoundLockFree(n)
    /\ Goto(w, IF rounds[n] # "open" \/ match.status # "awaiting_scores"
               THEN After(w, TRUE)
               ELSE [Busy(w, "expire") EXCEPT !.round = n,
                        !.pending = {p \in Player : scores[n][p] = "none"}])
    /\ UNCHANGED <<match, hands, active, health, rounds, scores, timers,
                   resolved, settled, crashes>>

ResultsHandler(w) ==
    LET n == req[w].timer[2] IN
    /\ req[w].op = "claimed" /\ req[w].timer[1] = "round_results"
    /\ ResultsLockFree
    /\ Goto(w, IF rounds[n] # "ended" \/ ~BothScored(n) \/ match.round # n
               THEN After(w, FALSE)
               ELSE IF match.status = "awaiting_pick"
                       /\ timers[<<"pick", n + 1>>].status # "none"
               THEN Busy(w, "announce")
               ELSE IF match.status # "round_results" THEN After(w, TRUE)
               ELSE [Busy(w, "results") EXCEPT !.round = n,
                                               !.version = match.version])
    /\ UNCHANGED <<match, hands, active, health, rounds, scores, timers,
                   resolved, settled, crashes>>

\* The claim's outcome is written only by the worker that still holds it.
HoldsLease(w) ==
    timers[req[w].timer] = [status |-> "processing", owner |-> w]

CompleteTimer(w) ==
    /\ req[w].op = "handled"
    /\ IF HoldsLease(w) THEN Set(req[w].timer, "completed")
                        ELSE UNCHANGED timers
    /\ Goto(w, Idle)
    /\ UNCHANGED <<match, hands, active, health, rounds, scores,
                   resolved, settled, crashes>>

\* A handler that threw is retried, or has used up its attempts.
RetryTimer(w) ==
    /\ req[w].op = "threw"
    /\ IF HoldsLease(w)
       THEN \E s \in {"scheduled", "failed"} : Set(req[w].timer, s)
       ELSE UNCHANGED timers
    /\ Goto(w, Idle)
    /\ UNCHANGED <<match, hands, active, health, rounds, scores,
                   resolved, settled, crashes>>

\* The process dies, or the database rolls the transaction back: nothing that
\* was not committed survives, and a claimed timer keeps its lease.
Crash(r) ==
    /\ crashes < MaxCrashes
    /\ req[r].op # "idle"
    /\ crashes' = crashes + 1
    /\ Goto(r, Idle)
    /\ UNCHANGED <<match, hands, active, health, rounds, scores, timers,
                   resolved, settled>>

-----------------------------------------------------------------------------

\* The requests that users and moderators may make, or never make.
Arrive(r) ==
    \/ \E p \in Player : \/ DiscardBegin(r, p)
                         \/ SelectBegin(r, p)
                         \/ \E n \in Round : SubmitBegin(r, p, n)
                         \/ ForfeitBegin(r, p)
    \/ AbortBegin(r)
    \/ PauseBegin(r)
    \/ ResumeBegin(r)

\* What the server does next with a request it has started on.
Proceed(r) ==
    \/ DiscardCommit(r)
    \/ SelectCommit(r)
    \/ SubmitCommit(r)
    \/ ResolveBegin(r)
    \/ ResolveCommit(r)
    \/ ForfeitCommit(r)
    \/ TransitionCommit(r)
    \/ PauseMark(r)
    \/ PauseTransition(r)
    \/ PauseTimers(r)
    \/ ResumeTransition(r)
    \/ ResumeClear(r)
    \/ ResumeTimers(r)

\* What an instance's timer loop does next.
Tick(w) ==
    \/ \E t \in Timer : ClaimTimer(w, t)
    \/ DiscardHandler(w)
    \/ \E p \in Player : DiscardHandlerNext(w, p)
    \/ DiscardHandlerEnd(w)
    \/ PickHandler(w)
    \/ AutoPick(w)
    \/ ScoreHandler(w)
    \/ ExpireCommit(w)
    \/ ResultsHandler(w)
    \/ ResultsCommit(w)
    \/ Announce(w)
    \/ CompleteTimer(w)
    \/ RetryTimer(w)

Next ==
    \/ \E r \in Clients : Arrive(r)
    \/ \E r \in Slot : Proceed(r)
    \/ \E w \in Workers : Tick(w)
    \/ \E t \in Timer : SkipTimer(t)
    \/ \E r \in Slot : Crash(r)

Spec == Init /\ [][Next]_vars

\* A started transaction ends, and every instance keeps polling (setInterval).
\* Nothing is assumed of the players or the moderators.
\* PostgreSQL grants an advisory lock in the order of the requests, so a step
\* that waits for one is not passed over for ever; and processOne takes the
\* timer that is due first while a retry postpones its own, so no due timer is.
Fairness ==
    /\ \A r \in Slot : WF_vars(Proceed(r)) /\ SF_vars(ResolveBegin(r))
    /\ \A w \in Workers :
        /\ WF_vars(Tick(w))
        /\ \A t \in Timer : SF_vars(ClaimTimer(w, t))
        /\ SF_vars(ScoreHandler(w))
        /\ SF_vars(ResultsHandler(w))
        /\ SF_vars(\E p \in Player : DiscardHandlerNext(w, p))

FairSpec == Spec /\ Fairness

-----------------------------------------------------------------------------
\* The rows keep their domains: health stays within its bounds whatever the
\* damage (match_participants_health_nonnegative), nobody plays a card that is
\* not in the hand, and only an instance owns a lease.
TypeOK ==
    /\ match \in MatchRow
    /\ hands \in [Player -> HandRow]
    /\ active \in [Player -> BOOLEAN]
    /\ health \in [Player -> 0 .. StartHealth]
    /\ rounds \in [Round -> {"none", "open", "ended"}]
    /\ scores \in [Round -> [Player -> {"none", "played", "timed_out"}]]
    /\ timers \in [Timer -> TimerRow]
    /\ req \in [Slot -> Request]
    /\ resolved \in [Round -> Nat]
    /\ settled \in Nat
    /\ crashes \in 0 .. MaxCrashes

\* resolveRound applies the damage of a round exactly once before the round is
\* ended, although two submissions, the deadline and a second instance that
\* took over the deadline's lease may all call it for the same round.
RoundResolvedOnce ==
    \A n \in Round : resolved[n] = IF rounds[n] = "ended" THEN 1 ELSE 0

\* "Applies round damage and completes or advances the match exactly once":
\* a match enters the players' competitive statistics at most once, whichever
\* of resolveRound and forfeitMatch writes them.
SettledOnce == settled <= 1

\* The numbers of a match's rounds are those up to current_round, without a
\* gap or a second row, even when selectMap overwrites the phase that a pause
\* or a stale resume has just written: match_rounds_number_unique stops the
\* pick that was prepared for a number already taken.
RoundsNumbered == \A n \in Round : rounds[n] # "none" <=> n <= match.round

\* The slots that hold a round's lock hold locks of different rounds.
LockOp == {"submit", "expire", "resolve"}
LockExclusive ==
    \A r, s \in Slot :
        req[r].op \in LockOp /\ req[s].op \in LockOp
            /\ req[r].round = req[s].round => r = s

RequestsNameRounds ==
    \A r \in Slot : req[r].op \in LockOp \cup {"to_resolve", "select"} =>
                        req[r].round \in Round

\* A round that is being resolved is open: nobody else can end it meanwhile.
ResolvingOpen ==
    \A r \in Slot : req[r].op = "resolve" => rounds[req[r].round] = "open"

\* A pick in preparation is for the round after existing ones, and as long as
\* that round does not exist its picker keeps a card to play.
SelectingNext ==
    \A r \in Slot : req[r].op = "select" =>
        /\ req[r].user = Picker(req[r].round)
        /\ \A n \in Round : n < req[r].round => rounds[n] # "none"
        /\ rounds[req[r].round] = "none" => hands[req[r].user].cards > 0

\* The inductive invariant behind TypeOK, RoundsNumbered, RoundResolvedOnce.
EngineInv ==
    /\ TypeOK
    /\ RequestsNameRounds
    /\ LockExclusive
    /\ ResolvingOpen
    /\ RoundsNumbered
    /\ SelectingNext
    /\ RoundResolvedOnce

\* Rounds are played one after another: every round before the current one has
\* ended, the current one exists, and none has been started ahead of it, even
\* when a player and the pick timers of two instances choose at the same time.
RoundsContiguous ==
    \A n \in Round :
        /\ n < match.round => rounds[n] = "ended"
        /\ n = match.round => rounds[n] # "none"
        /\ n > match.round => rounds[n] = "none"

\* A match waits for a pick only while the player whose turn it is holds a
\* card; otherwise its pick timer would throw "Pick timer expired without an
\* available map" until it had failed.
PickerHasCard ==
    match.status = "awaiting_pick" =>
        /\ match.round + 1 \in Round
        /\ hands[Picker(match.round + 1)].cards > 0

PhaseTimer ==
    CASE match.status = "awaiting_discards" -> <<"discard", 0>>
      [] match.status = "awaiting_pick" -> <<"pick", match.round + 1>>
      [] match.status = "awaiting_scores" -> <<"score_submission", match.round>>
      [] match.status = "round_results" -> <<"round_results", match.round>>

\* A match in a playing phase always has a runnable timer that will end that
\* phase, whatever instance crashed, was taken over or finished late: no
\* handler completes or cancels the timer of a phase it has not ended.
PhaseHasTimer ==
    match.status \in Playing =>
        timers[PhaseTimer].status \in {"scheduled", "processing"}

\* A completed match has released both players, who can queue again, and
\* leaves no timer behind that could still be claimed, paused or resumed,
\* even when handlers were running while it was settled.
EndedMatchIsClosed ==
    match.status = "completed" =>
        /\ \A p \in Player : ~active[p]
        /\ \A t \in Timer : timers[t].status \notin Live

\* A status that a pause or an abort writes, or a resume writes back, is never
\* "completed": only a forfeit and the resolution of a round complete a match.
NamesNoResult(x) ==
    x.op \in {"pause_mark", "resume_tx", "transition"} => x.status # "completed"

\* The inductive invariant behind EndedMatchIsClosed.
ClosedInv ==
    /\ EndedMatchIsClosed
    /\ match.before # "completed"
    /\ \A r \in Slot : NamesNoResult(req[r])

-----------------------------------------------------------------------------
(* Play without pauses. The phases follow each other, and so do their      *)
(* timers: Turn is the place of a timer in that order.                     *)

Turn(t) ==
    CASE t[1] = "pick" -> 3 * t[2] - 2
      [] t[1] = "score_submission" -> 3 * t[2] - 1
      [] t[1] = "round_results" -> 3 * t[2]
      [] OTHER -> 0

Over == match.status \in Terminal
Started(turn) == Over \/ turn <= Turn(PhaseTimer)
Spent(turn) == \/ Over
               \/ turn < Turn(PhaseTimer)
               \/ DiscardsOverlap /\ turn = 0

\* What each phase says of the rounds, the hands and the players.
PhaseShape ==
    /\ match.status # "paused"
    /\ match.status = "awaiting_discards" => match.round = 0
    /\ match.status = "awaiting_pick" => match.round < 2 * HandSize
    /\ match.status = "awaiting_scores" =>
          match.round > 0 /\ rounds[match.round] = "open"
    /\ match.status = "round_results" =>
          match.round > 0 /\ match.round < 2 * HandSize
    /\ \A n \in Round : rounds[n] = "open" =>
          n = match.round /\ match.status \in {"awaiting_scores"} \cup Terminal
    /\ \A n \in Round : rounds[n] = "ended" => BothScored(n)
    /\ match.status \in Playing \ {"awaiting_discards"} =>
          \A p \in Player : hands[p].discarded
    /\ ~DiscardsOverlap /\ match.status = "awaiting_discards" =>
          \E p \in Player : ~hands[p].discarded
    /\ \A p \in Player : active[p] \/ Over
    /\ "abort" \notin Enabled => match.status # "aborted"

\* The players have picked in turns: how many cards they have left.
PicksCounted ==
    /\ hands["red"].cards + hands["blue"].cards + match.round = 2 * HandSize
    /\ hands["blue"].cards =
          hands["red"].cards + IF Picker(match.round + 1) = "red" THEN 0 ELSE 1

\* No timer is ahead of its phase, and the phase's own is not lost.
TimersOnTime ==
    /\ \A t \in Timer :
          /\ timers[t].status # "paused"
          /\ timers[t].status # "none" => Started(Turn(t))
    /\ match.status \in Playing =>
          \/ timers[PhaseTimer].status \in {"scheduled", "processing"}
          \/ DiscardsOverlap /\ match.status = "awaiting_discards"

\* Without forfeits, the round whose resolution settles a match is the last.
SettledByResolution ==
    "forfeit" \notin Enabled =>
        /\ settled <= 1
        /\ settled = 1 \/ match.status = "completed" =>
              Over /\ \A n \in Round : rounds[n] # "open"

\* What the rows say of a request x: which requests there are, ...
Issued(x) ==
    /\ x.op \notin {"pause_mark", "pause_tx", "pause_timers",
                    "resume_tx", "resume_clear", "resume_timers"}
    /\ x.op = "transition" => x.status = "aborted" /\ "abort" \in Enabled
    /\ x.op = "forfeit" => "forfeit" \in Enabled

\* ... that a hand is discarded once and, unless discards overlap, the second
\* discard sees the first, ...
DiscardSound(x) ==
    x.op = "discard" =>
        /\ ~hands[x.user].discarded
        /\ x.ready => hands[Other(x.user)].discarded
        /\ ~DiscardsOverlap /\ hands[Other(x.user)].discarded => x.ready

\* ... that a pick is for the current pick phase, or its round exists, ...
SelectSound(x) ==
    x.op = "select" =>
        rounds[x.round] # "none" \/ match.status = "awaiting_pick" \/ Over

\* ... that a round to resolve has both scores, ...
ScoreSound(x) ==
    /\ x.op \in LockOp \cup {"to_resolve"} => rounds[x.round] # "none"
    /\ x.op \in {"to_resolve", "resolve"} => BothScored(x.round)
    /\ x.op = "expire" =>
          \A p \in Player \ x.pending : scores[x.round][p] # "none"

\* ... that who ends a results display has read the match as it is, ...
ResultsSound(x) ==
    x.op = "results" => Over \/ /\ match.status = "round_results"
                                /\ match.round = x.round
                                /\ match.version = x.version

\* ... and that a handler works for a timer whose phase has begun, and is done
\* with it only when the phase has ended.
HandlerOnTime(x) ==
    /\ x.op = "idle" => x.timer = NoTimer
    /\ Started(Turn(x.timer))
    /\ x.op \in {"handled", "threw", "announce"} => Spent(Turn(x.timer))
    /\ x.op \in {"discard", "discards"} => Turn(x.timer) = 0
    /\ x.op = "discards" \/ (x.op = "discard" /\ x.timer # NoTimer) =>
          \A p \in Player \ x.pending :
              hands[p].discarded \/ (x.op = "discard" /\ p = x.user)
    /\ x.op = "auto_pick" =>
          /\ x.timer[1] = "pick"
          /\ match.status = "awaiting_pick" /\ x.timer[2] = match.round + 1 =>
                x.user = Picker(match.round + 1)
    /\ x.op = "select" => Turn(x.timer) <= 3 * x.round - 2
    /\ x.op \in LockOp \cup {"to_resolve"} =>
          Turn(x.timer) <= 3 * x.round - 1
    /\ x.op = "results" => Turn(x.timer) <= 3 * x.round

RequestSound(x) ==
    /\ Issued(x)
    /\ DiscardSound(x)
    /\ SelectSound(x)
    /\ ScoreSound(x)
    /\ ResultsSound(x)
    /\ HandlerOnTime(x)

\* The advisory locks on hands and on the results display are exclusive.
HandsAndResultsLocked ==
    \A r, s \in Slot : r # s =>
        /\ req[r].op = "discard" /\ req[s].op = "discard" =>
              req[r].user # req[s].user /\ DiscardsOverlap
        /\ ~(req[r].op = "results" /\ req[s].op = "results")

\* The inductive invariant of play without pauses, whatever else is enabled.
PlayInv ==
    /\ EngineInv
    /\ PhaseShape
    /\ PicksCounted
    /\ TimersOnTime
    /\ SettledByResolution
    /\ \A r \in Slot : RequestSound(req[r])
    /\ HandsAndResultsLocked

-----------------------------------------------------------------------------

\* No late discard, pick, result display or round resolution brings a match
\* back that a forfeit has ended in between: their unconditional updates of
\* matches are stopped by matches_terminal_consistency alone.
NeverReopened ==
    [][match.status \in Terminal => match'.status = match.status]_vars

\* Under pauses and aborts by a moderator as well, a match that has a winner
\* stays completed: a pause or an abort that read it before the end fails on
\* its version or on matches_winner_only_when_completed.
DecidedStaysCompleted ==
    [][match.winner # Nobody => match'.status = "completed"]_vars

\* matches_winner_only_when_completed, the constraint of schema.ts behind it.
WinnerOnlyWhenCompleted ==
    match.winner # Nobody => match.status = "completed"

\* "Completes a match as a forfeit": a forfeit that found the match unfinished
\* completes it, a paused match too, unless the process dies on the way.
ForfeitCompletes ==
    [][\A r \in Clients :
        req[r].op = "forfeit" /\ req'[r].op # "forfeit"
            => match'.status = "completed"]_vars

\* "Restores a paused match": a paused match remembers the phase that resume
\* can lead back to.
PausedCanResume ==
    match.status = "paused" => match.before \in Playing

\* The server acts for every hand that is still pending when the discard timer
\* has run, so a completed discard timer leaves no match behind in that phase.
DiscardDeadlineEndsPhase ==
    timers[<<"discard", 0>>].status = "completed" =>
        match.status # "awaiting_discards"

\* A match ends although both players stay silent and a server process dies:
\* each phase has a deadline that some instance's timer loop enforces.
MatchEnds == <>(match.status \in Terminal)

\* What a player sees of the match: the phases, the round, the health, the
\* cards and the winner. One step of MatchLifecycle is one commit here.
Lifecycle == INSTANCE MatchLifecycle WITH
                Red <- "red", LastRound <- 2 * HandSize,
                phase <- match.status, round <- match.round,
                cards <- [p \in Player |-> hands[p].cards],
                winner <- match.winner

\* Without forfeits, pauses and aborts the transactions, timers and instances
\* together play exactly the match that MatchLifecycle describes.
ImplementsLifecycle == Lifecycle!Spec

\* ... and they carry it to its end without any cooperation of the players.
CarriedToItsEnd == Lifecycle!FairSpec
=============================================================================
