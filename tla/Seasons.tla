-------------------------------- MODULE Seasons --------------------------------
(***************************************************************************)
(* Seasons and ratings: seasons.route.ts, the triggers of                  *)
(* applyConstraints.ts, who inserts rows of competitive_statistics, and    *)
(* what settling a match, reverting it (ranking.service.ts) and correcting *)
(* it (moderation.route.ts) do to them.                                    *)
(*                                                                         *)
(* The clock is a season's phase.  How a match is played and its MMR       *)
(* change computed is not modelled here: it ends with a winner or without  *)
(* one, and with some gain and some loss.  Matches that are not            *)
(* competitive never touch a rating and are left out.                      *)
(***************************************************************************)
EXTENDS Backend, Naturals, FiniteSets, FiniteSetsExt

CONSTANTS Players,
          RankedMatches,  \* names of the matches that are made
          StartingMmr,    \* the seasons' starting MMR
          DefaultMmr,     \* the column default
          Results,        \* the winner's gain and the loser's loss of a match,
          Corrections,    \* and what moderators correct them to
          MaxModerations, \* bound: how many reverts and corrections begin
          MaxWrites       \* bound: how often a season is written

ASSUME SeasonsAssumption ==
    /\ None \notin Players \cup RankedMatches \cup Nat
    /\ {StartingMmr, DefaultMmr, MaxModerations, MaxWrites} \subseteq Nat
    /\ Results \cup Corrections \subseteq Nat \X Nat
    /\ IsFiniteSet(RankedMatches)

VARIABLES seasons,     \* seasons[x]: the row, or None
          people,      \* players with a row of users
          stats,       \* stats[x][u]: the row of competitive_statistics, or None
          games,       \* games[m]: the row of matches, or None
          bent,        \* history: ratings that were cut at 0, or changed by two
                       \* requests for one match at a time
          moderations, \* how many requests of moderators were begun
          writes,      \* how often a season was written
          ratReq       \* what each slot is executing, and what it has read

seasonsVars == <<seasons, people, stats, games, bent, moderations, writes, ratReq>>

Season == [current : BOOLEAN, phase : {"future", "open", "over"}]
Statistics == [mmr : Nat, starting : Nat, ending : Nat \cup {None},
               wins : Nat, total : Nat, streak : Nat, best : Nat]
Game == [season : SeasonNames, red : Players, blue : Players,
         status : {"playing", "completed"}, winner : Players \cup {None},
         gain : Nat, loss : Nat, undone : BOOLEAN, ended : Nat]
RatingRequest ==
    [op : {"idle", "sign_up", "join", "revert", "correct"},
     player : Players \cup {None}, season : SeasonNames \cup {None},
     match : RankedMatches \cup {None}, was : Game \cup {None},
     gain : Nat, loss : Nat]
ASSUME RowsAreNotNone == None \notin Season \cup Statistics \cup Game
NoRating == [op |-> "idle", player |-> None, season |-> None, match |-> None,
             was |-> None, gain |-> 0, loss |-> 0]

SeasonsInit ==
    /\ seasons = [x \in SeasonNames |-> None]
    /\ people = {}
    /\ stats = [x \in SeasonNames |-> [u \in Players |-> None]]
    /\ games = [m \in RankedMatches |-> None]
    /\ bent = {}
    /\ moderations = 0
    /\ writes = 0
    /\ ratReq = [s \in Slots |-> NoRating]

SetRating(s, r) == ratReq' = [ratReq EXCEPT ![s] = r]
Runs(s, op) == ratReq[s].op = op

Fresh(mmr) == [mmr |-> mmr, starting |-> mmr, ending |-> None,
               wins |-> 0, total |-> 0, streak |-> 0, best |-> 0]
\* INSERT ... ON CONFLICT DO NOTHING
Ensure(table, U, mmr) ==
    [u \in Players |-> IF u \in U /\ table[u] = None THEN Fresh(mmr) ELSE table[u]]

-----------------------------------------------------------------------------
(* Seasons.                                                                *)

\* seasons_one_current_idx, seasons_no_overlap
SeasonsAccepted(rows) ==
    \A x, y \in SeasonNames : rows[x] # None /\ rows[y] # None /\ x # y =>
        /\ ~(rows[x].current /\ rows[y].current)
        /\ ~(rows[x].phase = "open" /\ rows[y].phase = "open")

Written == writes < MaxWrites /\ writes' = writes + 1

\* A row is written; the trigger seasons_ensure_current_stats.
WriteSeason(x, row) ==
    /\ seasons' = [seasons EXCEPT ![x] = row]
    /\ SeasonsAccepted(seasons')
    /\ stats' = IF row.current /\ (seasons[x] = None \/ ~seasons[x].current)
                THEN [stats EXCEPT ![x] = Ensure(@, people, StartingMmr)]
                ELSE stats
    /\ Written
    /\ UNCHANGED <<people, games, bent, moderations, ratReq>>

\* A guid is never given twice.
CreateSeason(x) ==
    /\ seasons[x] = None
    /\ \A s \in Slots : ratReq[s].season # x
    /\ \E row \in Season : WriteSeason(x, row)

\* PATCH /seasons/:seasonGuid: isCurrent and the dates.
PatchSeason(x) ==
    /\ seasons[x] # None
    /\ \E row \in Season : row # seasons[x] /\ WriteSeason(x, row)

\* POST /seasons/:seasonGuid/finish: of a season that has begun, and again of
\* one that is over, whose dates then reach to this moment.
FinishSeason(x) ==
    LET frozen(u) == IF stats[x][u] = None THEN None
                     ELSE [stats[x][u] EXCEPT !.ending = stats[x][u].mmr] IN
    /\ seasons[x] # None
    /\ seasons[x].phase # "future"
    /\ seasons[x].phase = "over" =>
          {y \in SeasonNames : seasons[y] # None /\ seasons[y].phase = "open"} = {}
    /\ seasons' = [seasons EXCEPT ![x] = [current |-> FALSE, phase |-> "over"]]
    /\ stats' = [stats EXCEPT ![x] = [u \in Players |-> frozen(u)]]
    /\ Written
    /\ UNCHANGED <<people, games, bent, moderations, ratReq>>

\* DELETE /seasons/:seasonGuid, of a season without statistics; those that a
\* trigger has inserted hold it although they are not committed.
DeleteSeason(x) ==
    /\ seasons[x] # None
    /\ \A u \in Players : stats[x][u] = None
    /\ \A s \in Slots : Runs(s, "sign_up") => ratReq[s].season # x
    /\ seasons' = [seasons EXCEPT ![x] = None]
    /\ Written
    /\ UNCHANGED <<people, stats, games, bent, moderations, ratReq>>

\* starts_at or ends_at passes.
TimePasses(x) ==
    /\ seasons[x] # None
    /\ \E phase \in {"open", "over"} :
          /\ <<seasons[x].phase, phase>> \in {<<"future", "open">>, <<"open", "over">>}
          /\ seasons' = [seasons EXCEPT ![x].phase = phase]
    /\ SeasonsAccepted(seasons')
    /\ UNCHANGED <<people, stats, games, bent, moderations, writes, ratReq>>

\* The season that is marked current and active at this moment, if any.
CurrentSeason ==
    {x \in SeasonNames : seasons[x] # None /\ seasons[x].current
                                           /\ seasons[x].phase = "open"}

-----------------------------------------------------------------------------
(* Players.                                                                *)

\* A row of users is inserted, with the statistics of the season that the
\* trigger users_ensure_current_stats sees by then; it commits later.
SignUpBegin(s, u) ==
    /\ Runs(s, "idle")
    /\ u \notin people
    /\ \A t \in Slots : ratReq[t].player # u
    /\ \E x \in IF CurrentSeason = {} THEN {None} ELSE CurrentSeason :
          SetRating(s, [NoRating EXCEPT !.op = "sign_up", !.player = u,
                                        !.season = x])
    /\ UNCHANGED <<seasons, people, stats, games, bent, moderations, writes>>

SignUpCommit(s) ==
    LET r == ratReq[s] IN
    /\ Runs(s, "sign_up")
    /\ people' = people \cup {r.player}
    /\ stats' = [x \in SeasonNames |->
                    IF x = r.season THEN Ensure(stats[x], {r.player}, StartingMmr)
                                    ELSE stats[x]]
    /\ SetRating(s, NoRating)
    /\ UNCHANGED <<seasons, games, bent, moderations, writes>>

\* A login of somebody, who may have no statistics yet.
Login(u) ==
    /\ u \in people
    /\ stats' = [x \in SeasonNames |->
                    IF x \in CurrentSeason THEN Ensure(stats[x], {u}, DefaultMmr)
                                           ELSE stats[x]]
    /\ UNCHANGED <<seasons, people, games, bent, moderations, writes, ratReq>>

JoinQueue(s, u) ==
    /\ Runs(s, "idle")
    /\ u \in people
    /\ \E x \in CurrentSeason :
          SetRating(s, [NoRating EXCEPT !.op = "join", !.player = u, !.season = x])
    /\ UNCHANGED <<seasons, people, stats, games, bent, moderations, writes>>

\* The join commits; the player waits.
JoinWaits(s) ==
    LET r == ratReq[s] IN
    /\ Runs(s, "join")
    /\ seasons[r.season] # None
    /\ stats' = [stats EXCEPT ![r.season] = Ensure(@, {r.player}, StartingMmr)]
    /\ SetRating(s, NoRating)
    /\ UNCHANGED <<seasons, people, games, bent, moderations, writes>>

Anybody(table) == people   \* mutant: the entries' statistics are not looked at
\* Entries whose users have statistics of the season.
Rated(table) == {u \in people : table[u] # None}

\* It commits with a match against somebody who waits.
JoinPairs(s) ==
    LET r == ratReq[s]
        table == Ensure(stats[r.season], {r.player}, StartingMmr) IN
    /\ Runs(s, "join")
    /\ seasons[r.season] # None
    /\ \E m \in RankedMatches, v \in Rated(table) \ {r.player},
         red \in Players, blue \in Players :
          /\ games[m] = None
          /\ \A n \in RankedMatches : games[n] # None =>
                games[n].status # "playing" \/ {games[n].red, games[n].blue} \cap {r.player, v} = {}
          /\ {red, blue} = {r.player, v}
          /\ games' = [games EXCEPT ![m] =
                [season |-> r.season, red |-> red, blue |-> blue,
                 status |-> "playing", winner |-> None, gain |-> 0, loss |-> 0,
                 undone |-> FALSE, ended |-> 0]]
    /\ stats' = [stats EXCEPT ![r.season] = table]
    /\ SetRating(s, NoRating)
    /\ UNCHANGED <<seasons, people, bent, moderations, writes>>

-----------------------------------------------------------------------------
(* Results.  An update of a missing row changes nothing.                   *)

NoFloor(n, k) == n - k   \* mutant: a rating may fall below zero
Minus(n, k) == IF k > n THEN 0 ELSE n - k   \* GREATEST(0, n - k)
CountsValid(row) == row.wins <= row.total /\ row.streak <= row.best

Won(row, gain) ==
    [row EXCEPT !.mmr = @ + gain, !.wins = @ + 1, !.total = @ + 1,
                !.streak = @ + 1, !.best = Max({@, row.streak + 1})]
Lost(row, loss) ==
    [row EXCEPT !.mmr = Minus(@, loss), !.total = @ + 1, !.streak = 0]
Settled(row, u, g) ==
    IF row = None \/ u \notin {g.red, g.blue} THEN row
    ELSE IF u = g.winner THEN Won(row, g.gain) ELSE Lost(row, g.loss)

Completed(m) == games[m] # None /\ games[m].status = "completed"
Competitors(g) == {g.red, g.blue}
Loser(g) == CHOOSE u \in Competitors(g) : u # g.winner
\* The ratings of g's competitors that a subtraction of k would cut at 0.
CutAt0(g, u, k) == IF stats[g.season][u] # None /\ stats[g.season][u].mmr < k
                   THEN {<<g.season, u>>} ELSE {}

\* A match is settled with a winner, or as a draw.
Settle(m) ==
    /\ games[m] # None
    /\ games[m].status = "playing"
    /\ \E winner \in Competitors(games[m]) \cup {None} :
       \E result \in IF winner = None THEN {<<0, 0>>} ELSE Results :
          LET g == [games[m] EXCEPT !.status = "completed", !.winner = winner,
                       !.gain = result[1], !.loss = result[2],
                       !.ended = 1 + Cardinality({n \in RankedMatches : Completed(n)})]
          IN
          /\ games' = [games EXCEPT ![m] = g]
          /\ stats' = [stats EXCEPT ![g.season] =
                          [u \in Players |-> Settled(@[u], u, g)]]
          /\ bent' = IF winner = None THEN bent
                     ELSE bent \cup CutAt0(g, Loser(g), g.loss)
    /\ UNCHANGED <<seasons, people, moderations, writes, ratReq>>

\* A moderator's request for a completed match reads it.
ReadMatch(s, m, r) ==
    /\ Runs(s, "idle")
    /\ moderations < MaxModerations
    /\ moderations' = moderations + 1
    /\ SetRating(s, [r EXCEPT !.match = m, !.was = games[m]])
    /\ UNCHANGED <<seasons, people, stats, games, bent, writes>>

EvenUndone(m) == Completed(m)   \* mutant: a reverted match is reverted again
Revertible(m) == Completed(m) /\ ~games[m].undone

RevertBegin(s, m) ==
    /\ Revertible(m)
    /\ ReadMatch(s, m, [NoRating EXCEPT !.op = "revert"])

\* Completed matches of a season that still count.
EvenReverted(rows, x) ==   \* mutant: reverted matches are looked at, too
    {m \in RankedMatches : /\ rows[m] # None
                           /\ rows[m].season = x
                           /\ rows[m].status = "completed"}
Retained(rows, x) ==
    {m \in RankedMatches : /\ rows[m] # None
                           /\ rows[m].season = x
                           /\ rows[m].status = "completed"
                           /\ ~rows[m].undone}
\* The matches of M that u won without a later one up to m that he did not win.
RunUpTo(rows, M, u, m) ==
    {n \in M : /\ rows[n].ended <= rows[m].ended
               /\ \A k \in M : rows[k].ended \in rows[n].ended..rows[m].ended =>
                     rows[k].winner = u}
\* The streak that u ends the matches of M with, and his best one.
StreakOf(rows, M, u) ==
    LET runs == {RunUpTo(rows, M, u, m) : m \in M}
        last == {m \in M : \A n \in M : rows[n].ended <= rows[m].ended} IN
    [streak |-> Max({0} \cup {Cardinality(RunUpTo(rows, M, u, m)) : m \in last}),
     best |-> Max({0} \cup {Cardinality(run) : run \in runs})]

\* The participations of u in the role that he had in g.
SameRole(rows, M, u, g) ==
    {m \in M : (u = g.red /\ rows[m].red = u) \/ (u = g.blue /\ rows[m].blue = u)}

Unsettled(row, u, g) ==
    [row EXCEPT
        !.mmr = IF u = g.winner THEN Minus(@, g.gain)
                ELSE IF g.winner # None THEN @ + g.loss ELSE @,
        !.wins = IF u = g.winner THEN Minus(@, 1) ELSE @,
        !.total = Minus(@, 1)]

Reverted(row, u, g, rows) ==
    IF row = None \/ u \notin Competitors(g) THEN row
    ELSE LET M == Retained(rows, g.season)
             now == StreakOf(rows, SameRole(rows, M, u, g), u) IN
         [Unsettled(row, u, g) EXCEPT !.streak = now.streak, !.best = now.best]

\* The ratings that somebody else's request for the match has made unreliable.
Overlapped(r) == IF games[r.match] = r.was THEN {}
                 ELSE {r.was.season} \X Competitors(r.was)

RevertCommit(s) ==
    LET r == ratReq[s]
        g == r.was
        rows == [games EXCEPT ![r.match].undone = TRUE] IN
    /\ Runs(s, "revert")
    /\ games' = rows
    /\ stats' = [stats EXCEPT ![g.season] =
                    [u \in Players |-> Reverted(@[u], u, g, rows)]]
    /\ \A u \in Players : stats'[g.season][u] # None =>
          CountsValid(stats'[g.season][u])
    /\ bent' = bent \cup Overlapped(r) \cup
          IF g.winner = None THEN {} ELSE CutAt0(g, g.winner, g.gain)
    /\ SetRating(s, NoRating)
    /\ UNCHANGED <<seasons, people, moderations, writes>>

\* PATCH /matches/:matchGuid/result
CorrectBegin(s, m, result) ==
    /\ Revertible(m)
    /\ games[m].winner # None
    /\ ReadMatch(s, m, [NoRating EXCEPT !.op = "correct",
                                         !.gain = result[1], !.loss = result[2]])

Corrected(row, u, r) ==
    IF row = None THEN None
    ELSE IF u = r.was.winner
    THEN [row EXCEPT !.mmr = Minus(@ + r.gain, r.was.gain)]
    ELSE IF u = Loser(r.was)
    THEN [row EXCEPT !.mmr = Minus(@ + r.was.loss, r.loss)] ELSE row

CorrectCommit(s) ==
    LET r == ratReq[s]
        g == r.was IN
    /\ Runs(s, "correct")
    /\ games' = [games EXCEPT ![r.match].gain = r.gain, ![r.match].loss = r.loss]
    /\ stats' = [stats EXCEPT ![g.season] =
                   [u \in Players |-> Corrected(@[u], u, r)]]
    /\ bent' = bent \cup Overlapped(r) \cup CutAt0(g, g.winner, Minus(g.gain, r.gain))
                    \cup CutAt0(g, Loser(g), Minus(r.loss, g.loss))
    /\ SetRating(s, NoRating)
    /\ UNCHANGED <<seasons, people, moderations, writes>>

\* The transaction of a request fails, or its checks refuse it.
RatingFails(s) ==
    /\ ~Runs(s, "idle")
    /\ SetRating(s, NoRating)
    /\ UNCHANGED <<seasons, people, stats, games, bent, moderations, writes>>

SeasonsNext ==
    \/ \E x \in SeasonNames :
          \/ CreateSeason(x)
          \/ PatchSeason(x)
          \/ FinishSeason(x)
          \/ DeleteSeason(x)
          \/ TimePasses(x)
    \/ \E u \in Players : Login(u)
    \/ \E s \in Slots :
          \/ \E u \in Players : SignUpBegin(s, u) \/ JoinQueue(s, u)
          \/ SignUpCommit(s)
          \/ JoinWaits(s)
          \/ JoinPairs(s)
          \/ RevertCommit(s)
          \/ CorrectCommit(s)
          \/ RatingFails(s)
          \/ \E m \in RankedMatches :
                \/ RevertBegin(s, m)
                \/ \E result \in Corrections : CorrectBegin(s, m, result)
    \/ \E m \in RankedMatches : Settle(m)

SeasonsSpec == SeasonsInit /\ [][SeasonsNext]_seasonsVars

-----------------------------------------------------------------------------
(* The rows of seasons, competitive_statistics and matches.                *)
SeasonsTypeOK ==
    /\ seasons \in [SeasonNames -> Season \cup {None}]
    /\ people \subseteq Players
    /\ stats \in [SeasonNames -> [Players -> Statistics \cup {None}]]
    /\ games \in [RankedMatches -> Game \cup {None}]
    /\ bent \subseteq SeasonNames \X Players
    /\ moderations \in 0..MaxModerations
    /\ writes \in 0..MaxWrites
    /\ ratReq \in [Slots -> RatingRequest]

(* Everybody who competes in a match has statistics of its season: the     *)
(* updates that settle and revert it find their rows, although the season  *)
(* may have begun while the players waited, or end before they settle.     *)
PlayersAreRated ==
    \A m \in RankedMatches : games[m] # None =>
        \A u \in Competitors(games[m]) : stats[games[m].season][u] # None

\* The sum of a function's naturals, as the number of pairs <<m, 1..f[m]>>.
Total(f) == Cardinality(UNION {{m} \X (1..f[m]) : m \in DOMAIN f})

\* A match that counts for u's statistics of the season x, and by how much.
Counts(g, x, u) ==
    /\ g # None
    /\ g.season = x /\ u \in Competitors(g)
    /\ g.status = "completed" /\ ~g.undone
GainOf(g, x, u) == IF Counts(g, x, u) /\ g.winner = u THEN g.gain ELSE 0
LossOf(g, x, u) == IF Counts(g, x, u) /\ g.winner \notin {None, u} THEN g.loss ELSE 0
PlayedBy(rows, x, u) == {m \in RankedMatches : Counts(rows[m], x, u)}
WonBy(rows, x, u) == {m \in PlayedBy(rows, x, u) : rows[m].winner = u}

MatchesHistory(row, rows, x, u) ==
    /\ row.mmr + Total([m \in RankedMatches |-> LossOf(rows[m], x, u)])
          = row.starting + Total([m \in RankedMatches |-> GainOf(rows[m], x, u)])
    /\ row.wins = Cardinality(WonBy(rows, x, u))
    /\ row.total = Cardinality(PlayedBy(rows, x, u))

(* A rating is the starting MMR with the gains and losses of the matches   *)
(* that count, and the counters are the numbers of these matches, after    *)
(* any settlements, corrections and reverts in any order, unless the       *)
(* rating was cut at 0 or two requests changed one match at the same time. *)
RatingMatchesHistory ==
    \A x \in SeasonNames, u \in Players :
        stats[x][u] # None /\ <<x, u>> \notin bent =>
            MatchesHistory(stats[x][u], games, x, u)

\* The completed matches of u in the season x, reverted ones included, and those
\* of them that count.
Completions(rows, x, u) ==
    {m \in RankedMatches : /\ rows[m] # None
                           /\ rows[m].season = x
                           /\ rows[m].status = "completed"
                           /\ u \in Competitors(rows[m])}
Mine(rows, x, u) == {m \in Completions(rows, x, u) : ~rows[m].undone}

\* A player who has only ever played one colour.
OneColour(rows, x, u) ==
    \/ \A m \in Completions(rows, x, u) : rows[m].red = u
    \/ \A m \in Completions(rows, x, u) : rows[m].blue = u

(* The streak and the best streak that the settlements have counted and    *)
(* the reverts have computed anew are those of the matches that count,     *)
(* whatever overlaps and whatever is cut at 0, as long as a player has     *)
(* only played one colour: revertMatchResult looks for the other matches   *)
(* of a player with the role that he had in the one that is reverted, so   *)
(* that those he has played in the other colour drop out of his streak.    *)
StreakOfOneColour ==
    \A x \in SeasonNames, u \in Players :
        stats[x][u] # None /\ OneColour(games, x, u) =>
            LET now == StreakOf(games, Mine(games, x, u), u) IN
            /\ stats[x][u].streak = now.streak
            /\ stats[x][u].best = now.best
=============================================================================
