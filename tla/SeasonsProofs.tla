----------------------------- MODULE SeasonsProofs -----------------------------
(***************************************************************************)
(* For any number of seasons, players, matches and requests at a time,     *)
(* everybody who competes in a match has statistics of its season, and     *)
(* those are the sums and counts of the matches he has played.             *)
(*                                                                         *)
(* Two things carry the first proof: no step removes statistics (Keeps),   *)
(* and a request of a moderator keeps hold of a match that exists (Holds). *)
(* The second rests on it (HistoryInv): a match and the statistics change  *)
(* in one commit, by the same difference (Applied), and a commit from a    *)
(* match that is no longer what its request has read leaves a mark (bent). *)
(* On it rests a third (StreakInv): the matches are numbered as they end,  *)
(* so that a result comes after all of those that count, and a revert      *)
(* finds in one role all matches of a player who has had one colour.       *)
(***************************************************************************)
EXTENDS Seasons, FiniteSetTheorems, WellFoundedInduction, TLAPS

\* A match of two players.
Duel(g) == g \in Game /\ g.red # g.blue

\* What a request has in hand.
Holds(r, rows) ==
    /\ r.op \in {"sign_up", "join"} => r.player \in Players
    /\ r.op = "join" => r.season \in SeasonNames
    /\ r.op \in {"revert", "correct"} =>
          /\ r.match \in RankedMatches
          /\ Duel(r.was)
          /\ r.op = "correct" => r.was.winner # None
          /\ rows[r.match] # None

\* The inductive invariant.
SeasonsInv ==
    /\ SeasonsTypeOK
    /\ \A m \in RankedMatches : games[m] # None => Duel(games[m])
    /\ \A s \in Slots : Holds(ratReq[s], games)
    /\ PlayersAreRated

Table == [Players -> Statistics \cup {None}]

-----------------------------------------------------------------------------
(* Arithmetic.                                                             *)

\* A bounded set of naturals has a greatest element (code: Math.max).
LEMMA MaxGreatest ==
    ASSUME NEW n \in Nat, NEW S \in SUBSET (0..n), S # {}
    PROVE  /\ Max(S) \in S
           /\ \A x \in S : Max(S) >= x
  <1> DEFINE T == {n - x : x \in S}
  <1>1. T \subseteq Nat /\ T # {}
    <2>1. \A x \in S : x \in Nat /\ x <= n
      OBVIOUS
    <2>2. \A x \in S : n - x \in Nat
      BY <2>1
    <2> QED BY <2>2
  <1>2. \E x \in T : \A y \in T : ~(<<y, x>> \in OpToRel(<, Nat))
    BY <1>1, NatLessThanWellFounded, WFMin
  <1>3. \E x \in T : \A y \in T : ~(y < x)
    BY <1>1, <1>2 DEF OpToRel
  <1>4. \E x \in S : \A y \in S : x >= y
    <2>1. PICK t \in T : \A y \in T : ~(y < t)
      BY <1>3
    <2>2. PICK x \in S : t = n - x
      BY <2>1
    <2>3. \A y \in S : ~(n - y < n - x)
      BY <2>1, <2>2
    <2>4. \A y \in S : y \in Int
      OBVIOUS
    <2>5. \A y \in S : x >= y
      BY <2>3, <2>4
    <2> QED BY <2>5
  <1> DEFINE P(x) == \A y \in S : x >= y
  <1>5. \E x \in S : P(x)
    BY <1>4
  <1>6. LET x == CHOOSE x \in S : P(x) IN x \in S /\ P(x)
    <2> HIDE DEF P
    <2> QED BY <1>5, Zenon
  <1>7. Max(S) = CHOOSE x \in S : P(x)
    BY Zenon DEF Max
  <1>8. Max(S) \in S /\ P(Max(S))
    <2> HIDE DEF P
    <2> QED BY <1>6, <1>7
  <1> QED BY <1>8

\* It is a number.
LEMMA MaxTyped ==
    ASSUME NEW n \in Nat, NEW S \in SUBSET (0..n), S # {}
    PROVE  Max(S) \in Nat
  <1>1. Max(S) \in S
    BY MaxGreatest
  <1>2. \A x \in S : x \in Nat
    OBVIOUS
  <1> QED BY <1>1, <1>2

\* The greatest of some numbers, one of which is not below any other.
LEMMA MaxIs ==
    ASSUME NEW n \in Nat, NEW S \in SUBSET (0..n), NEW k \in S, \A x \in S : x <= k
    PROVE  Max(S) = k
  <1>1. Max(S) \in S /\ \A x \in S : Max(S) >= x
    BY MaxGreatest
  <1>2. Max(S) >= k /\ Max(S) <= k
    BY <1>1
  <1>3. \A x \in S : x \in Int
    OBVIOUS
  <1>4. Max(S) \in Int /\ k \in Int
    BY <1>1, <1>3, Zenon
  <1> QED BY <1>2, <1>4

\* One more number.
LEMMA MaxMore ==
    ASSUME NEW n \in Nat, NEW S \in SUBSET (0..n), S # {}, NEW k \in 0..n
    PROVE  Max(S \cup {k}) = Max({Max(S), k})
  <1>1. Max(S) \in S /\ \A x \in S : Max(S) >= x
    BY MaxGreatest
  <1>2. Max(S) \in 0..n
    BY <1>1
  <1>3. CASE k >= Max(S)
    <2>1. Max({Max(S), k}) = k
      BY <1>2, <1>3, MaxIs, {Max(S), k} \in SUBSET (0..n), k \in {Max(S), k}
    <2>2. Max(S \cup {k}) = k
      <3>1. \A x \in S \cup {k} : x <= k
        BY <1>1, <1>2, <1>3
      <3> QED BY <3>1, MaxIs, S \cup {k} \in SUBSET (0..n), k \in S \cup {k}
    <2> QED BY <2>1, <2>2
  <1>4. CASE k < Max(S)
    <2>1. Max({Max(S), k}) = Max(S)
      <3>1. \A x \in {Max(S), k} : x <= Max(S)
        BY <1>2, <1>4
      <3> QED BY <1>2, <3>1, MaxIs, {Max(S), k} \in SUBSET (0..n), Max(S) \in {Max(S), k}
    <2>2. Max(S \cup {k}) = Max(S)
      <3>1. \A x \in S \cup {k} : x <= Max(S)
        BY <1>1, <1>2, <1>4
      <3> QED BY <1>1, <3>1, MaxIs, S \cup {k} \in SUBSET (0..n), Max(S) \in S \cup {k}
    <2> QED BY <2>1, <2>2
  <1> QED BY <1>2, <1>3, <1>4

\* The number of some of the matches.
LEMMA CountTyped ==
    ASSUME NEW M \in SUBSET RankedMatches
    PROVE  /\ Cardinality(RankedMatches) \in Nat
           /\ Cardinality(M) \in 0..Cardinality(RankedMatches)
  <1>1. IsFiniteSet(RankedMatches)
    BY SeasonsAssumption
  <1>2. IsFiniteSet(M) /\ Cardinality(M) <= Cardinality(RankedMatches)
    BY <1>1, FS_Subset
  <1>3. Cardinality(M) \in Nat /\ Cardinality(RankedMatches) \in Nat
    BY <1>1, <1>2, FS_CardinalityType
  <1> QED BY <1>2, <1>3

\* The streaks that a set of matches gives are numbers.
LEMMA StreakTyped ==
    ASSUME NEW rows, NEW M \in SUBSET RankedMatches, NEW u
    PROVE  /\ StreakOf(rows, M, u).streak \in Nat
           /\ StreakOf(rows, M, u).best \in Nat
  <1> DEFINE last == {m \in M : \A n \in M : rows[n].ended <= rows[m].ended}
             N == Cardinality(RankedMatches)
             A == {0} \cup {Cardinality(RunUpTo(rows, M, u, m)) : m \in last}
             B == {0} \cup {Cardinality(run) : run \in {RunUpTo(rows, M, u, m) : m \in M}}
  <1>1. N \in Nat
    BY CountTyped, RankedMatches \in SUBSET RankedMatches
  <1>2. \A m \in M : RunUpTo(rows, M, u, m) \in SUBSET RankedMatches
    BY DEF RunUpTo
  <1>3. \A m \in M : Cardinality(RunUpTo(rows, M, u, m)) \in 0..N
    BY <1>2, CountTyped
  <1>4. A \in SUBSET (0..N) /\ A # {}
    BY <1>1, <1>3
  <1>5. B \in SUBSET (0..N) /\ B # {}
    BY <1>1, <1>3
  <1>6. Max(A) \in Nat /\ Max(B) \in Nat
    <2> HIDE DEF N, A, B
    <2> QED BY <1>1, <1>4, <1>5, MaxTyped
  <1>7. StreakOf(rows, M, u) = [streak |-> Max(A), best |-> Max(B)]
    BY DEF StreakOf
  <1> QED BY <1>6, <1>7

\* A subtraction that stops at 0.
LEMMA MinusTyped == ASSUME NEW n \in Nat, NEW k \in Nat PROVE Minus(n, k) \in Nat
  BY DEF Minus

-----------------------------------------------------------------------------
(* Statistics stay statistics.                                             *)

\* A table of which no row is lost.
Keeps(old, new) == new \in Table /\ \A u \in Players : old[u] # None => new[u] # None

\* A new row.
LEMMA FreshTyped == ASSUME NEW mmr \in Nat PROVE Fresh(mmr) \in Statistics
  BY DEF Fresh, Statistics

\* What is inserted for those who have no row.
LEMMA EnsureKeeps ==
    ASSUME NEW table \in Table, NEW U, NEW mmr \in Nat
    PROVE  /\ Keeps(table, Ensure(table, U, mmr))
           /\ \A u \in Players : u \in U => Ensure(table, U, mmr)[u] # None
  <1>1. Fresh(mmr) \in Statistics /\ Fresh(mmr) # None
    BY FreshTyped, RowsAreNotNone
  <1> QED BY <1>1 DEF Keeps, Ensure, Table

\* The rows after a win and a loss.
LEMMA SettledTyped ==
    ASSUME NEW row \in Statistics, NEW k \in Nat
    PROVE  Won(row, k) \in Statistics /\ Lost(row, k) \in Statistics
  <1>1. /\ row.mmr \in Nat /\ row.wins \in Nat /\ row.total \in Nat
        /\ row.streak \in Nat /\ row.best \in Nat
    BY DEF Statistics
  <1>2. Max({row.best, row.streak + 1}) \in Nat
    <2>1. {row.best, row.streak + 1} \in SUBSET (0..(row.best + row.streak + 1))
      BY <1>1
    <2>2. row.best + row.streak + 1 \in Nat
      BY <1>1
    <2> QED BY <2>1, <2>2, MaxTyped
  <1>3. Minus(row.mmr, k) \in Nat
    BY <1>1, MinusTyped
  <1>4. Won(row, k) \in Statistics
    <2> DEFINE best == Max({row.best, row.streak + 1})
               mmr == row.mmr + k
               wins == row.wins + 1
               total == row.total + 1
               streak == row.streak + 1
    <2>1. mmr \in Nat /\ wins \in Nat /\ total \in Nat /\ streak \in Nat
      BY <1>1
    <2>2. Won(row, k) = [row EXCEPT !.mmr = mmr, !.wins = wins, !.total = total,
                                    !.streak = streak, !.best = best]
      BY Zenon DEF Won
    <2>3. best \in Nat
      BY <1>2
    <2> HIDE DEF best, mmr, wins, total, streak
    <2> QED BY <2>1, <2>2, <2>3 DEF Statistics
  <1>5. Lost(row, k) \in Statistics
    <2> DEFINE mmr == Minus(row.mmr, k)
               total == row.total + 1
               streak == 0
    <2>1. mmr \in Nat /\ total \in Nat /\ streak \in Nat
      BY <1>1, <1>3
    <2>2. Lost(row, k) = [row EXCEPT !.mmr = mmr, !.total = total, !.streak = streak]
      BY Zenon DEF Lost
    <2> HIDE DEF mmr, total, streak
    <2> QED BY <2>1, <2>2 DEF Statistics
  <1> QED BY <1>4, <1>5

\* The fields of a match.
LEMMA GameTyped ==
    ASSUME NEW g \in Game
    PROVE  /\ g.season \in SeasonNames
           /\ g.red \in Players /\ g.blue \in Players
           /\ g.winner \in Players \cup {None}
           /\ g.gain \in Nat /\ g.loss \in Nat /\ g.ended \in Nat
           /\ g # None
  BY RowsAreNotNone DEF Game

\* The loser is a player.
LEMMA LoserTyped ==
    ASSUME NEW g, Duel(g)
    PROVE  Loser(g) \in Players /\ Loser(g) \in Competitors(g)
  <1>1. g.red \in Players /\ g.blue \in Players /\ g.red # g.blue
    BY GameTyped DEF Duel
  <1>2. \E u \in Competitors(g) : u # g.winner
    BY <1>1 DEF Competitors
  <1>3. Loser(g) \in Competitors(g)
    BY <1>2 DEF Loser
  <1> QED BY <1>1, <1>3 DEF Competitors

\* A result is applied to the rows of both players.
LEMMA SettleKeeps ==
    ASSUME NEW table \in Table, NEW g \in Game
    PROVE  Keeps(table, [u \in Players |-> Settled(table[u], u, g)])
  <1>1. ASSUME NEW u \in Players
        PROVE  /\ Settled(table[u], u, g) \in Statistics \cup {None}
               /\ table[u] # None => Settled(table[u], u, g) # None
    <2>1. table[u] \in Statistics \cup {None} /\ g.gain \in Nat /\ g.loss \in Nat
      BY GameTyped DEF Table
    <2>2. CASE table[u] = None
      BY <2>2 DEF Settled
    <2>3. CASE table[u] # None
      <3>1. /\ Won(table[u], g.gain) \in Statistics
            /\ Lost(table[u], g.loss) \in Statistics
        BY <2>1, <2>3, SettledTyped
      <3>2. Settled(table[u], u, g) \in Statistics
        BY <2>1, <2>3, <3>1 DEF Settled
      <3> QED BY <3>2, RowsAreNotNone
    <2> QED BY <2>2, <2>3
  <1> QED BY <1>1 DEF Keeps, Table

\* A result is taken back from the rows of both players.
LEMMA RevertKeeps ==
    ASSUME NEW table \in Table, NEW g \in Game, NEW rows
    PROVE  Keeps(table, [u \in Players |-> Reverted(table[u], u, g, rows)])
  <1>1. ASSUME NEW u \in Players
        PROVE  /\ Reverted(table[u], u, g, rows) \in Statistics \cup {None}
               /\ table[u] # None => Reverted(table[u], u, g, rows) # None
    <2>1. table[u] \in Statistics \cup {None} /\ g.gain \in Nat /\ g.loss \in Nat
      BY GameTyped DEF Table
    <2>2. CASE table[u] = None \/ u \notin Competitors(g)
      BY <2>1, <2>2 DEF Reverted
    <2>3. CASE table[u] # None /\ u \in Competitors(g)
      <3> DEFINE row == table[u]
                 M == SameRole(rows, Retained(rows, g.season), u, g)
                 now == StreakOf(rows, M, u)
                 mmr == IF u = g.winner THEN Minus(row.mmr, g.gain)
                        ELSE IF g.winner # None THEN row.mmr + g.loss ELSE row.mmr
                 wins == IF u = g.winner THEN Minus(row.wins, 1) ELSE row.wins
      <3>1. /\ row \in Statistics
            /\ row.mmr \in Nat /\ row.wins \in Nat /\ row.total \in Nat
        BY <2>1, <2>3 DEF Statistics
      <3>2. M \in SUBSET RankedMatches
        BY DEF SameRole, Retained
      <3>3. now.streak \in Nat /\ now.best \in Nat
        BY <3>2, StreakTyped
      <3>4. mmr \in Nat
        <4> HIDE DEF row
        <4>1. Minus(row.mmr, g.gain) \in Nat
          BY <2>1, <3>1, MinusTyped
        <4>2. row.mmr + g.loss \in Nat
          BY <2>1, <3>1
        <4> QED BY <3>1, <4>1, <4>2
      <3>5. wins \in Nat
        BY <3>1, MinusTyped
      <3>6. Minus(row.total, 1) \in Nat
        BY <3>1, MinusTyped
      <3>7. Unsettled(row, u, g) =
               [row EXCEPT !.mmr = mmr, !.wins = wins, !.total = Minus(row.total, 1)]
        BY <3>1 DEF Unsettled, Statistics
      <3>8. Unsettled(row, u, g) \in Statistics
        <4> HIDE DEF mmr, wins
        <4> QED BY <3>1, <3>4, <3>5, <3>6, <3>7 DEF Statistics
      <3>9. Reverted(row, u, g, rows) =
               [Unsettled(row, u, g) EXCEPT !.streak = now.streak, !.best = now.best]
        BY <2>3 DEF Reverted
      <3>10. Reverted(row, u, g, rows) \in Statistics
        <4> HIDE DEF now
        <4> QED BY <3>3, <3>8, <3>9 DEF Statistics
      <3> QED BY <3>10, RowsAreNotNone
    <2> QED BY <2>2, <2>3
  <1> QED BY <1>1 DEF Keeps, Table

\* A correction of the rows of both players.
LEMMA CorrectKeeps ==
    ASSUME NEW table \in Table, NEW r \in RatingRequest, r.was \in Game
    PROVE  Keeps(table, [u \in Players |-> Corrected(table[u], u, r)])
  <1>0. /\ r.gain \in Nat /\ r.loss \in Nat
        /\ r.was.gain \in Nat /\ r.was.loss \in Nat
    BY GameTyped DEF RatingRequest
  <1>1. ASSUME NEW u \in Players
        PROVE  /\ Corrected(table[u], u, r) \in Statistics \cup {None}
               /\ table[u] # None => Corrected(table[u], u, r) # None
    <2>1. table[u] \in Statistics \cup {None}
      BY DEF Table
    <2>2. CASE table[u] = None
      BY <2>2 DEF Corrected
    <2>3. CASE table[u] # None
      <3>1. table[u] \in Statistics /\ table[u].mmr \in Nat
        BY <2>1, <2>3 DEF Statistics
      <3>2. /\ table[u].mmr + r.gain \in Nat
            /\ table[u].mmr + r.was.loss \in Nat
        BY <1>0, <3>1
      <3>3. /\ Minus(table[u].mmr + r.gain, r.was.gain) \in Nat
            /\ Minus(table[u].mmr + r.was.loss, r.loss) \in Nat
        BY <1>0, <3>2, MinusTyped
      <3>4. \A k \in Nat : [table[u] EXCEPT !.mmr = k] \in Statistics
        BY <3>1 DEF Statistics
      <3>5. Corrected(table[u], u, r) \in Statistics
        BY <2>3, <3>1, <3>3, <3>4 DEF Corrected
      <3> QED BY <3>5, RowsAreNotNone
    <2> QED BY <2>2, <2>3
  <1> QED BY <1>1 DEF Keeps, Table

-----------------------------------------------------------------------------
(* The steps.                                                              *)

\* The parts of the type invariant.
StatsTyped(table) == table \in [SeasonNames -> Table]
RestTyped ==
    /\ seasons \in [SeasonNames -> Season \cup {None}]
    /\ people \subseteq Players
    /\ bent \subseteq SeasonNames \X Players
    /\ moderations \in 0..MaxModerations
    /\ writes \in 0..MaxWrites

\* What a step may do to the statistics and the matches: no row of statistics
\* goes, the matches keep their players and season, and new ones are rated.
Carries ==
    /\ StatsTyped(stats')
    /\ \A x \in SeasonNames : Keeps(stats[x], stats'[x])
    /\ games' \in [RankedMatches -> Game \cup {None}]
    /\ \A m \in RankedMatches : games[m] # None => games'[m] # None
    /\ \A m \in RankedMatches : games'[m] # None =>
          /\ Duel(games'[m])
          /\ \/ /\ games[m] # None
                /\ games'[m].season = games[m].season
                /\ Competitors(games'[m]) = Competitors(games[m])
             \/ \A u \in Competitors(games'[m]) : stats'[games'[m].season][u] # None

\* A request that is answered has nothing.
LEMMA NoRatingSound ==
    /\ NoRating \in RatingRequest
    /\ NoRating.op = "idle"
    /\ NoRating.player = None
  BY DEF NoRating, RatingRequest

\* The invariant's conjuncts, as the lemmas need them.
LEMMA InvParts ==
    ASSUME SeasonsInv
    PROVE  /\ RestTyped /\ StatsTyped(stats)
           /\ games \in [RankedMatches -> Game \cup {None}]
           /\ ratReq \in [Slots -> RatingRequest]
           /\ \A x \in SeasonNames : Keeps(stats[x], stats[x])
           /\ \A s \in Slots : ratReq[s] \in RatingRequest /\ Holds(ratReq[s], games)
           /\ \A m \in RankedMatches : games[m] # None => Duel(games[m])
  BY DEF SeasonsInv, SeasonsTypeOK, RestTyped, StatsTyped, Table, Keeps

\* A step that leaves the requests alone, or one of them in a sound state.
LEMMA StepSound ==
    ASSUME SeasonsInv, RestTyped', Carries,
           \/ ratReq' = ratReq
           \/ \E s \in Slots, r \in RatingRequest : Holds(r, games') /\ SetRating(s, r)
    PROVE  SeasonsInv'
  <1>1. ratReq' \in [Slots -> RatingRequest]
    BY InvParts DEF SetRating
  <1>2. \A r \in RatingRequest : Holds(r, games) => Holds(r, games')
    BY DEF Carries, Holds
  <1>3. \A s \in Slots : Holds(ratReq'[s], games')
    BY <1>2, InvParts DEF SetRating
  <1>4. SeasonsTypeOK'
    BY <1>1 DEF RestTyped, Carries, StatsTyped, Table, SeasonsTypeOK
  <1>5. \A m \in RankedMatches : games'[m] # None => Duel(games'[m])
    BY DEF Carries
  <1>6. PlayersAreRated'
    <2> SUFFICES ASSUME NEW m \in RankedMatches, games'[m] # None,
                        NEW u \in Competitors(games'[m])
                 PROVE  stats'[games'[m].season][u] # None
      BY DEF PlayersAreRated
    <2>1. Duel(games'[m])
      BY <1>5
    <2>2. games'[m].season \in SeasonNames /\ u \in Players
      BY <2>1, GameTyped DEF Duel, Competitors
    <2>3. CASE /\ games[m] # None
               /\ games'[m].season = games[m].season
               /\ Competitors(games'[m]) = Competitors(games[m])
      <3>1. stats[games[m].season][u] # None
        BY <2>3 DEF SeasonsInv, PlayersAreRated
      <3> QED BY <2>2, <2>3, <3>1 DEF Carries, Keeps
    <2> QED BY <2>3 DEF Carries
  <1> QED BY <1>3, <1>4, <1>5, <1>6 DEF SeasonsInv

\* Nothing of the statistics and matches changes.
LEMMA CarriesUnchanged ==
    ASSUME SeasonsInv, stats' = stats, games' = games
    PROVE  Carries
  BY InvParts DEF Carries

\* The statistics of one season change, the matches do not.
LEMMA CarriesSeason ==
    ASSUME SeasonsInv, NEW x \in SeasonNames, NEW table,
           Keeps(stats[x], table),
           stats' = [stats EXCEPT ![x] = table], games' = games
    PROVE  Carries
  <1>1. table \in Table
    BY DEF Keeps
  <1>2. \A y \in SeasonNames : stats'[y] = IF y = x THEN table ELSE stats[y]
    BY InvParts DEF StatsTyped
  <1>3. StatsTyped(stats')
    BY <1>1, InvParts DEF StatsTyped
  <1>4. \A y \in SeasonNames : Keeps(stats[y], stats'[y])
    BY <1>2, InvParts
  <1> QED BY <1>3, <1>4, InvParts DEF Carries

\* A write is counted.
LEMMA WrittenTyped == ASSUME RestTyped, Written PROVE writes' \in 0..MaxWrites
  BY SeasonsAssumption DEF RestTyped, Written

\* CreateSeason and PatchSeason.
LEMMA WriteSeasonSound ==
    ASSUME SeasonsInv, NEW x \in SeasonNames, NEW row \in Season, WriteSeason(x, row)
    PROVE  SeasonsInv'
  <1>1. RestTyped'
    BY InvParts, WrittenTyped DEF WriteSeason, RestTyped
  <1>2. StartingMmr \in Nat
    BY SeasonsAssumption
  <1>3. stats[x] \in Table
    BY InvParts DEF StatsTyped
  <1>4. Keeps(stats[x], Ensure(stats[x], people, StartingMmr))
    BY <1>2, <1>3, EnsureKeeps
  <1>5. Carries
    BY <1>4, CarriesUnchanged, CarriesSeason DEF WriteSeason
  <1>6. ratReq' = ratReq
    BY DEF WriteSeason
  <1> QED BY <1>1, <1>5, <1>6, StepSound

\* FinishSeason.
LEMMA FinishSeasonSound ==
    ASSUME SeasonsInv, NEW x \in SeasonNames, FinishSeason(x)
    PROVE  SeasonsInv'
  <1> DEFINE frozen(u) == IF stats[x][u] = None THEN None
                          ELSE [stats[x][u] EXCEPT !.ending = stats[x][u].mmr]
             table == [u \in Players |-> frozen(u)]
  <1>1. /\ seasons' = [seasons EXCEPT ![x] = [current |-> FALSE, phase |-> "over"]]
        /\ stats' = [stats EXCEPT ![x] = table]
        /\ Written
        /\ UNCHANGED <<people, games, bent, moderations, ratReq>>
    BY DEF FinishSeason
  <1>2. [current |-> FALSE, phase |-> "over"] \in Season
    BY DEF Season
  <1>3. RestTyped'
    BY <1>1, <1>2, InvParts, WrittenTyped DEF RestTyped
  <1>4. \A u \in Players : stats[x][u] \in Statistics \cup {None}
    BY InvParts DEF StatsTyped, Table
  <1>5. \A u \in Players : stats[x][u] # None => frozen(u) \in Statistics
    <2> SUFFICES ASSUME NEW u \in Players, stats[x][u] # None
                 PROVE  [stats[x][u] EXCEPT !.ending = stats[x][u].mmr] \in Statistics
      OBVIOUS
    <2> QED BY <1>4 DEF Statistics
  <1>6. Keeps(stats[x], table)
    BY <1>4, <1>5, RowsAreNotNone DEF Keeps, Table
  <1>7. Carries
    <2> HIDE DEF table
    <2> QED BY <1>1, <1>6, CarriesSeason
  <1> QED BY <1>1, <1>3, <1>7, StepSound

\* DeleteSeason and TimePasses do not touch statistics.
LEMMA SeasonRowsSound ==
    ASSUME SeasonsInv, NEW x \in SeasonNames, DeleteSeason(x) \/ TimePasses(x)
    PROVE  SeasonsInv'
  <1>1. stats' = stats /\ games' = games /\ ratReq' = ratReq
    BY DEF DeleteSeason, TimePasses
  <1>2. CASE DeleteSeason(x)
    <2>1. RestTyped'
      BY <1>2, InvParts, WrittenTyped DEF DeleteSeason, RestTyped
    <2> QED BY <1>1, <2>1, CarriesUnchanged, StepSound
  <1>3. CASE TimePasses(x)
    <2>1. PICK phase \in {"open", "over"} :
             seasons' = [seasons EXCEPT ![x].phase = phase]
      BY <1>3 DEF TimePasses
    <2>2. seasons[x] \in Season
      BY <1>3, InvParts DEF TimePasses, RestTyped
    <2>3. [seasons[x] EXCEPT !.phase = phase] \in Season
      BY <2>2 DEF Season
    <2>4. RestTyped'
      BY <1>3, <2>1, <2>3, InvParts DEF TimePasses, RestTyped
    <2> QED BY <1>1, <2>4, CarriesUnchanged, StepSound
  <1> QED BY <1>2, <1>3

\* Requests of players that begin.
LEMMA PlayerBeginsSound ==
    ASSUME SeasonsInv, NEW s \in Slots, NEW u \in Players,
           SignUpBegin(s, u) \/ JoinQueue(s, u)
    PROVE  SeasonsInv'
  <1>1. UNCHANGED <<seasons, people, stats, games, bent, moderations, writes>>
    BY DEF SignUpBegin, JoinQueue
  <1>2. RestTyped'
    BY <1>1, InvParts DEF RestTyped
  <1>3. Carries
    BY <1>1, CarriesUnchanged, SMTT(60)
  <1>4. PICK op \in {"sign_up", "join"}, x \in SeasonNames \cup {None} :
           /\ SetRating(s, [NoRating EXCEPT !.op = op, !.player = u, !.season = x])
           /\ op = "join" => x \in SeasonNames
    BY DEF SignUpBegin, JoinQueue, CurrentSeason
  <1> DEFINE r == [NoRating EXCEPT !.op = op, !.player = u, !.season = x]
  <1>5. r \in RatingRequest /\ r.op = op /\ r.player = u /\ r.season = x
    BY NoRatingSound DEF RatingRequest
  <1>6. SetRating(s, r)
    BY <1>4
  <1> HIDE DEF r
  <1>7. Holds(r, games')
    BY <1>4, <1>5 DEF Holds
  <1> QED BY <1>2, <1>3, <1>5, <1>6, <1>7, StepSound

\* Requests that end.
LEMMA AnsweredSound ==
    ASSUME SeasonsInv, RestTyped', Carries, NEW s \in Slots, SetRating(s, NoRating)
    PROVE  SeasonsInv'
  <1>1. Holds(NoRating, games')
    BY NoRatingSound DEF Holds
  <1> QED BY <1>1, NoRatingSound, StepSound

\* SignUpCommit.
LEMMA SignUpCommitSound ==
    ASSUME SeasonsInv, NEW s \in Slots, SignUpCommit(s)
    PROVE  SeasonsInv'
  <1> DEFINE r == ratReq[s]
  <1>1. r.player \in Players
    BY InvParts DEF SignUpCommit, Runs, Holds
  <1>2. RestTyped'
    BY <1>1, InvParts DEF SignUpCommit, RestTyped
  <1>3. \A x \in SeasonNames : stats'[x] =
           IF x = r.season THEN Ensure(stats[x], {r.player}, StartingMmr) ELSE stats[x]
    BY DEF SignUpCommit
  <1>4. \A x \in SeasonNames : Keeps(stats[x], stats'[x])
    <2> SUFFICES ASSUME NEW x \in SeasonNames PROVE Keeps(stats[x], stats'[x])
      OBVIOUS
    <2>1. stats[x] \in Table /\ Keeps(stats[x], stats[x]) /\ StartingMmr \in Nat
      BY InvParts, SeasonsAssumption DEF StatsTyped
    <2>2. Keeps(stats[x], Ensure(stats[x], {r.player}, StartingMmr))
      BY <2>1, EnsureKeeps
    <2> QED BY <1>3, <2>1, <2>2
  <1>5. \A x \in SeasonNames : stats'[x] \in Table
    BY <1>4 DEF Keeps
  <1>6. StatsTyped(stats')
    BY <1>5 DEF SignUpCommit, StatsTyped
  <1>7. Carries
    BY <1>4, <1>6, InvParts DEF SignUpCommit, Carries
  <1> QED BY <1>2, <1>7, AnsweredSound DEF SignUpCommit

\* Login.
LEMMA LoginSound ==
    ASSUME SeasonsInv, NEW u \in Players, Login(u)
    PROVE  SeasonsInv'
  <1>1. RestTyped'
    BY InvParts DEF Login, RestTyped
  <1>2. \A x \in SeasonNames : stats'[x] =
           IF x \in CurrentSeason THEN Ensure(stats[x], {u}, DefaultMmr) ELSE stats[x]
    BY DEF Login
  <1>3. \A x \in SeasonNames : Keeps(stats[x], stats'[x])
    <2> SUFFICES ASSUME NEW x \in SeasonNames PROVE Keeps(stats[x], stats'[x])
      OBVIOUS
    <2>1. stats[x] \in Table /\ Keeps(stats[x], stats[x]) /\ DefaultMmr \in Nat
      BY InvParts, SeasonsAssumption DEF StatsTyped
    <2>2. Keeps(stats[x], Ensure(stats[x], {u}, DefaultMmr))
      BY <2>1, EnsureKeeps
    <2> QED BY <1>2, <2>1, <2>2
  <1>4. \A x \in SeasonNames : stats'[x] \in Table
    BY <1>3 DEF Keeps
  <1>5. StatsTyped(stats')
    BY <1>4 DEF Login, StatsTyped
  <1>6. Carries
    BY <1>3, <1>5, InvParts DEF Login, Carries
  <1> QED BY <1>1, <1>6, StepSound DEF Login

\* JoinWaits.
LEMMA JoinWaitsSound ==
    ASSUME SeasonsInv, NEW s \in Slots, JoinWaits(s)
    PROVE  SeasonsInv'
  <1>1. ratReq[s].season \in SeasonNames /\ StartingMmr \in Nat
    BY InvParts, SeasonsAssumption DEF JoinWaits, Runs, Holds
  <1>2. stats[ratReq[s].season] \in Table
    BY <1>1, InvParts DEF StatsTyped
  <1>3. Keeps(stats[ratReq[s].season],
              Ensure(stats[ratReq[s].season], {ratReq[s].player}, StartingMmr))
    BY <1>1, <1>2, EnsureKeeps
  <1>4. Carries
    BY <1>1, <1>3, CarriesSeason DEF JoinWaits
  <1>5. RestTyped'
    BY InvParts DEF JoinWaits, RestTyped
  <1> QED BY <1>4, <1>5, AnsweredSound DEF JoinWaits

\* A join that commits with a match.
LEMMA JoinPairsSound ==
    ASSUME SeasonsInv, NEW s \in Slots, JoinPairs(s)
    PROVE  SeasonsInv'
  <1> DEFINE x == ratReq[s].season
             p == ratReq[s].player
             table == Ensure(stats[x], {p}, StartingMmr)
  <1>1. x \in SeasonNames /\ p \in Players /\ StartingMmr \in Nat
    BY InvParts, SeasonsAssumption DEF JoinPairs, Runs, Holds
  <1>2. stats[x] \in Table
    BY <1>1, InvParts DEF StatsTyped
  <1>3. Keeps(stats[x], table) /\ table[p] # None
    BY <1>1, <1>2, EnsureKeeps
  <1>4. PICK m \in RankedMatches, v \in Rated(table) \ {p},
             red \in Players, blue \in Players :
           /\ games[m] = None
           /\ {red, blue} = {p, v}
           /\ games' = [games EXCEPT ![m] =
                [season |-> x, red |-> red, blue |-> blue,
                 status |-> "playing", winner |-> None, gain |-> 0, loss |-> 0,
                 undone |-> FALSE, ended |-> 0]]
    BY DEF JoinPairs
  <1>5. stats' = [stats EXCEPT ![x] = table] /\ SetRating(s, NoRating)
    BY DEF JoinPairs
  <1>6. RestTyped'
    BY InvParts DEF JoinPairs, RestTyped
  <1> DEFINE g == [season |-> x, red |-> red, blue |-> blue,
                   status |-> "playing", winner |-> None, gain |-> 0, loss |-> 0,
                   undone |-> FALSE, ended |-> 0]
  <1>7. /\ g \in Game
        /\ g.season = x /\ g.red = red /\ g.blue = blue
    BY <1>1 DEF Game
  <1>8. games' = [games EXCEPT ![m] = g]
    BY <1>4
  <1>9. red # blue
    BY <1>4
  <1>10. table[red] # None /\ table[blue] # None
    BY <1>3, <1>4 DEF Rated
  <1> HIDE DEF table, g
  <1>11. Duel(g) /\ g # None
    BY <1>7, <1>9, RowsAreNotNone DEF Duel
  <1>12. \A y \in SeasonNames : stats'[y] = IF y = x THEN table ELSE stats[y]
    BY <1>5, InvParts DEF StatsTyped
  <1>13. table \in Table
    BY <1>3 DEF Keeps
  <1>14. StatsTyped(stats')
    BY <1>1, <1>5, <1>13, InvParts DEF StatsTyped
  <1>15. \A y \in SeasonNames : Keeps(stats[y], stats'[y])
    BY <1>3, <1>12, InvParts
  <1>16. \A n \in RankedMatches : games'[n] = IF n = m THEN g ELSE games[n]
    BY <1>8, InvParts
  <1>17. games' \in [RankedMatches -> Game \cup {None}]
    BY <1>7, <1>8, InvParts
  <1>18. \A u \in Competitors(g) : stats'[g.season][u] # None
    BY <1>1, <1>7, <1>10, <1>12 DEF Competitors
  <1>19. Carries
    BY <1>11, <1>14, <1>15, <1>16, <1>17, <1>18, InvParts DEF Carries
  <1> QED BY <1>5, <1>6, <1>19, AnsweredSound

\* One match is changed, with its players and season, and its players' rows.
LEMMA CarriesMatch ==
    ASSUME SeasonsInv, NEW m \in RankedMatches, NEW g, Duel(g), games[m] # None,
           g.season = games[m].season, Competitors(g) = Competitors(games[m]),
           games' = [games EXCEPT ![m] = g],
           NEW x \in SeasonNames, NEW table, Keeps(stats[x], table),
           stats' = [stats EXCEPT ![x] = table]
    PROVE  Carries
  <1>1. g \in Game /\ g # None
    BY GameTyped DEF Duel
  <1>2. table \in Table
    BY DEF Keeps
  <1>3. \A y \in SeasonNames : stats'[y] = IF y = x THEN table ELSE stats[y]
    BY InvParts DEF StatsTyped
  <1>4. StatsTyped(stats')
    BY <1>2, InvParts DEF StatsTyped
  <1>5. \A y \in SeasonNames : Keeps(stats[y], stats'[y])
    BY <1>3, InvParts
  <1>6. \A n \in RankedMatches : games'[n] = IF n = m THEN g ELSE games[n]
    BY InvParts
  <1>7. games' \in [RankedMatches -> Game \cup {None}]
    BY <1>1, InvParts
  <1> QED BY <1>1, <1>4, <1>5, <1>6, <1>7, InvParts DEF Carries

\* A rating that is cut at 0 is one of a player in a season.
LEMMA CutTyped ==
    ASSUME NEW g, Duel(g), NEW u \in Players, NEW k
    PROVE  CutAt0(g, u, k) \subseteq SeasonNames \X Players
  BY GameTyped DEF CutAt0, Duel

\* Settle.
LEMMA SettleSound ==
    ASSUME SeasonsInv, NEW m \in RankedMatches, Settle(m)
    PROVE  SeasonsInv'
  <1>1. games[m] # None /\ Duel(games[m]) /\ games[m] \in Game
    BY InvParts DEF Settle, Duel
  <1>2. UNCHANGED <<seasons, people, moderations, writes, ratReq>>
    BY DEF Settle
  <1> DEFINE h(winner, result) ==
                [games[m] EXCEPT !.status = "completed", !.winner = winner,
                       !.gain = result[1], !.loss = result[2],
                       !.ended = 1 + Cardinality({n \in RankedMatches : Completed(n)})]
  <1>3. PICK winner \in Competitors(games[m]) \cup {None} :
           \E result \in IF winner = None THEN {<<0, 0>>} ELSE Results :
              /\ games' = [games EXCEPT ![m] = h(winner, result)]
              /\ stats' = [stats EXCEPT ![h(winner, result).season] =
                             [u \in Players |->
                                Settled(stats[h(winner, result).season][u], u, h(winner, result))]]
              /\ bent' = IF winner = None THEN bent
                         ELSE bent \cup CutAt0(h(winner, result), Loser(h(winner, result)),
                                               h(winner, result).loss)
    BY Zenon DEF Settle
  <1>4. PICK result \in IF winner = None THEN {<<0, 0>>} ELSE Results :
              /\ games' = [games EXCEPT ![m] = h(winner, result)]
              /\ stats' = [stats EXCEPT ![h(winner, result).season] =
                             [u \in Players |->
                                Settled(stats[h(winner, result).season][u], u, h(winner, result))]]
              /\ bent' = IF winner = None THEN bent
                         ELSE bent \cup CutAt0(h(winner, result), Loser(h(winner, result)),
                                               h(winner, result).loss)
    BY <1>3
  <1> DEFINE count == Cardinality({n \in RankedMatches : Completed(n)})
             g == [games[m] EXCEPT !.status = "completed", !.winner = winner,
                       !.gain = result[1], !.loss = result[2], !.ended = 1 + count]
  <1>5. result[1] \in Nat /\ result[2] \in Nat
    <2>1. CASE winner = None
      BY <2>1
    <2>2. CASE winner # None
      <3>1. result \in Nat \X Nat
        BY <2>2, SeasonsAssumption
      <3> QED BY <3>1
    <2> QED BY <2>1, <2>2
  <1>6. 1 + count \in Nat
    <2>1. {n \in RankedMatches : Completed(n)} \in SUBSET RankedMatches
      OBVIOUS
    <2>2. count \in 0..Cardinality(RankedMatches) /\ Cardinality(RankedMatches) \in Nat
      BY <2>1, CountTyped
    <2> QED BY <2>2
  <1>7. winner \in Players \cup {None}
    BY <1>1, GameTyped DEF Competitors
  <1>8. /\ g \in Game
        /\ g.season = games[m].season
        /\ g.red = games[m].red /\ g.blue = games[m].blue
    <2> DEFINE k == result[1]
               l == result[2]
               c == 1 + count
    <2>1. k \in Nat /\ l \in Nat /\ c \in Nat
      BY <1>5, <1>6
    <2>2. g = [games[m] EXCEPT !.status = "completed", !.winner = winner,
                               !.gain = k, !.loss = l, !.ended = c]
      OBVIOUS
    <2> HIDE DEF k, l, c, g
    <2> QED BY <1>1, <1>7, <2>1, <2>2 DEF Game
  <1>9. /\ games' = [games EXCEPT ![m] = g]
        /\ stats' = [stats EXCEPT ![g.season] =
                       [u \in Players |-> Settled(stats[g.season][u], u, g)]]
        /\ bent' = IF winner = None THEN bent
                   ELSE bent \cup CutAt0(g, Loser(g), g.loss)
    BY <1>4
  <1> HIDE DEF g, h
  <1>10. Duel(g) /\ Competitors(g) = Competitors(games[m])
    BY <1>1, <1>8 DEF Duel, Competitors
  <1>11. g.season \in SeasonNames /\ stats[g.season] \in Table
    BY <1>8, GameTyped, InvParts DEF StatsTyped
  <1>12. Keeps(stats[g.season], [u \in Players |-> Settled(stats[g.season][u], u, g)])
    BY <1>8, <1>11, SettleKeeps
  <1>13. Carries
    BY <1>1, <1>8, <1>9, <1>10, <1>11, <1>12, CarriesMatch
  <1>14. CutAt0(g, Loser(g), g.loss) \subseteq SeasonNames \X Players
    BY <1>10, CutTyped, LoserTyped
  <1>15. RestTyped'
    BY <1>2, <1>9, <1>14, InvParts DEF RestTyped
  <1> QED BY <1>2, <1>13, <1>15, StepSound

\* RevertBegin and CorrectBegin.
LEMMA ModeratorBeginsSound ==
    ASSUME SeasonsInv, NEW s \in Slots, NEW m \in RankedMatches,
           \/ RevertBegin(s, m)
           \/ \E result \in Corrections : CorrectBegin(s, m, result)
    PROVE  SeasonsInv'
  <1>1. /\ games[m] # None /\ moderations < MaxModerations
        /\ moderations' = moderations + 1
        /\ UNCHANGED <<seasons, people, stats, games, bent, writes>>
    BY DEF RevertBegin, CorrectBegin, Revertible, Completed, ReadMatch
  <1>2. games[m] \in Game /\ Duel(games[m])
    BY <1>1, InvParts DEF Duel
  <1>3. PICK op \in {"revert", "correct"}, k \in Nat, l \in Nat :
           /\ \/ SetRating(s, [[NoRating EXCEPT !.op = op]
                                  EXCEPT !.match = m, !.was = games[m]])
              \/ SetRating(s, [[NoRating EXCEPT !.op = op, !.gain = k, !.loss = l]
                                  EXCEPT !.match = m, !.was = games[m]])
           /\ op = "correct" => games[m].winner # None
    <2>1. CASE RevertBegin(s, m)
      BY <2>1 DEF RevertBegin, ReadMatch
    <2>2. CASE \E result \in Corrections : CorrectBegin(s, m, result)
      <3>1. PICK result \in Corrections : CorrectBegin(s, m, result)
        BY <2>2
      <3>2. result[1] \in Nat /\ result[2] \in Nat
        BY SeasonsAssumption
      <3> QED BY <3>1, <3>2 DEF CorrectBegin, ReadMatch
    <2> QED BY <2>1, <2>2
  <1> DEFINE r == [[NoRating EXCEPT !.op = op] EXCEPT !.match = m, !.was = games[m]]
             q == [[NoRating EXCEPT !.op = op, !.gain = k, !.loss = l]
                        EXCEPT !.match = m, !.was = games[m]]
  <1>4. /\ r \in RatingRequest /\ r.op = op /\ r.match = m /\ r.was = games[m]
        /\ q \in RatingRequest /\ q.op = op /\ q.match = m /\ q.was = games[m]
    BY <1>2, NoRatingSound DEF RatingRequest
  <1>5. SetRating(s, r) \/ SetRating(s, q)
    BY <1>3
  <1> HIDE DEF r, q
  <1>6. Holds(r, games') /\ Holds(q, games')
    BY <1>1, <1>2, <1>3, <1>4 DEF Holds
  <1>7. RestTyped'
    BY <1>1, InvParts, SeasonsAssumption DEF RestTyped
  <1>8. Carries
    BY <1>1, CarriesUnchanged
  <1> QED BY <1>4, <1>5, <1>6, <1>7, <1>8, StepSound

\* What a moderator's request has in hand when it commits.
LEMMA InHand ==
    ASSUME SeasonsInv, NEW s \in Slots, Runs(s, "revert") \/ Runs(s, "correct")
    PROVE  /\ ratReq[s] \in RatingRequest
           /\ ratReq[s].match \in RankedMatches
           /\ Duel(ratReq[s].was) /\ ratReq[s].was \in Game
           /\ ratReq[s].was.season \in SeasonNames
           /\ stats[ratReq[s].was.season] \in Table
           /\ games[ratReq[s].match] # None
           /\ Duel(games[ratReq[s].match]) /\ games[ratReq[s].match] \in Game
           /\ Overlapped(ratReq[s]) \subseteq SeasonNames \X Players
  <1>1. /\ ratReq[s] \in RatingRequest
        /\ ratReq[s].match \in RankedMatches
        /\ Duel(ratReq[s].was)
        /\ games[ratReq[s].match] # None
    BY InvParts DEF Runs, Holds
  <1>2. ratReq[s].was \in Game /\ Duel(games[ratReq[s].match])
    BY <1>1, InvParts DEF Duel
  <1>3. games[ratReq[s].match] \in Game /\ ratReq[s].was.season \in SeasonNames
    BY <1>2, GameTyped DEF Duel
  <1>4. stats[ratReq[s].was.season] \in Table
    BY <1>3, InvParts DEF StatsTyped
  <1>5. Competitors(ratReq[s].was) \subseteq Players
    BY <1>2, GameTyped DEF Competitors
  <1>6. Overlapped(ratReq[s]) \subseteq SeasonNames \X Players
    BY <1>3, <1>5 DEF Overlapped
  <1> QED BY <1>1, <1>2, <1>3, <1>4, <1>6

\* RevertCommit.
LEMMA RevertCommitSound ==
    ASSUME SeasonsInv, NEW s \in Slots, RevertCommit(s)
    PROVE  SeasonsInv'
  <1> DEFINE r == ratReq[s]
             m == r.match
             w == r.was
             rows == [games EXCEPT ![m].undone = TRUE]
             g == [games[m] EXCEPT !.undone = TRUE]
             table == [u \in Players |-> Reverted(stats[w.season][u], u, w, rows)]
             cut == IF w.winner = None THEN {} ELSE CutAt0(w, w.winner, w.gain)
  <1>1. /\ Runs(s, "revert")
        /\ games' = rows
        /\ stats' = [stats EXCEPT ![w.season] = table]
        /\ bent' = bent \cup Overlapped(r) \cup cut
        /\ SetRating(s, NoRating)
        /\ UNCHANGED <<seasons, people, moderations, writes>>
    BY DEF RevertCommit
  <1>2. /\ m \in RankedMatches /\ Duel(w) /\ w \in Game
        /\ w.season \in SeasonNames /\ stats[w.season] \in Table
        /\ games[m] # None /\ Duel(games[m]) /\ games[m] \in Game
        /\ Overlapped(r) \subseteq SeasonNames \X Players
    BY <1>1, InHand
  <1>3. /\ g \in Game
        /\ g.season = games[m].season /\ g.red = games[m].red /\ g.blue = games[m].blue
    BY <1>2 DEF Game
  <1>4. rows = [games EXCEPT ![m] = g]
    OBVIOUS
  <1>5. Keeps(stats[w.season], table)
    <2> HIDE DEF rows, w
    <2> QED BY <1>2, RevertKeeps
  <1>6. cut \subseteq SeasonNames \X Players
    BY <1>2, CutTyped, GameTyped
  <1> HIDE DEF rows, g, table, cut, w, m, r
  <1>7. Duel(g) /\ Competitors(g) = Competitors(games[m])
    BY <1>2, <1>3 DEF Duel, Competitors
  <1>8. Carries
    BY <1>1, <1>2, <1>3, <1>4, <1>5, <1>7, CarriesMatch
  <1>9. RestTyped'
    BY <1>1, <1>2, <1>6, InvParts DEF RestTyped
  <1> QED BY <1>1, <1>8, <1>9, AnsweredSound

\* CorrectCommit.
LEMMA CorrectCommitSound ==
    ASSUME SeasonsInv, NEW s \in Slots, CorrectCommit(s)
    PROVE  SeasonsInv'
  <1> DEFINE r == ratReq[s]
             m == r.match
             w == r.was
             g == [games[m] EXCEPT !.gain = r.gain, !.loss = r.loss]
             table == [u \in Players |-> Corrected(stats[w.season][u], u, r)]
             cut1 == CutAt0(w, w.winner, Minus(w.gain, r.gain))
             cut2 == CutAt0(w, Loser(w), Minus(r.loss, w.loss))
  <1>1. /\ Runs(s, "correct")
        /\ games' = [games EXCEPT ![m].gain = r.gain, ![m].loss = r.loss]
        /\ stats' = [stats EXCEPT ![w.season] = table]
        /\ bent' = bent \cup Overlapped(r) \cup cut1 \cup cut2
        /\ SetRating(s, NoRating)
        /\ UNCHANGED <<seasons, people, moderations, writes>>
    BY DEF CorrectCommit
  <1>2. /\ m \in RankedMatches /\ Duel(w) /\ w \in Game /\ r \in RatingRequest
        /\ w.season \in SeasonNames /\ stats[w.season] \in Table
        /\ games[m] # None /\ Duel(games[m]) /\ games[m] \in Game
        /\ Overlapped(r) \subseteq SeasonNames \X Players
    BY <1>1, InHand
  <1>3. /\ g \in Game
        /\ g.season = games[m].season /\ g.red = games[m].red /\ g.blue = games[m].blue
    <2>1. r.gain \in Nat /\ r.loss \in Nat
      BY <1>2 DEF RatingRequest
    <2> QED BY <1>2, <2>1 DEF Game
  <1>4. games' = [games EXCEPT ![m] = g]
    <2>1. games \in [RankedMatches -> Game \cup {None}]
      BY InvParts
    <2> QED BY <1>1, <1>2, <2>1
  <1>5. Keeps(stats[w.season], table)
    BY <1>2, CorrectKeeps
  <1>6. w.winner # None
    BY <1>1, InvParts DEF Runs, Holds
  <1>7. cut1 \subseteq SeasonNames \X Players /\ cut2 \subseteq SeasonNames \X Players
    BY <1>2, <1>6, CutTyped, GameTyped, LoserTyped
  <1> HIDE DEF g, table, cut1, cut2, w, m, r
  <1>8. Duel(g) /\ Competitors(g) = Competitors(games[m])
    BY <1>2, <1>3 DEF Duel, Competitors
  <1>9. Carries
    BY <1>1, <1>2, <1>3, <1>4, <1>5, <1>8, CarriesMatch
  <1>10. RestTyped'
    BY <1>1, <1>2, <1>7, InvParts DEF RestTyped
  <1> QED BY <1>1, <1>9, <1>10, AnsweredSound

-----------------------------------------------------------------------------
(* The invariant.                                                          *)

\* Nothing exists at first.
LEMMA InitSound == SeasonsInit => SeasonsInv
  <1> SUFFICES ASSUME SeasonsInit PROVE SeasonsInv
    OBVIOUS
  <1>1. SeasonsTypeOK
    BY NoRatingSound, SeasonsAssumption DEF SeasonsInit, SeasonsTypeOK
  <1>2. \A s \in Slots : Holds(ratReq[s], games)
    BY NoRatingSound DEF SeasonsInit, Holds
  <1>3. \A m \in RankedMatches : games[m] = None
    BY DEF SeasonsInit
  <1> QED BY <1>1, <1>2, <1>3 DEF SeasonsInv, PlayersAreRated

\* Every step keeps it.
LEMMA NextSound == SeasonsInv /\ [SeasonsNext]_seasonsVars => SeasonsInv'
  <1> SUFFICES ASSUME SeasonsInv, [SeasonsNext]_seasonsVars PROVE SeasonsInv'
    OBVIOUS
  <1>1. ASSUME NEW x \in SeasonNames,
               \/ CreateSeason(x) \/ PatchSeason(x) \/ FinishSeason(x)
               \/ DeleteSeason(x) \/ TimePasses(x)
        PROVE  SeasonsInv'
    <2>1. (\E row \in Season : WriteSeason(x, row)) \/ FinishSeason(x)
          \/ DeleteSeason(x) \/ TimePasses(x)
      BY <1>1 DEF CreateSeason, PatchSeason
    <2> QED BY <2>1, WriteSeasonSound, FinishSeasonSound, SeasonRowsSound
  <1>2. ASSUME NEW u \in Players, Login(u) PROVE SeasonsInv'
    BY <1>2, LoginSound
  <1>3. ASSUME NEW s \in Slots, NEW u \in Players, SignUpBegin(s, u) \/ JoinQueue(s, u)
        PROVE  SeasonsInv'
    BY <1>3, PlayerBeginsSound
  <1>4. ASSUME NEW s \in Slots,
               \/ SignUpCommit(s) \/ JoinWaits(s) \/ JoinPairs(s)
               \/ RevertCommit(s) \/ CorrectCommit(s)
        PROVE  SeasonsInv'
    BY <1>4, SignUpCommitSound, JoinWaitsSound, JoinPairsSound,
       RevertCommitSound, CorrectCommitSound
  <1>5. ASSUME NEW s \in Slots, RatingFails(s) PROVE SeasonsInv'
    <2>1. RestTyped'
      BY <1>5, InvParts DEF RatingFails, RestTyped
    <2>2. Carries
      BY <1>5, CarriesUnchanged DEF RatingFails
    <2> QED BY <1>5, <2>1, <2>2, AnsweredSound DEF RatingFails
  <1>6. ASSUME NEW s \in Slots, NEW m \in RankedMatches,
               \/ RevertBegin(s, m)
               \/ \E result \in Corrections : CorrectBegin(s, m, result)
        PROVE  SeasonsInv'
    BY <1>6, ModeratorBeginsSound
  <1>7. ASSUME NEW m \in RankedMatches, Settle(m) PROVE SeasonsInv'
    BY <1>7, SettleSound
  <1>8. CASE UNCHANGED seasonsVars
    <2>1. RestTyped' /\ ratReq' = ratReq /\ stats' = stats /\ games' = games
      BY <1>8, InvParts DEF seasonsVars, RestTyped
    <2> QED BY <2>1, CarriesUnchanged, StepSound
  <1> QED BY <1>1, <1>2, <1>3, <1>4, <1>5, <1>6, <1>7, <1>8 DEF SeasonsNext

\* SeasonsInv is an invariant, whatever seasons, sign-ups, joins, settlements
\* and moderators' requests overlap.
THEOREM SeasonsInvariance == SeasonsSpec => []SeasonsInv
  BY InitSound, NextSound, PTL DEF SeasonsSpec

\* The rows of seasons, competitive_statistics and matches are well typed:
\* no rating and no counter ever falls below zero.
THEOREM SeasonsTypeCorrect == SeasonsSpec => []SeasonsTypeOK
  <1>1. SeasonsInv => SeasonsTypeOK
    BY DEF SeasonsInv
  <1> QED BY <1>1, SeasonsInvariance, PTL

\* Everybody who competes in a match has statistics of its season (code:
\* joinQueue, tryPair and DELETE /seasons/:seasonGuid).
THEOREM CompetitorsAreRated == SeasonsSpec => []PlayersAreRated
  <1>1. SeasonsInv => PlayersAreRated
    BY DEF SeasonsInv
  <1> QED BY <1>1, SeasonsInvariance, PTL

-----------------------------------------------------------------------------
(* Sums over the matches.                                                  *)

Points(f) == UNION {{m} \X (1..f[m]) : m \in DOMAIN f}

\* There are finitely many points, and their number is the sum.
LEMMA PointsFinite ==
    ASSUME NEW f \in [RankedMatches -> Nat]
    PROVE  /\ IsFiniteSet(Points(f))
           /\ Total(f) = Cardinality(Points(f)) /\ Total(f) \in Nat
  <1> DEFINE P(m) == {m} \X (1..f[m])
             S == {P(m) : m \in RankedMatches}
             img == [m \in RankedMatches |-> P(m)]
  <1>1. IsFiniteSet(S)
    <2> HIDE DEF P
    <2>1. img \in [RankedMatches -> S]
      OBVIOUS
    <2>2. \A t \in S : \E m \in RankedMatches : img[m] = t
      OBVIOUS
    <2>3. img \in Surjection(RankedMatches, S) /\ IsFiniteSet(RankedMatches)
      BY <2>1, <2>2, SeasonsAssumption DEF Surjection
    <2> HIDE DEF S, img
    <2> QED BY <2>3, FS_Surjection
  <1>2. ASSUME NEW m \in RankedMatches PROVE IsFiniteSet(P(m))
    <2>1. IsFiniteSet({m})
      BY FS_Singleton
    <2>2. IsFiniteSet(1..f[m])
      BY FS_Interval
    <2> QED BY <2>1, <2>2, FS_Product
  <1>3. IsFiniteSet(UNION S)
    BY <1>1, <1>2, FS_UNION
  <1>4. Points(f) = UNION S
    BY DEF Points
  <1>5. IsFiniteSet(Points(f))
    BY <1>3, <1>4
  <1>6. Total(f) = Cardinality(Points(f))
    BY DEF Total, Points
  <1> QED BY <1>5, <1>6, FS_CardinalityType

\* One match's value can be taken out of the sum.
LEMMA TotalSplit ==
    ASSUME NEW f \in [RankedMatches -> Nat], NEW m \in RankedMatches
    PROVE  Total(f) = Total([f EXCEPT ![m] = 0]) + f[m]
  <1> DEFINE h == [f EXCEPT ![m] = 0]
             P == {m} \X (1..f[m])
  <1>1. h \in [RankedMatches -> Nat]
    OBVIOUS
  <1>2. IsFiniteSet(P) /\ Cardinality(P) = f[m]
    <2>1. IsFiniteSet({m}) /\ Cardinality({m}) = 1
      BY FS_Singleton
    <2>2. IsFiniteSet(1..f[m]) /\ Cardinality(1..f[m]) = f[m]
      BY FS_Interval
    <2> QED BY <2>1, <2>2, FS_Product
  <1>3. Points(f) = Points(h) \cup P
    <2>1. \A k \in RankedMatches : h[k] = IF k = m THEN 0 ELSE f[k]
      OBVIOUS
    <2>2. 1..h[m] = {}
      BY <2>1
    <2>3. Points(f) = UNION {{k} \X (1..f[k]) : k \in RankedMatches}
      BY DEF Points
    <2>4. Points(h) = UNION {{k} \X (1..h[k]) : k \in RankedMatches}
      BY DEF Points
    <2> HIDE DEF h
    <2>5. ASSUME NEW e PROVE e \in Points(f) <=> e \in Points(h) \/ e \in P
      <3>1. e \in Points(f) <=> \E k \in RankedMatches : e \in {k} \X (1..f[k])
        BY <2>3
      <3>2. e \in Points(h) <=> \E k \in RankedMatches : e \in {k} \X (1..h[k])
        BY <2>4
      <3>3. \A k \in RankedMatches \ {m} : h[k] = f[k]
        BY <2>1
      <3>4. e \notin {m} \X (1..h[m])
        BY <2>2
      <3> QED BY <3>1, <3>2, <3>3, <3>4
    <2> QED BY <2>5
  <1>4. Points(h) \cap P = {}
    <2>1. 1..h[m] = {}
      OBVIOUS
    <2>2. DOMAIN h = RankedMatches
      OBVIOUS
    <2> HIDE DEF h
    <2> SUFFICES ASSUME NEW e, e \in Points(h), e \in P PROVE FALSE
      OBVIOUS
    <2>3. PICK k \in RankedMatches : e \in {k} \X (1..h[k])
      BY <2>2 DEF Points
    <2>4. k = m
      BY <2>3
    <2> QED BY <2>1, <2>3, <2>4
  <1> HIDE DEF h, P
  <1>5. IsFiniteSet(Points(h)) /\ Total(h) = Cardinality(Points(h)) /\ Total(h) \in Nat
    BY <1>1, PointsFinite
  <1>6. Cardinality(Points(f)) = Cardinality(Points(h)) + Cardinality(P) - Cardinality({})
    BY <1>2, <1>3, <1>4, <1>5, FS_Union
  <1>7. Total(f) = Total(h) + f[m]
    BY <1>2, <1>5, <1>6, FS_EmptySet, PointsFinite
  <1> QED BY <1>7 DEF h

\* A sum of which one match's value changes.
LEMMA TotalChange ==
    ASSUME NEW f \in [RankedMatches -> Nat], NEW g \in [RankedMatches -> Nat],
           NEW m \in RankedMatches, \A n \in RankedMatches \ {m} : g[n] = f[n]
    PROVE  /\ Total(f) \in Nat /\ Total(g) \in Nat
           /\ Total(g) + f[m] = Total(f) + g[m]
  <1>1. [f EXCEPT ![m] = 0] = [g EXCEPT ![m] = 0]
    OBVIOUS
  <1> DEFINE h == [f EXCEPT ![m] = 0]
  <1>2. Total(f) = Total(h) + f[m] /\ Total(g) = Total(h) + g[m]
    BY <1>1, TotalSplit
  <1>3. h \in [RankedMatches -> Nat]
    OBVIOUS
  <1> HIDE DEF h
  <1>4. Total(f) \in Nat /\ Total(g) \in Nat /\ Total(h) \in Nat
    BY <1>3, PointsFinite
  <1> QED BY <1>2, <1>4

\* The sum of zeros.
LEMMA TotalZero ==
    ASSUME NEW f \in [RankedMatches -> Nat], \A m \in RankedMatches : f[m] = 0
    PROVE  Total(f) = 0
  <1>1. \A m \in RankedMatches : 1..f[m] = {}
    OBVIOUS
  <1>2. Points(f) = {}
    BY <1>1 DEF Points
  <1> QED BY <1>2, PointsFinite, FS_EmptySet

\* A number of matches of which one is added or taken away, or neither.
LEMMA CountChange ==
    ASSUME NEW S \in SUBSET RankedMatches, NEW T \in SUBSET RankedMatches,
           NEW m \in RankedMatches, S \ {m} = T \ {m}
    PROVE  /\ Cardinality(S) \in Nat /\ Cardinality(T) \in Nat
           /\ Cardinality(T) + (IF m \in S THEN 1 ELSE 0)
                 = Cardinality(S) + (IF m \in T THEN 1 ELSE 0)
           /\ m \in S => Cardinality(S) > 0
  <1>1. IsFiniteSet(S) /\ IsFiniteSet(T)
    BY SeasonsAssumption, FS_Subset
  <1>2. /\ Cardinality(S) \in Nat /\ Cardinality(T) \in Nat
        /\ Cardinality(S \ {m}) \in Nat
    BY <1>1, FS_RemoveElement, FS_CardinalityType
  <1>3. Cardinality(S \ {m}) = IF m \in S THEN Cardinality(S) - 1 ELSE Cardinality(S)
    BY <1>1, FS_RemoveElement
  <1>4. Cardinality(T \ {m}) = IF m \in T THEN Cardinality(T) - 1 ELSE Cardinality(T)
    BY <1>1, FS_RemoveElement
  <1>5. Cardinality(S \ {m}) = Cardinality(T \ {m})
    OBVIOUS
  <1> QED BY <1>2, <1>3, <1>4, <1>5

-----------------------------------------------------------------------------
(* Statistics and the matches they were computed from.                     *)

Matches == [RankedMatches -> Game \cup {None}]
WinOf(g, x, u) == IF Counts(g, x, u) /\ g.winner = u THEN 1 ELSE 0
PlayOf(g, x, u) == IF Counts(g, x, u) THEN 1 ELSE 0

\* A row of statistics that becomes the next, while a match goes from old to
\* new, by the difference of what the two contribute.
Applied(row, next, old, new, x, u) ==
    /\ next.starting = row.starting
    /\ next.mmr + LossOf(new, x, u) + GainOf(old, x, u)
          = row.mmr + GainOf(new, x, u) + LossOf(old, x, u)
    /\ next.wins + WinOf(old, x, u) = row.wins + WinOf(new, x, u)
    /\ next.total + PlayOf(old, x, u) = row.total + PlayOf(new, x, u)

\* What a match contributes is a number of points.
LEMMA ShareTyped ==
    ASSUME NEW g \in Game \cup {None}, NEW x, NEW u
    PROVE  GainOf(g, x, u) \in Nat /\ LossOf(g, x, u) \in Nat
  <1>1. Counts(g, x, u) => g.gain \in Nat /\ g.loss \in Nat
    BY GameTyped DEF Counts
  <1> QED BY <1>1 DEF GainOf, LossOf

\* One match changes, and the statistics by the difference.
LEMMA HistoryChange ==
    ASSUME NEW rows \in Matches, NEW after \in Matches, NEW m \in RankedMatches,
           \A n \in RankedMatches \ {m} : after[n] = rows[n],
           NEW x, NEW u, NEW row \in Statistics, NEW next \in Statistics,
           MatchesHistory(row, rows, x, u),
           Applied(row, next, rows[m], after[m], x, u)
    PROVE  MatchesHistory(next, after, x, u)
  <1> DEFINE up == [n \in RankedMatches |-> GainOf(rows[n], x, u)]
             up2 == [n \in RankedMatches |-> GainOf(after[n], x, u)]
             down == [n \in RankedMatches |-> LossOf(rows[n], x, u)]
             down2 == [n \in RankedMatches |-> LossOf(after[n], x, u)]
  <1>1. /\ \A n \in RankedMatches : rows[n] \in Game \cup {None}
        /\ \A n \in RankedMatches : after[n] \in Game \cup {None}
    BY DEF Matches
  <1>2. /\ up \in [RankedMatches -> Nat] /\ up2 \in [RankedMatches -> Nat]
        /\ down \in [RankedMatches -> Nat] /\ down2 \in [RankedMatches -> Nat]
    BY <1>1, ShareTyped
  <1>3. \A n \in RankedMatches \ {m} : up2[n] = up[n] /\ down2[n] = down[n]
    OBVIOUS
  <1>4. /\ up[m] = GainOf(rows[m], x, u) /\ up2[m] = GainOf(after[m], x, u)
        /\ down[m] = LossOf(rows[m], x, u) /\ down2[m] = LossOf(after[m], x, u)
    OBVIOUS
  <1>5. /\ row.mmr + Total(down) = row.starting + Total(up)
        /\ row.wins = Cardinality(WonBy(rows, x, u))
        /\ row.total = Cardinality(PlayedBy(rows, x, u))
    BY DEF MatchesHistory
  <1>6. /\ row.mmr \in Nat /\ row.starting \in Nat /\ row.wins \in Nat
        /\ row.total \in Nat /\ next.mmr \in Nat /\ next.wins \in Nat
        /\ next.total \in Nat
    BY DEF Statistics
  <1>7. next.mmr + Total(down2) = next.starting + Total(up2)
    <2> HIDE DEF up, up2, down, down2
    <2>1. /\ Total(up) \in Nat /\ Total(up2) \in Nat
          /\ Total(up2) + up[m] = Total(up) + up2[m]
      BY <1>2, <1>3, TotalChange
    <2>2. /\ Total(down) \in Nat /\ Total(down2) \in Nat
          /\ Total(down2) + down[m] = Total(down) + down2[m]
      BY <1>2, <1>3, TotalChange
    <2>3. up[m] \in Nat /\ up2[m] \in Nat /\ down[m] \in Nat /\ down2[m] \in Nat
      BY <1>2
    <2>4. /\ next.mmr + down2[m] + up[m] = row.mmr + up2[m] + down[m]
          /\ next.starting = row.starting
      BY <1>4 DEF Applied
    <2> QED BY <1>5, <1>6, <2>1, <2>2, <2>3, <2>4
  <1> DEFINE S == PlayedBy(rows, x, u)
             T == PlayedBy(after, x, u)
             V == WonBy(rows, x, u)
             W == WonBy(after, x, u)
  <1>8. /\ S \in SUBSET RankedMatches /\ T \in SUBSET RankedMatches
        /\ V \in SUBSET RankedMatches /\ W \in SUBSET RankedMatches
        /\ S \ {m} = T \ {m} /\ V \ {m} = W \ {m}
    BY DEF PlayedBy, WonBy
  <1>9. /\ m \in S <=> Counts(rows[m], x, u)
        /\ m \in T <=> Counts(after[m], x, u)
        /\ m \in V <=> Counts(rows[m], x, u) /\ rows[m].winner = u
        /\ m \in W <=> Counts(after[m], x, u) /\ after[m].winner = u
    BY DEF PlayedBy, WonBy
  <1>10. next.total = Cardinality(T)
    <2> HIDE DEF S, T
    <2>1. /\ Cardinality(S) \in Nat /\ Cardinality(T) \in Nat
          /\ Cardinality(T) + (IF m \in S THEN 1 ELSE 0)
                = Cardinality(S) + (IF m \in T THEN 1 ELSE 0)
      BY <1>8, CountChange
    <2>2. row.total = Cardinality(S)
      BY <1>5 DEF S
    <2>3. next.total + (IF m \in S THEN 1 ELSE 0)
             = row.total + (IF m \in T THEN 1 ELSE 0)
      BY <1>9 DEF Applied, PlayOf
    <2> QED BY <1>6, <2>1, <2>2, <2>3
  <1>11. next.wins = Cardinality(W)
    <2> HIDE DEF V, W
    <2>1. /\ Cardinality(V) \in Nat /\ Cardinality(W) \in Nat
          /\ Cardinality(W) + (IF m \in V THEN 1 ELSE 0)
                = Cardinality(V) + (IF m \in W THEN 1 ELSE 0)
      BY <1>8, CountChange
    <2>2. row.wins = Cardinality(V)
      BY <1>5 DEF V
    <2>3. next.wins + (IF m \in V THEN 1 ELSE 0)
             = row.wins + (IF m \in W THEN 1 ELSE 0)
      BY <1>9 DEF Applied, WinOf
    <2> QED BY <1>6, <2>1, <2>2, <2>3
  <1> QED BY <1>7, <1>10, <1>11 DEF MatchesHistory

\* Nothing that counts changes, in the matches and in the statistics.
LEMMA HistorySame ==
    ASSUME NEW rows, NEW after, NEW x, NEW u, NEW row, NEW next,
           MatchesHistory(row, rows, x, u),
           \A n \in RankedMatches :
              \/ after[n] = rows[n]
              \/ ~Counts(after[n], x, u) /\ ~Counts(rows[n], x, u),
           next.starting = row.starting, next.mmr = row.mmr,
           next.wins = row.wins, next.total = row.total
    PROVE  MatchesHistory(next, after, x, u)
  <1>1. [m \in RankedMatches |-> LossOf(after[m], x, u)]
           = [m \in RankedMatches |-> LossOf(rows[m], x, u)]
    BY DEF LossOf
  <1>2. [m \in RankedMatches |-> GainOf(after[m], x, u)]
           = [m \in RankedMatches |-> GainOf(rows[m], x, u)]
    BY DEF GainOf
  <1>3. /\ PlayedBy(after, x, u) = PlayedBy(rows, x, u)
        /\ WonBy(after, x, u) = WonBy(rows, x, u)
    BY DEF PlayedBy, WonBy
  <1> QED BY <1>1, <1>2, <1>3 DEF MatchesHistory

\* New statistics match an empty history.
LEMMA HistoryFresh ==
    ASSUME NEW rows, NEW x, NEW u, NEW mmr \in Nat,
           \A n \in RankedMatches : ~Counts(rows[n], x, u)
    PROVE  MatchesHistory(Fresh(mmr), rows, x, u)
  <1> DEFINE up == [n \in RankedMatches |-> GainOf(rows[n], x, u)]
             down == [n \in RankedMatches |-> LossOf(rows[n], x, u)]
  <1>1. /\ up \in [RankedMatches -> Nat] /\ \A n \in RankedMatches : up[n] = 0
        /\ down \in [RankedMatches -> Nat] /\ \A n \in RankedMatches : down[n] = 0
    BY DEF GainOf, LossOf
  <1>2. Total(up) = 0 /\ Total(down) = 0
    <2> HIDE DEF up, down
    <2> QED BY <1>1, TotalZero
  <1>3. PlayedBy(rows, x, u) = {} /\ WonBy(rows, x, u) = {}
    BY DEF PlayedBy, WonBy
  <1>4. Cardinality({}) = 0
    BY FS_EmptySet
  <1> HIDE DEF up, down
  <1>5. /\ Fresh(mmr).mmr = mmr /\ Fresh(mmr).starting = mmr
        /\ Fresh(mmr).wins = 0 /\ Fresh(mmr).total = 0
    BY DEF Fresh
  <1> QED BY <1>2, <1>3, <1>4, <1>5 DEF MatchesHistory, up, down

\* A match that counts has been counted.
LEMMA Counted ==
    ASSUME NEW rows, NEW m \in RankedMatches, NEW x, NEW u, NEW row \in Statistics,
           MatchesHistory(row, rows, x, u), Counts(rows[m], x, u)
    PROVE  row.total > 0 /\ (rows[m].winner = u => row.wins > 0)
  <1>1. /\ PlayedBy(rows, x, u) \in SUBSET RankedMatches
        /\ WonBy(rows, x, u) \in SUBSET RankedMatches
        /\ m \in PlayedBy(rows, x, u)
        /\ rows[m].winner = u => m \in WonBy(rows, x, u)
    BY DEF PlayedBy, WonBy
  <1>2. /\ Cardinality(PlayedBy(rows, x, u)) > 0
        /\ rows[m].winner = u => Cardinality(WonBy(rows, x, u)) > 0
    BY <1>1, CountChange
  <1> QED BY <1>2 DEF MatchesHistory

-----------------------------------------------------------------------------
(* Every rating matches its history.                                       *)

\* A match has been won by one of its players, and undone after its end only.
Sound(g) ==
    /\ g.winner \in Competitors(g) \cup {None}
    /\ g.status = "playing" => ~g.undone /\ g.winner = None

\* What a moderator's request has read of its match.
Read(r, rows) ==
    r.op \in {"revert", "correct"} =>
        /\ Sound(r.was) /\ r.was.status = "completed" /\ ~r.was.undone
        /\ rows[r.match].status = "completed"
        /\ rows[r.match].season = r.was.season
        /\ Competitors(rows[r.match]) = Competitors(r.was)

\* The inductive invariant.
HistoryInv ==
    /\ SeasonsInv
    /\ \A m \in RankedMatches : games[m] # None => Sound(games[m])
    /\ \A s \in Slots : Read(ratReq[s], games)
    /\ RatingMatchesHistory

\* Statistics of one player in one season before and after a step.
Kept(x, u) ==
    stats'[x][u] # None /\ <<x, u>> \notin bent' =>
        MatchesHistory(stats'[x][u], games', x, u)

\* A slot's request stays as sound as the step leaves it.
LEMMA ReadKept ==
    ASSUME HistoryInv,
           \A m \in RankedMatches : games[m] # None =>
              /\ games'[m].season = games[m].season
              /\ Competitors(games'[m]) = Competitors(games[m])
              /\ games[m].status = "completed" => games'[m].status = "completed",
           \/ ratReq' = ratReq
           \/ \E s \in Slots : \E r : Read(r, games') /\ SetRating(s, r)
    PROVE  \A s \in Slots : Read(ratReq'[s], games')
  <1>1. ASSUME NEW s \in Slots PROVE Read(ratReq[s], games')
    <2>1. Read(ratReq[s], games) /\ Holds(ratReq[s], games)
      BY InvParts DEF HistoryInv
    <2> QED BY <2>1 DEF Read, Holds
  <1>2. ratReq \in [Slots -> RatingRequest]
    BY InvParts DEF HistoryInv
  <1> QED BY <1>1, <1>2 DEF SetRating

\* A row of statistics in which no counted number changes, or a new one.
RowStays(old, new) ==
    \/ new = old
    \/ old = None /\ \E mmr \in Nat : new = Fresh(mmr)
    \/ /\ old # None
       /\ new.starting = old.starting
       /\ new.mmr = old.mmr
       /\ new.wins = old.wins
       /\ new.total = old.total

\* A step that finishes no match and changes no counted number.
LEMMA TableKept ==
    ASSUME HistoryInv, bent \subseteq bent',
           \A m \in RankedMatches :
              \/ games'[m] = games[m]
              \/ games[m] = None /\ games'[m].status = "playing",
           NEW x \in SeasonNames, NEW u \in Players,
           RowStays(stats[x][u], stats'[x][u])
    PROVE  Kept(x, u)
  <1> SUFFICES ASSUME stats'[x][u] # None, <<x, u>> \notin bent'
               PROVE  MatchesHistory(stats'[x][u], games', x, u)
    BY DEF Kept
  <1>1. \A n \in RankedMatches :
           \/ games'[n] = games[n]
           \/ ~Counts(games'[n], x, u) /\ ~Counts(games[n], x, u)
    BY DEF Counts
  <1>2. CASE stats[x][u] # None
    <2>1. MatchesHistory(stats[x][u], games, x, u)
      BY <1>2 DEF HistoryInv, RatingMatchesHistory
    <2>2. /\ stats'[x][u].starting = stats[x][u].starting
          /\ stats'[x][u].mmr = stats[x][u].mmr
          /\ stats'[x][u].wins = stats[x][u].wins
          /\ stats'[x][u].total = stats[x][u].total
      BY <1>2 DEF RowStays
    <2> QED BY <1>1, <2>1, <2>2, HistorySame
  <1>3. CASE stats[x][u] = None
    <2>1. PICK mmr \in Nat : stats'[x][u] = Fresh(mmr)
      <3>1. \E mmr \in Nat : stats'[x][u] = Fresh(mmr)
        BY <1>3 DEF RowStays
      <3> QED BY <3>1
    <2>2. \A n \in RankedMatches : ~Counts(games[n], x, u)
      BY <1>3 DEF HistoryInv, SeasonsInv, PlayersAreRated, Counts
    <2>3. \A n \in RankedMatches : ~Counts(games'[n], x, u)
      BY <1>1, <2>2
    <2> QED BY <2>1, <2>3, HistoryFresh
  <1> QED BY <1>2, <1>3

\* A step of one match m, which becomes g.
Becomes(m, g) == games' = [games EXCEPT ![m] = g]

\* Ratings match their history after it, if they change by the difference.
LEMMA MatchKept ==
    ASSUME HistoryInv, SeasonsInv', bent \subseteq bent',
           NEW m \in RankedMatches, NEW g, Becomes(m, g),
           NEW x \in SeasonNames, NEW u \in Players,
           stats[x][u] = None => stats'[x][u] = None,
           stats[x][u] # None /\ <<x, u>> \notin bent' =>
              Applied(stats[x][u], stats'[x][u], games[m], g, x, u)
    PROVE  Kept(x, u)
  <1> SUFFICES ASSUME stats'[x][u] # None, <<x, u>> \notin bent'
               PROVE  MatchesHistory(stats'[x][u], games', x, u)
    BY DEF Kept
  <1>1. stats[x][u] # None /\ <<x, u>> \notin bent
    OBVIOUS
  <1>2. MatchesHistory(stats[x][u], games, x, u)
    BY <1>1 DEF HistoryInv, RatingMatchesHistory
  <1>3. games \in Matches /\ games' \in Matches
    BY DEF HistoryInv, SeasonsInv, SeasonsTypeOK, Matches
  <1>4. stats[x][u] \in Statistics /\ stats'[x][u] \in Statistics
    BY <1>1 DEF HistoryInv, SeasonsInv, SeasonsTypeOK
  <1>5. games'[m] = g /\ \A n \in RankedMatches \ {m} : games'[n] = games[n]
    BY <1>3 DEF Matches, Becomes
  <1>6. Applied(stats[x][u], stats'[x][u], games[m], games'[m], x, u)
    BY <1>1, <1>5
  <1> QED BY <1>2, <1>3, <1>4, <1>5, <1>6, HistoryChange

\* What a match contributes to its winner, to a loser or drawer, and to others.
LEMMA Shares ==
    ASSUME NEW g, NEW x, NEW u
    PROVE  /\ Counts(g, x, u) /\ g.winner = u =>
                 /\ GainOf(g, x, u) = g.gain /\ LossOf(g, x, u) = 0
                 /\ WinOf(g, x, u) = 1 /\ PlayOf(g, x, u) = 1
           /\ Counts(g, x, u) /\ g.winner # u =>
                 /\ GainOf(g, x, u) = 0 /\ WinOf(g, x, u) = 0 /\ PlayOf(g, x, u) = 1
                 /\ LossOf(g, x, u) = IF g.winner = None THEN 0 ELSE g.loss
           /\ ~Counts(g, x, u) =>
                 /\ GainOf(g, x, u) = 0 /\ LossOf(g, x, u) = 0
                 /\ WinOf(g, x, u) = 0 /\ PlayOf(g, x, u) = 0
BY DEF GainOf, LossOf, WinOf, PlayOf

\* Who does not play the match, or plays it in another season, is not touched.
LEMMA OthersApplied ==
    ASSUME NEW g, NEW h, NEW x, NEW u, NEW row \in Statistics,
           x # g.season \/ u \notin Competitors(g),
           h.season = g.season, Competitors(h) = Competitors(g)
    PROVE  Applied(row, row, g, h, x, u)
  <1>1. row.mmr \in Nat /\ row.wins \in Nat /\ row.total \in Nat
    BY DEF Statistics
  <1>2. ~Counts(g, x, u) /\ ~Counts(h, x, u)
    BY DEF Counts
  <1> QED BY <1>1, <1>2 DEF Applied, GainOf, LossOf, WinOf, PlayOf

\* The statistics of a result match it.
LEMMA SettledApplied ==
    ASSUME NEW g \in Game, NEW old, NEW u \in Competitors(g), NEW row \in Statistics,
           old.status = "playing", g.status = "completed", ~g.undone,
           g.winner \in Competitors(g) \cup {None},
           g.winner = None => g.loss = 0,
           g.winner \notin {None, u} => ~(row.mmr < g.loss)
    PROVE  Applied(row, Settled(row, u, g), old, g, g.season, u)
  <1>1. /\ row.mmr \in Nat /\ row.wins \in Nat /\ row.total \in Nat
        /\ g.gain \in Nat /\ g.loss \in Nat /\ row # None /\ g # None
    BY GameTyped, RowsAreNotNone DEF Statistics
  <1>2. Counts(g, g.season, u) /\ ~Counts(old, g.season, u)
    BY <1>1 DEF Counts
  <1>3. Settled(row, u, g) = IF u = g.winner THEN Won(row, g.gain) ELSE Lost(row, g.loss)
    BY <1>1 DEF Settled, Competitors
  <1>4. u # None
    BY SeasonsAssumption, GameTyped DEF Competitors
  <1>5. CASE u = g.winner
    <2>1. PICK next : next = Won(row, g.gain)
      OBVIOUS
    <2>2. /\ next.starting = row.starting /\ next.mmr = row.mmr + g.gain
          /\ next.wins = row.wins + 1 /\ next.total = row.total + 1
      BY <2>1 DEF Won, Statistics
    <2>3. Applied(row, next, old, g, g.season, u)
      BY <1>1, <1>2, <1>4, <1>5, <2>2, Shares DEF Applied
    <2> QED BY <1>3, <1>5, <2>1, <2>3
  <1>6. CASE u # g.winner
    <2>1. PICK next : next = Lost(row, g.loss)
      OBVIOUS
    <2>2. /\ next.starting = row.starting /\ next.mmr = Minus(row.mmr, g.loss)
          /\ next.wins = row.wins /\ next.total = row.total + 1
      BY <2>1 DEF Lost, Statistics
    <2>3. next.mmr + g.loss = row.mmr
      BY <1>1, <1>6, <2>2 DEF Minus
    <2>4. LossOf(g, g.season, u) = g.loss
      BY <1>2, <1>6 DEF LossOf
    <2>5. Applied(row, next, old, g, g.season, u)
      BY <1>1, <1>2, <1>6, <2>2, <2>3, <2>4, Shares DEF Applied
    <2> QED BY <1>3, <1>6, <2>1, <2>5
  <1> QED BY <1>5, <1>6

\* The settlement adds one match to the history, and its gain and loss to both.
LEMMA SettleHistory ==
    ASSUME HistoryInv, SeasonsInv', NEW m \in RankedMatches, Settle(m)
    PROVE  HistoryInv'
  <1>1. /\ games[m] # None /\ Duel(games[m]) /\ games[m] \in Game
        /\ games[m].status = "playing" /\ Sound(games[m])
        /\ games \in [RankedMatches -> Game \cup {None}]
    BY InvParts DEF HistoryInv, Settle, Duel
  <1>2. ratReq' = ratReq
    BY DEF Settle
  <1> DEFINE count == 1 + Cardinality({n \in RankedMatches : Completed(n)})
  <1>3. PICK winner, result :
           /\ winner \in Competitors(games[m]) \cup {None}
           /\ result \in IF winner = None THEN {<<0, 0>>} ELSE Results
           /\ LET g == [games[m] EXCEPT !.status = "completed", !.winner = winner,
                      !.gain = result[1], !.loss = result[2], !.ended = count]
              IN /\ games' = [games EXCEPT ![m] = g]
                 /\ stats' = [stats EXCEPT ![g.season] =
                                [u \in Players |-> Settled(@[u], u, g)]]
                 /\ bent' = IF winner = None THEN bent
                            ELSE bent \cup CutAt0(g, Loser(g), g.loss)
    BY Zenon DEF Settle
  <1> PICK g : g = [games[m] EXCEPT !.status = "completed", !.winner = winner,
                      !.gain = result[1], !.loss = result[2], !.ended = count]
    OBVIOUS
  <1>4. /\ g.season = games[m].season /\ g.red = games[m].red /\ g.blue = games[m].blue
        /\ g.status = "completed" /\ g.winner = winner /\ g.undone = games[m].undone
        /\ g.gain = result[1] /\ g.loss = result[2] /\ g.ended = count
    BY <1>1 DEF Game
  <1>5. games' = [games EXCEPT ![m] = g]
    BY <1>3
  <1>6. /\ bent \subseteq bent'
        /\ winner # None => CutAt0(g, Loser(g), g.loss) \subseteq bent'
    BY <1>3
  <1>7. Competitors(g) = Competitors(games[m]) /\ ~g.undone
    BY <1>1, <1>4 DEF Competitors, Sound
  <1>8. games'[m] = g /\ \A n \in RankedMatches \ {m} : games'[n] = games[n]
    BY <1>1, <1>5
  <1>9. g \in Game /\ Duel(g) /\ g # None
    <2>1. {n \in RankedMatches : Completed(n)} \in SUBSET RankedMatches
      OBVIOUS
    <2>2. count \in Nat
      BY <2>1, CountTyped
    <2>3. result[1] \in Nat /\ result[2] \in Nat
      <3>1. result = <<0, 0>> \/ result \in Nat \X Nat
        BY <1>3, SeasonsAssumption
      <3> QED BY <3>1
    <2>4. winner \in Players \cup {None}
      BY <1>1, <1>3 DEF Competitors, Game
    <2> HIDE DEF count
    <2>5. g \in Game
      BY <1>1, <2>2, <2>3, <2>4 DEF Game
    <2> QED BY <1>1, <1>4, <2>5, GameTyped DEF Duel
  <1> HIDE DEF count
  <1>10. Sound(g)
    BY <1>3, <1>4, <1>7 DEF Sound
  <1>11. \A n \in RankedMatches : games'[n] # None => Sound(games'[n])
    BY <1>8, <1>10 DEF HistoryInv
  <1>12. \A s \in Slots : Read(ratReq'[s], games')
    BY <1>2, <1>4, <1>7, <1>8, ReadKept
  <1>13. ASSUME NEW x \in SeasonNames, NEW u \in Players
         PROVE  Kept(x, u)
    <2>1. stats'[x][u] = IF x = g.season THEN Settled(stats[x][u], u, g)
                                        ELSE stats[x][u]
      BY <1>3, <1>9, GameTyped DEF HistoryInv, SeasonsInv, SeasonsTypeOK
    <2>2. stats[x][u] = None => stats'[x][u] = None
      BY <2>1 DEF Settled
    <2>3. ASSUME stats[x][u] # None, <<x, u>> \notin bent'
          PROVE  Applied(stats[x][u], stats'[x][u], games[m], g, x, u)
      <3>1. stats[x][u] \in Statistics
        BY <2>3 DEF HistoryInv, SeasonsInv, SeasonsTypeOK
      <3>2. CASE x # g.season \/ u \notin Competitors(g)
        <4>1. stats'[x][u] = stats[x][u]
          BY <2>1, <3>2 DEF Settled, Competitors
        <4> QED BY <1>4, <1>7, <3>1, <3>2, <4>1, OthersApplied
      <3>3. CASE x = g.season /\ u \in Competitors(g)
        <4>1. g.winner = None => g.loss = 0
          BY <1>3, <1>4
        <4>2. g.winner \notin {None, u} => ~(stats[x][u].mmr < g.loss)
          <5>1. SUFFICES ASSUME g.winner \notin {None, u} PROVE ~(stats[x][u].mmr < g.loss)
            OBVIOUS
          <5>2. u = Loser(g)
            BY <1>3, <1>4, <1>7, <3>3, <5>1 DEF Loser, Competitors
          <5>3. <<x, u>> \notin CutAt0(g, u, g.loss)
            BY <1>4, <1>6, <2>3, <5>1, <5>2
          <5> QED BY <2>3, <3>3, <5>3 DEF CutAt0
        <4>3. Applied(stats[x][u], Settled(stats[x][u], u, g), games[m], g, g.season, u)
          BY <1>1, <1>3, <1>4, <1>7, <1>9, <3>1, <3>3, <4>1, <4>2, SettledApplied
        <4> QED BY <2>1, <3>3, <4>3
      <3> QED BY <3>2, <3>3
    <2>4. Becomes(m, g) /\ bent \subseteq bent'
      BY <1>5, <1>6 DEF Becomes
    <2>5. stats[x][u] # None /\ <<x, u>> \notin bent' =>
             Applied(stats[x][u], stats'[x][u], games[m], g, x, u)
      BY <2>3
    <2> QED BY <2>2, <2>4, <2>5, MatchKept
  <1> QED BY <1>11, <1>12, <1>13 DEF HistoryInv, RatingMatchesHistory, Kept

\* A request's competitors that somebody else's request has overtaken are bent.
LEMMA Unbent ==
    ASSUME HistoryInv, NEW s \in Slots, NEW x, NEW u,
           Runs(s, "revert") \/ Runs(s, "correct"),
           x = ratReq[s].was.season, u \in Competitors(ratReq[s].was),
           Overlapped(ratReq[s]) \subseteq bent', <<x, u>> \notin bent'
    PROVE  games[ratReq[s].match] = ratReq[s].was
  BY DEF Overlapped

\* A revert takes from the statistics what the match gave.
LEMMA RevertedApplied ==
    ASSUME NEW g \in Game, NEW new, NEW u \in Competitors(g), NEW row \in Statistics,
           NEW rows, g.status = "completed", ~g.undone, new.undone,
           g.winner \in Competitors(g) \cup {None},
           row.total > 0, g.winner = u => row.wins > 0 /\ ~(row.mmr < g.gain)
    PROVE  Applied(row, Reverted(row, u, g, rows), g, new, g.season, u)
  <1>1. /\ row.mmr \in Nat /\ row.wins \in Nat /\ row.total \in Nat
        /\ g.gain \in Nat /\ g.loss \in Nat /\ row # None /\ g # None
    BY GameTyped, RowsAreNotNone DEF Statistics
  <1>2. Counts(g, g.season, u) /\ ~Counts(new, g.season, u)
    BY <1>1 DEF Counts
  <1>3. u # None
    BY SeasonsAssumption, GameTyped DEF Competitors
  <1> PICK now : now = StreakOf(rows, SameRole(rows, Retained(rows, g.season), u, g), u)
    OBVIOUS
  <1> PICK next : next = [Unsettled(row, u, g) EXCEPT !.streak = now.streak,
                                                     !.best = now.best]
    OBVIOUS
  <1>4. Reverted(row, u, g, rows) = next
    BY <1>1 DEF Reverted
  <1>5. /\ next.starting = row.starting
        /\ next.mmr = IF u = g.winner THEN Minus(row.mmr, g.gain)
                      ELSE IF g.winner # None THEN row.mmr + g.loss ELSE row.mmr
        /\ next.wins = IF u = g.winner THEN Minus(row.wins, 1) ELSE row.wins
        /\ next.total = Minus(row.total, 1)
    BY DEF Unsettled, Statistics
  <1>6. CASE u = g.winner
    <2>1. /\ next.mmr + g.gain = row.mmr /\ next.wins + 1 = row.wins
          /\ next.total + 1 = row.total
      BY <1>1, <1>5, <1>6 DEF Minus
    <2>2. /\ GainOf(g, g.season, u) = g.gain /\ LossOf(g, g.season, u) = 0
          /\ WinOf(g, g.season, u) = 1 /\ PlayOf(g, g.season, u) = 1
          /\ GainOf(new, g.season, u) = 0 /\ LossOf(new, g.season, u) = 0
          /\ WinOf(new, g.season, u) = 0 /\ PlayOf(new, g.season, u) = 0
      BY <1>2, <1>6, Shares
    <2>3. next.starting = row.starting /\ next.mmr \in Nat
      BY <1>1, <1>5, <1>6, MinusTyped
    <2>4. Applied(row, next, g, new, g.season, u)
      BY <1>1, <2>1, <2>2, <2>3 DEF Applied
    <2> QED BY <1>4, <2>4
  <1>7. CASE u # g.winner
    <2>1. /\ next.mmr = row.mmr + LossOf(g, g.season, u) /\ next.wins = row.wins
          /\ next.total + 1 = row.total
      BY <1>1, <1>2, <1>5, <1>7 DEF Minus, LossOf
    <2>2. Applied(row, next, g, new, g.season, u)
      BY <1>1, <1>2, <1>3, <1>5, <1>7, <2>1, Shares DEF Applied
    <2> QED BY <1>4, <2>2
  <1> QED BY <1>6, <1>7

\* A correction replaces in the statistics what the match gave.
LEMMA CorrectedApplied ==
    ASSUME NEW r, NEW g \in Game, NEW u \in Competitors(g),
           r.was = g, r.gain \in Nat, r.loss \in Nat,
           NEW new, Counts(new, g.season, u), new.winner = g.winner,
           new.gain = r.gain, new.loss = r.loss, g.red # g.blue,
           NEW row \in Statistics,
           g.status = "completed", ~g.undone, g.winner \in Competitors(g),
           g.winner = u => ~(row.mmr < Minus(g.gain, r.gain)),
           g.winner # u => ~(row.mmr < Minus(r.loss, g.loss))
    PROVE  Applied(row, Corrected(row, u, r), g, new, g.season, u)
  <1>1. /\ row.mmr \in Nat /\ row.wins \in Nat /\ row.total \in Nat
        /\ g.gain \in Nat /\ g.loss \in Nat /\ row # None /\ g # None
    BY GameTyped, RowsAreNotNone DEF Statistics
  <1>2. u # None
    BY SeasonsAssumption, GameTyped DEF Competitors
  <1>3. Counts(g, g.season, u)
    BY <1>1 DEF Counts
  <1>4. CASE u = g.winner
    <2> PICK next : next = [row EXCEPT !.mmr = Minus(row.mmr + r.gain, g.gain)]
      OBVIOUS
    <2>1. Corrected(row, u, r) = next
      BY <1>1, <1>4 DEF Corrected
    <2>2. /\ next.starting = row.starting /\ next.wins = row.wins
          /\ next.total = row.total /\ next.mmr = Minus(row.mmr + r.gain, g.gain)
      BY DEF Statistics
    <2>3. next.mmr + g.gain = row.mmr + r.gain
      <3> PICK a, b, c : a = row.mmr /\ b = g.gain /\ c = r.gain
        OBVIOUS
      <3>1. a \in Nat /\ b \in Nat /\ c \in Nat
        BY <1>1
      <3>2. ~(a < Minus(b, c))
        BY <1>4
      <3>3. Minus(a + c, b) + b = a + c
        BY <3>1, <3>2 DEF Minus
      <3> QED BY <2>2, <3>3
    <2>4. /\ GainOf(g, g.season, u) = g.gain /\ LossOf(g, g.season, u) = 0
          /\ GainOf(new, g.season, u) = r.gain /\ LossOf(new, g.season, u) = 0
      BY <1>3, <1>4, Shares
    <2>5. /\ WinOf(new, g.season, u) = 1 /\ WinOf(g, g.season, u) = 1
          /\ PlayOf(new, g.season, u) = 1 /\ PlayOf(g, g.season, u) = 1
      BY <1>3, <1>4, Shares
    <2>6. next.mmr \in Nat
      <3>1. row.mmr + r.gain \in Nat
        BY <1>1
      <3> QED BY <1>1, <2>2, <3>1, MinusTyped
    <2>7. Applied(row, next, g, new, g.season, u)
      BY <1>1, <2>2, <2>3, <2>4, <2>5, <2>6 DEF Applied
    <2> QED BY <2>1, <2>7
  <1>5. CASE u # g.winner
    <2> PICK next : next = [row EXCEPT !.mmr = Minus(row.mmr + g.loss, r.loss)]
      OBVIOUS
    <2>1. u = Loser(g)
      BY <1>5 DEF Loser, Competitors
    <2>2. Corrected(row, u, r) = next
      BY <1>1, <1>5, <2>1 DEF Corrected
    <2>3. /\ next.starting = row.starting /\ next.wins = row.wins
          /\ next.total = row.total /\ next.mmr = Minus(row.mmr + g.loss, r.loss)
      BY DEF Statistics
    <2>4. next.mmr + r.loss = row.mmr + g.loss
      BY <1>1, <1>5, <2>3 DEF Minus
    <2>5. g.winner # None
      BY SeasonsAssumption, GameTyped DEF Competitors
    <2>6. /\ GainOf(g, g.season, u) = 0 /\ LossOf(g, g.season, u) = g.loss
          /\ GainOf(new, g.season, u) = 0 /\ LossOf(new, g.season, u) = r.loss
      BY <1>3, <1>5, <2>5, Shares
    <2>7. /\ WinOf(new, g.season, u) = 0 /\ WinOf(g, g.season, u) = 0
          /\ PlayOf(new, g.season, u) = 1 /\ PlayOf(g, g.season, u) = 1
      BY <1>3, <1>5, Shares
    <2>8. next.mmr \in Nat
      BY <1>1, <2>3, MinusTyped
    <2>9. Applied(row, next, g, new, g.season, u)
      BY <1>1, <2>3, <2>4, <2>6, <2>7, <2>8 DEF Applied
    <2> QED BY <2>2, <2>9
  <1> QED BY <1>4, <1>5

\* What the invariant says of a moderator's request and its match.
LEMMA AtHand ==
    ASSUME HistoryInv, NEW s \in Slots, Runs(s, "revert") \/ Runs(s, "correct")
    PROVE  LET r == ratReq[s]
               g == r.was
               old == games[r.match] IN
           /\ r \in RatingRequest /\ r.match \in RankedMatches
           /\ g \in Game /\ g.red # g.blue /\ Sound(g)
           /\ g.status = "completed" /\ ~g.undone /\ g.season \in SeasonNames
           /\ old # None /\ old \in Game /\ Sound(old) /\ old.status = "completed"
           /\ old.season = g.season /\ Competitors(old) = Competitors(g)
           /\ games \in [RankedMatches -> Game \cup {None}]
           /\ stats \in [SeasonNames -> Table]
  <1>2. /\ ratReq[s] \in RatingRequest
        /\ ratReq[s].match \in RankedMatches
        /\ Duel(ratReq[s].was) /\ ratReq[s].was \in Game
        /\ ratReq[s].was.season \in SeasonNames
        /\ games[ratReq[s].match] # None
        /\ games[ratReq[s].match] \in Game
    BY InHand DEF HistoryInv
  <1>3. /\ games \in [RankedMatches -> Game \cup {None}]
        /\ stats \in [SeasonNames -> Table]
    BY InvParts DEF HistoryInv, StatsTyped
  <1>4. Read(ratReq[s], games) /\ ratReq[s].op \in {"revert", "correct"}
    BY DEF HistoryInv, Runs
  <1>5. Sound(games[ratReq[s].match])
    BY <1>2 DEF HistoryInv
  <1> QED BY <1>2, <1>3, <1>4, <1>5 DEF Read, Duel

\* What such a request does to the statistics: the competitors' rows change by
\* the difference between the match it has read and new, if it is up to date.
OthersStay(g) ==
    \A x \in SeasonNames, u \in Players :
       \/ stats'[x][u] = stats[x][u]
       \/ x = g.season /\ u \in Competitors(g) /\ stats[x][u] # None
Applies(old, g, new) ==
    \A u \in Competitors(g) :
       /\ old = g
       /\ stats[g.season][u] # None
       /\ <<g.season, u>> \notin bent'
       /\ MatchesHistory(stats[g.season][u], games, g.season, u)
       => Applied(stats[g.season][u], stats'[g.season][u], g, new, g.season, u)

\* The commit of a moderator's request: its match becomes new, and it applies
\* to the statistics of the competitors unless somebody has overtaken it.
LEMMA CommitHistory ==
    ASSUME HistoryInv, SeasonsInv', NEW s \in Slots,
           Runs(s, "revert") \/ Runs(s, "correct"), SetRating(s, NoRating),
           NEW r, r = ratReq[s], NEW g, g = r.was, NEW new,
           NEW m \in RankedMatches, m = r.match,
           Becomes(m, new),
           new.season = games[m].season,
           Competitors(new) = Competitors(games[m]),
           new.status = "completed", new.winner = games[m].winner,
           bent \cup Overlapped(r) \subseteq bent',
           OthersStay(g), Applies(games[m], g, new)
    PROVE  HistoryInv'
  <1>1. /\ r \in RatingRequest /\ g \in Game /\ g.season \in SeasonNames
        /\ games[m].status = "completed"
        /\ games[m] # None /\ Sound(games[m])
        /\ games[m].season = g.season
        /\ Competitors(games[m]) = Competitors(g)
        /\ games \in [RankedMatches -> Game \cup {None}]
    BY AtHand
  <1>2. games'[m] = new /\ \A n \in RankedMatches \ {m} : games'[n] = games[n]
    BY <1>1 DEF Becomes
  <1>3. \A n \in RankedMatches : games'[n] # None => Sound(games'[n])
    <2>1. Sound(new)
      BY <1>1 DEF Sound
    <2> QED BY <1>2, <2>1 DEF HistoryInv
  <1>4. \A t \in Slots : Read(ratReq'[t], games')
    <2>1. Read(NoRating, games') /\ NoRating \in RatingRequest
      BY NoRatingSound DEF Read
    <2>2. \A n \in RankedMatches : games[n] # None =>
              /\ games'[n].season = games[n].season
              /\ Competitors(games'[n]) = Competitors(games[n])
              /\ games[n].status = "completed" => games'[n].status = "completed"
      BY <1>2
    <2> QED BY <2>1, <2>2, ReadKept
  <1>5. ASSUME NEW x \in SeasonNames, NEW u \in Players
        PROVE  Kept(x, u)
    <2>1. stats[x][u] = None => stats'[x][u] = None
      BY DEF OthersStay
    <2>2. ASSUME stats[x][u] # None, <<x, u>> \notin bent'
          PROVE  Applied(stats[x][u], stats'[x][u], games[m], new, x, u)
      <3>1. stats[x][u] \in Statistics
        BY <2>2 DEF HistoryInv, SeasonsInv, SeasonsTypeOK
      <3>2. CASE x # g.season \/ u \notin Competitors(g)
        <4>1. stats'[x][u] = stats[x][u]
          BY <3>2 DEF OthersStay
        <4> QED BY <1>1, <3>1, <3>2, <4>1, OthersApplied
      <3>3. CASE x = g.season /\ u \in Competitors(g)
        <4>1. games[m] = g
          BY <2>2, <3>3, Unbent
        <4>2. MatchesHistory(stats[x][u], games, x, u)
          BY <2>2 DEF HistoryInv, RatingMatchesHistory
        <4> QED BY <2>2, <3>3, <4>1, <4>2 DEF Applies
      <3> QED BY <3>2, <3>3
    <2>3. bent \subseteq bent'
      OBVIOUS
    <2>4. stats[x][u] # None /\ <<x, u>> \notin bent' =>
             Applied(stats[x][u], stats'[x][u], games[m], new, x, u)
      BY <2>2
    <2> QED BY <2>1, <2>3, <2>4, MatchKept
  <1> QED BY <1>3, <1>4, <1>5 DEF HistoryInv, RatingMatchesHistory, Kept

\* A revert leaves alone who did not compete.
LEMMA RevertedOther ==
    ASSUME NEW row, NEW u, NEW g, NEW rows, row = None \/ u \notin Competitors(g)
    PROVE  Reverted(row, u, g, rows) = row
BY DEF Reverted

\* RevertCommit.
LEMMA RevertHistory ==
    ASSUME HistoryInv, SeasonsInv', NEW s \in Slots, RevertCommit(s)
    PROVE  HistoryInv'
  <1> PICK r, g, m : r = ratReq[s] /\ g = r.was /\ m = r.match
    OBVIOUS
  <1> PICK rows : rows = [games EXCEPT ![m].undone = TRUE]
    OBVIOUS
  <1> PICK new : new = [games[m] EXCEPT !.undone = TRUE]
    OBVIOUS
  <1>1. /\ Runs(s, "revert") /\ SetRating(s, NoRating) /\ games' = rows
        /\ stats' = [stats EXCEPT ![g.season] =
                       [u \in Players |-> Reverted(stats[g.season][u], u, g, rows)]]
        /\ bent \cup Overlapped(r) \subseteq bent'
        /\ g.winner # None => CutAt0(g, g.winner, g.gain) \subseteq bent'
    BY DEF RevertCommit
  <1>2. /\ r \in RatingRequest /\ m \in RankedMatches
        /\ g \in Game /\ g.red # g.blue /\ Sound(g)
        /\ g.status = "completed" /\ ~g.undone /\ g.season \in SeasonNames
        /\ games[m] # None /\ games[m] \in Game
        /\ games[m].status = "completed"
        /\ games \in [RankedMatches -> Game \cup {None}]
        /\ stats \in [SeasonNames -> Table]
    BY <1>1, AtHand
  <1>3. Becomes(m, new)
    BY <1>1, <1>2 DEF Becomes
  <1>4. /\ new.season = games[m].season /\ new.red = games[m].red
        /\ new.blue = games[m].blue /\ new.status = "completed"
        /\ new.winner = games[m].winner /\ new.undone
    BY <1>2 DEF Game
  <1>5. Competitors(new) = Competitors(games[m])
    BY <1>4 DEF Competitors
  <1>6. ASSUME NEW x \in SeasonNames, NEW u \in Players
        PROVE  stats'[x][u] = IF x = g.season THEN Reverted(stats[x][u], u, g, rows)
                                             ELSE stats[x][u]
    BY <1>1, <1>2 DEF Table
  <1>7. OthersStay(g)
    BY <1>6, RevertedOther DEF OthersStay
  <1>8. ASSUME NEW u \in Competitors(g), games[m] = g,
               stats[g.season][u] # None, <<g.season, u>> \notin bent',
               MatchesHistory(stats[g.season][u], games, g.season, u)
        PROVE  Applied(stats[g.season][u], stats'[g.season][u], g, new, g.season, u)
    <2>1. u \in Players /\ g # None /\ u # None
      BY <1>2, GameTyped, SeasonsAssumption DEF Competitors
    <2>2. stats[g.season][u] \in Statistics
      BY <1>2, <1>8, <2>1 DEF Table
    <2>3. Counts(games[m], g.season, u)
      BY <1>2, <1>8, <2>1 DEF Counts
    <2>4. /\ stats[g.season][u].total > 0
          /\ g.winner = u => stats[g.season][u].wins > 0
      BY <1>2, <1>8, <2>2, <2>3, Counted
    <2>5. g.winner = u => ~(stats[g.season][u].mmr < g.gain)
      <3>1. g.winner = u => <<g.season, u>> \notin CutAt0(g, u, g.gain)
        BY <1>1, <1>8, <2>1
      <3> QED BY <1>8, <3>1 DEF CutAt0
    <2>6. g.winner \in Competitors(g) \cup {None}
      BY <1>2 DEF Sound
    <2>7. Applied(stats[g.season][u], Reverted(stats[g.season][u], u, g, rows),
                  g, new, g.season, u)
      BY <1>2, <1>4, <2>2, <2>4, <2>5, <2>6, RevertedApplied
    <2>8. stats'[g.season][u] = Reverted(stats[g.season][u], u, g, rows)
      BY <1>2, <1>6, <2>1
    <2> QED BY <2>7, <2>8
  <1>9. Applies(games[m], g, new)
    BY <1>8 DEF Applies
  <1>10. /\ Runs(s, "revert") /\ SetRating(s, NoRating) /\ m \in RankedMatches
         /\ bent \cup Overlapped(r) \subseteq bent'
    BY <1>1, <1>2
  <1> QED BY <1>3, <1>4, <1>5, <1>7, <1>9, <1>10, CommitHistory

\* CorrectCommit.
LEMMA CorrectHistory ==
    ASSUME HistoryInv, SeasonsInv', NEW s \in Slots, CorrectCommit(s)
    PROVE  HistoryInv'
  <1> PICK r, g, m : r = ratReq[s] /\ g = r.was /\ m = r.match
    OBVIOUS
  <1> PICK new : new = [games[m] EXCEPT !.gain = r.gain, !.loss = r.loss]
    OBVIOUS
  <1>1. /\ Runs(s, "correct") /\ SetRating(s, NoRating)
        /\ games' = [games EXCEPT ![m].gain = r.gain, ![m].loss = r.loss]
        /\ stats' = [stats EXCEPT ![g.season] =
                       [u \in Players |-> Corrected(stats[g.season][u], u, r)]]
        /\ bent \cup Overlapped(r) \subseteq bent'
        /\ CutAt0(g, g.winner, Minus(g.gain, r.gain)) \subseteq bent'
        /\ CutAt0(g, Loser(g), Minus(r.loss, g.loss)) \subseteq bent'
    BY DEF CorrectCommit
  <1>2. /\ r \in RatingRequest /\ m \in RankedMatches
        /\ g \in Game /\ g.red # g.blue /\ Sound(g)
        /\ g.status = "completed" /\ ~g.undone /\ g.season \in SeasonNames
        /\ games[m] # None /\ games[m] \in Game
        /\ games[m].status = "completed"
        /\ games \in [RankedMatches -> Game \cup {None}]
        /\ stats \in [SeasonNames -> Table]
    BY <1>1, AtHand
  <1>3. Becomes(m, new)
    BY <1>1, <1>2 DEF Becomes
  <1>4. /\ new.season = games[m].season /\ new.red = games[m].red
        /\ new.blue = games[m].blue /\ new.status = "completed"
        /\ new.winner = games[m].winner /\ new.undone = games[m].undone
        /\ new.gain = r.gain /\ new.loss = r.loss
    BY <1>2 DEF Game
  <1>5. Competitors(new) = Competitors(games[m])
    BY <1>4 DEF Competitors
  <1>6. ASSUME NEW x \in SeasonNames, NEW u \in Players
        PROVE  stats'[x][u] = IF x = g.season THEN Corrected(stats[x][u], u, r)
                                             ELSE stats[x][u]
    BY <1>1, <1>2 DEF Table
  <1>7. g.winner \in Competitors(g) /\ Loser(g) \in Competitors(g)
    <2>1. g.winner # None
      BY <1>1, InvParts DEF HistoryInv, Runs, Holds
    <2> QED BY <1>2, <2>1, LoserTyped DEF Sound, Duel
  <1>8. OthersStay(g)
    <2>1. ASSUME NEW u, u \notin Competitors(g), NEW row
          PROVE  Corrected(row, u, r) = row
      BY <1>7, <2>1 DEF Corrected
    <2>2. \A u \in Players : Corrected(None, u, r) = None
      BY DEF Corrected
    <2> QED BY <1>6, <2>1, <2>2 DEF OthersStay
  <1>9. ASSUME NEW u \in Competitors(g), games[m] = g,
               stats[g.season][u] # None, <<g.season, u>> \notin bent'
        PROVE  Applied(stats[g.season][u], stats'[g.season][u], g, new, g.season, u)
    <2>1. u \in Players /\ g # None /\ u # None
      BY <1>2, GameTyped, SeasonsAssumption DEF Competitors
    <2>2. stats[g.season][u] \in Statistics
      BY <1>2, <1>9, <2>1 DEF Table
    <2>3. r.gain \in Nat /\ r.loss \in Nat
      BY <1>2 DEF RatingRequest
    <2>4. Counts(new, g.season, u)
      <3>1. new \in Game
        BY <1>2, <2>3 DEF Game
      <3> QED BY <1>2, <1>4, <1>5, <1>9, <3>1, GameTyped DEF Counts
    <2>5. g.winner = u => ~(stats[g.season][u].mmr < Minus(g.gain, r.gain))
      <3>1. g.winner = u => <<g.season, u>> \notin CutAt0(g, u, Minus(g.gain, r.gain))
        BY <1>1, <1>9
      <3> QED BY <1>9, <3>1 DEF CutAt0
    <2>6. g.winner # u => ~(stats[g.season][u].mmr < Minus(r.loss, g.loss))
      <3>1. g.winner # u => u = Loser(g)
        BY <1>7 DEF Loser, Competitors
      <3>2. g.winner # u => <<g.season, u>> \notin CutAt0(g, u, Minus(r.loss, g.loss))
        BY <1>1, <1>9, <3>1
      <3> QED BY <1>9, <3>2 DEF CutAt0
    <2>7. new.winner = g.winner /\ new.gain = r.gain /\ new.loss = r.loss
      BY <1>4, <1>9
    <2>8. Applied(stats[g.season][u], Corrected(stats[g.season][u], u, r),
                  g, new, g.season, u)
      BY <1>2, <1>7, <2>2, <2>3, <2>4, <2>5, <2>6, <2>7, CorrectedApplied
    <2>9. stats'[g.season][u] = Corrected(stats[g.season][u], u, r)
      BY <1>2, <1>6, <2>1
    <2> QED BY <2>8, <2>9
  <1>10. Applies(games[m], g, new)
    BY <1>9 DEF Applies
  <1>11. /\ Runs(s, "correct") /\ SetRating(s, NoRating) /\ m \in RankedMatches
         /\ bent \cup Overlapped(r) \subseteq bent'
    BY <1>1, <1>2
  <1> QED BY <1>3, <1>4, <1>5, <1>8, <1>10, <1>11, CommitHistory

\* Steps that neither finish a match nor change a counted number, and leave the
\* requests alone or one of them with a match that it has just read.
LEMMA QuietHistory ==
    ASSUME HistoryInv, SeasonsInv', bent' = bent,
           \A m \in RankedMatches :
              \/ games'[m] = games[m]
              \/ games[m] = None /\ games'[m].status = "playing" /\ Sound(games'[m]),
           \A x \in SeasonNames, u \in Players : RowStays(stats[x][u], stats'[x][u]),
           \/ ratReq' = ratReq
           \/ \E s \in Slots : \E r : Read(r, games') /\ SetRating(s, r)
    PROVE  HistoryInv'
  <1>1. \A m \in RankedMatches : games'[m] # None => Sound(games'[m])
    BY DEF HistoryInv
  <1>2. \A s \in Slots : Read(ratReq'[s], games')
    BY ReadKept
  <1>3. ASSUME NEW x \in SeasonNames, NEW u \in Players PROVE Kept(x, u)
    BY TableKept
  <1> QED BY <1>1, <1>2, <1>3 DEF HistoryInv, RatingMatchesHistory, Kept

\* New rows for those who had none.
LEMMA EnsureStays ==
    ASSUME NEW table, NEW U, NEW mmr \in Nat, NEW u \in Players
    PROVE  RowStays(table[u], Ensure(table, U, mmr)[u])
BY DEF Ensure, RowStays

\* A season is written, finished or deleted, or time passes.
LEMMA SeasonHistory ==
    ASSUME HistoryInv, SeasonsInv', NEW y \in SeasonNames,
           \/ \E row \in Season : WriteSeason(y, row)
           \/ FinishSeason(y) \/ DeleteSeason(y) \/ TimePasses(y)
    PROVE  HistoryInv'
  <1>1. bent' = bent /\ games' = games /\ ratReq' = ratReq
    BY DEF WriteSeason, FinishSeason, DeleteSeason, TimePasses
  <1>2. stats \in [SeasonNames -> Table] /\ StartingMmr \in Nat
    BY InvParts, SeasonsAssumption DEF HistoryInv, StatsTyped
  <1>3. ASSUME NEW x \in SeasonNames, NEW u \in Players
        PROVE  RowStays(stats[x][u], stats'[x][u])
    <2>1. ASSUME NEW row \in Season, WriteSeason(y, row)
          PROVE  RowStays(stats[x][u], stats'[x][u])
      <3>1. \/ stats'[x][u] = stats[x][u]
            \/ stats'[x][u] = Ensure(stats[x], people, StartingMmr)[u]
        BY <1>2, <2>1 DEF WriteSeason
      <3> QED BY <1>2, <3>1, EnsureStays DEF RowStays
    <2>2. CASE FinishSeason(y)
      <3>1. \/ stats'[x][u] = stats[x][u]
            \/ stats[x][u] # None
               /\ stats'[x][u] = [stats[x][u] EXCEPT !.ending = stats[x][u].mmr]
        BY <1>2, <2>2 DEF FinishSeason
      <3>2. stats[x][u] \in Statistics \cup {None}
        BY <1>2 DEF Table
      <3> QED BY <3>1, <3>2 DEF RowStays, Statistics
    <2>3. CASE DeleteSeason(y) \/ TimePasses(y)
      BY <2>3 DEF DeleteSeason, TimePasses, RowStays
    <2> QED BY <2>1, <2>2, <2>3
  <1> QED BY <1>1, <1>3, QuietHistory

\* A player begins to sign up or to join a queue.
LEMMA PlayerBeginsHistory ==
    ASSUME HistoryInv, SeasonsInv', NEW s \in Slots, NEW v \in Players,
           SignUpBegin(s, v) \/ JoinQueue(s, v)
    PROVE  HistoryInv'
  <1>1. bent' = bent /\ games' = games /\ stats' = stats
    BY DEF SignUpBegin, JoinQueue
  <1>2. ASSUME NEW op \in {"sign_up", "join"}, NEW x
        PROVE  Read([NoRating EXCEPT !.op = op, !.player = v, !.season = x], games')
    BY DEF Read, NoRating
  <1>3. \E r : Read(r, games') /\ SetRating(s, r)
    BY <1>2 DEF SignUpBegin, JoinQueue
  <1> QED BY <1>1, <1>3, QuietHistory DEF RowStays

\* A player logs in.
LEMMA LoginHistory ==
    ASSUME HistoryInv, SeasonsInv', NEW v \in Players, Login(v)
    PROVE  HistoryInv'
  <1>1. bent' = bent /\ games' = games /\ ratReq' = ratReq /\ DefaultMmr \in Nat
    BY SeasonsAssumption DEF Login
  <1>2. ASSUME NEW x \in SeasonNames, NEW u \in Players
        PROVE  RowStays(stats[x][u], stats'[x][u])
    <2>1. \/ stats'[x][u] = stats[x][u]
          \/ stats'[x][u] = Ensure(stats[x], {v}, DefaultMmr)[u]
      BY DEF Login
    <2> QED BY <1>1, <2>1, EnsureStays DEF RowStays
  <1> QED BY <1>1, <1>2, QuietHistory

\* The account is there, the player waits, or a request fails.
LEMMA PlayerAnsweredHistory ==
    ASSUME HistoryInv, SeasonsInv', NEW s \in Slots,
           SignUpCommit(s) \/ JoinWaits(s) \/ RatingFails(s)
    PROVE  HistoryInv'
  <1>1. bent' = bent /\ games' = games /\ SetRating(s, NoRating)
    BY DEF SignUpCommit, JoinWaits, RatingFails
  <1>2. stats \in [SeasonNames -> Table] /\ StartingMmr \in Nat
    BY InvParts, SeasonsAssumption DEF HistoryInv, StatsTyped
  <1>3. ASSUME NEW x \in SeasonNames, NEW u \in Players
        PROVE  RowStays(stats[x][u], stats'[x][u])
    <2>1. \/ stats'[x][u] = stats[x][u]
          \/ stats'[x][u] = Ensure(stats[x], {ratReq[s].player}, StartingMmr)[u]
      <3>1. CASE SignUpCommit(s)
        BY <3>1 DEF SignUpCommit
      <3>2. CASE JoinWaits(s)
        BY <1>2, <3>2 DEF JoinWaits
      <3>3. CASE RatingFails(s)
        BY <3>3 DEF RatingFails
      <3> QED BY <3>1, <3>2, <3>3
    <2> QED BY <1>2, <2>1, EnsureStays DEF RowStays
  <1>4. Read(NoRating, games')
    BY NoRatingSound DEF Read
  <1> QED BY <1>1, <1>3, <1>4, QuietHistory

\* A queue makes a match.
LEMMA JoinPairsHistory ==
    ASSUME HistoryInv, SeasonsInv', NEW s \in Slots, JoinPairs(s)
    PROVE  HistoryInv'
  <1>1. /\ bent' = bent /\ SetRating(s, NoRating)
        /\ stats' = [stats EXCEPT ![ratReq[s].season] =
                       Ensure(stats[ratReq[s].season], {ratReq[s].player}, StartingMmr)]
    BY DEF JoinPairs
  <1>2. /\ stats \in [SeasonNames -> Table] /\ StartingMmr \in Nat
        /\ games \in [RankedMatches -> Game \cup {None}]
    BY InvParts, SeasonsAssumption DEF HistoryInv, StatsTyped
  <1>3. ASSUME NEW x \in SeasonNames, NEW u \in Players
        PROVE  RowStays(stats[x][u], stats'[x][u])
    <2>1. \/ stats'[x][u] = stats[x][u]
          \/ stats'[x][u] = Ensure(stats[x], {ratReq[s].player}, StartingMmr)[u]
      BY <1>1, <1>2
    <2> QED BY <1>2, <2>1, EnsureStays DEF RowStays
  <1>4. PICK m \in RankedMatches, red \in Players, blue \in Players :
           /\ games[m] = None
           /\ games' = [games EXCEPT ![m] =
                [season |-> ratReq[s].season, red |-> red, blue |-> blue,
                 status |-> "playing", winner |-> None, gain |-> 0, loss |-> 0,
                 undone |-> FALSE, ended |-> 0]]
    BY Zenon DEF JoinPairs
  <1>5. /\ games'[m].status = "playing" /\ Sound(games'[m])
        /\ \A n \in RankedMatches \ {m} : games'[n] = games[n]
    BY <1>2, <1>4 DEF Sound
  <1>6. Read(NoRating, games')
    BY NoRatingSound DEF Read
  <1>7. \A n \in RankedMatches :
           \/ games'[n] = games[n]
           \/ games[n] = None /\ games'[n].status = "playing" /\ Sound(games'[n])
    BY <1>4, <1>5
  <1> QED BY <1>1, <1>3, <1>6, <1>7, QuietHistory

\* A moderator's request reads a match that has ended.
LEMMA ModeratorHistory ==
    ASSUME HistoryInv, SeasonsInv', NEW s \in Slots, NEW m \in RankedMatches,
           RevertBegin(s, m) \/ \E result \in Corrections : CorrectBegin(s, m, result)
    PROVE  HistoryInv'
  <1>1. /\ bent' = bent /\ games' = games /\ stats' = stats
        /\ games[m] # None /\ games[m].status = "completed" /\ ~games[m].undone
    BY DEF RevertBegin, CorrectBegin, ReadMatch, Revertible, Completed
  <1>2. Sound(games[m])
    BY <1>1 DEF HistoryInv
  <1>3. \E r : r.match = m /\ r.was = games[m] /\ SetRating(s, r)
    <2>1. CASE RevertBegin(s, m)
      BY <2>1 DEF RevertBegin, ReadMatch, NoRating
    <2>2. ASSUME NEW result \in Corrections, CorrectBegin(s, m, result)
          PROVE  \E r : r.match = m /\ r.was = games[m] /\ SetRating(s, r)
      BY <2>2 DEF CorrectBegin, ReadMatch, NoRating
    <2> QED BY <2>1, <2>2
  <1>4. \E r : Read(r, games') /\ SetRating(s, r)
    BY <1>1, <1>2, <1>3 DEF Read
  <1> QED BY <1>1, <1>4, QuietHistory DEF RowStays

\* At first there is no history, and no rating.
LEMMA InitHistory == SeasonsInit => HistoryInv
  <1> SUFFICES ASSUME SeasonsInit PROVE HistoryInv
    OBVIOUS
  <1>1. SeasonsInv
    BY InitSound
  <1>2. /\ \A m \in RankedMatches : games[m] = None
        /\ \A x \in SeasonNames, u \in Players : stats[x][u] = None
        /\ \A s \in Slots : ratReq[s] = NoRating
    BY DEF SeasonsInit
  <1> QED BY <1>1, <1>2 DEF HistoryInv, RatingMatchesHistory, Read, NoRating

\* Every step keeps the invariant.
LEMMA NextHistory == HistoryInv /\ [SeasonsNext]_seasonsVars => HistoryInv'
  <1> SUFFICES ASSUME HistoryInv, [SeasonsNext]_seasonsVars PROVE HistoryInv'
    OBVIOUS
  <1>1. SeasonsInv'
    BY NextSound DEF HistoryInv
  <1>2. ASSUME NEW x \in SeasonNames,
               \/ CreateSeason(x) \/ PatchSeason(x) \/ FinishSeason(x)
               \/ DeleteSeason(x) \/ TimePasses(x)
        PROVE  HistoryInv'
    BY <1>1, <1>2, SeasonHistory DEF CreateSeason, PatchSeason
  <1>3. ASSUME NEW u \in Players, Login(u)
        PROVE  HistoryInv'
    BY <1>1, <1>3, LoginHistory
  <1>4. ASSUME NEW s \in Slots,
               \/ \E u \in Players : SignUpBegin(s, u) \/ JoinQueue(s, u)
               \/ SignUpCommit(s) \/ JoinWaits(s) \/ RatingFails(s)
        PROVE  HistoryInv'
    BY <1>1, <1>4, PlayerBeginsHistory, PlayerAnsweredHistory
  <1>5. ASSUME NEW s \in Slots, JoinPairs(s) \/ RevertCommit(s) \/ CorrectCommit(s)
        PROVE  HistoryInv'
    BY <1>1, <1>5, JoinPairsHistory, RevertHistory, CorrectHistory
  <1>6. ASSUME NEW s \in Slots, NEW m \in RankedMatches,
               \/ RevertBegin(s, m)
               \/ \E result \in Corrections : CorrectBegin(s, m, result)
        PROVE  HistoryInv'
    BY <1>1, <1>6, ModeratorHistory
  <1>7. ASSUME NEW m \in RankedMatches, Settle(m)
        PROVE  HistoryInv'
    BY <1>1, <1>7, SettleHistory
  <1>8. CASE UNCHANGED seasonsVars
    BY <1>1, <1>8, QuietHistory DEF seasonsVars, RowStays
  <1> QED
    BY <1>2, <1>3, <1>4, <1>5, <1>6, <1>7, <1>8 DEF SeasonsNext

\* Every rating is the starting MMR with the gains and losses of the matches
\* that count, and the counters are their numbers, for any number of matches,
\* players and moderators, except where the rating was cut at 0 or two requests
\* changed one match at a time.
THEOREM RatingsMatchHistory == SeasonsSpec => []RatingMatchesHistory
  <1>1. HistoryInv => RatingMatchesHistory
    BY DEF HistoryInv
  <1> QED BY <1>1, InitHistory, NextHistory, PTL DEF SeasonsSpec

-----------------------------------------------------------------------------
(* The streak.                                                             *)

\* The matches of M since the last one that u did not win: his streak.
LastRun(rows, M, u) ==
    {n \in M : \A k \in M : rows[k].ended >= rows[n].ended => rows[k].winner = u}

\* The lengths of all his runs.
Lengths(rows, M, u) == {0} \cup {Cardinality(RunUpTo(rows, M, u, m)) : m \in M}

\* The lengths are bounded.
LEMMA LengthsTyped ==
    ASSUME NEW rows, NEW M \in SUBSET RankedMatches, NEW u
    PROVE  /\ Cardinality(RankedMatches) \in Nat
           /\ Lengths(rows, M, u) \in SUBSET (0..Cardinality(RankedMatches))
           /\ Lengths(rows, M, u) # {}
           /\ Cardinality(LastRun(rows, M, u)) \in 0..Cardinality(RankedMatches)
  <1>1. Cardinality(RankedMatches) \in Nat
    BY CountTyped, RankedMatches \in SUBSET RankedMatches
  <1>2. \A m \in M : Cardinality(RunUpTo(rows, M, u, m)) \in 0..Cardinality(RankedMatches)
    <2>1. \A m \in M : RunUpTo(rows, M, u, m) \in SUBSET RankedMatches
      BY DEF RunUpTo
    <2> QED BY <2>1, CountTyped
  <1>3. LastRun(rows, M, u) \in SUBSET RankedMatches
    BY DEF LastRun
  <1> QED BY <1>1, <1>2, <1>3, CountTyped DEF Lengths

\* What StreakOf computes.
LEMMA StreakIsLastRun ==
    ASSUME NEW rows, NEW M \in SUBSET RankedMatches, NEW u, NEW b \in Nat,
           \A n \in M : rows[n].ended \in 0..b
    PROVE  /\ StreakOf(rows, M, u).streak = Cardinality(LastRun(rows, M, u))
           /\ StreakOf(rows, M, u).best = Max(Lengths(rows, M, u))
  <1> DEFINE last == {m \in M : \A n \in M : rows[n].ended <= rows[m].ended}
             A == {0} \cup {Cardinality(RunUpTo(rows, M, u, m)) : m \in last}
             B == {0} \cup {Cardinality(run) : run \in {RunUpTo(rows, M, u, m) : m \in M}}
             c == Cardinality(LastRun(rows, M, u))
  <1>1. StreakOf(rows, M, u) = [streak |-> Max(A), best |-> Max(B)]
    BY DEF StreakOf
  <1>2. B = Lengths(rows, M, u)
    BY DEF Lengths
  <1>3. \A m \in last : RunUpTo(rows, M, u, m) = LastRun(rows, M, u)
    <2> SUFFICES ASSUME NEW m \in last PROVE RunUpTo(rows, M, u, m) = LastRun(rows, M, u)
      OBVIOUS
    <2>1. \A n \in M : rows[n].ended \in Nat /\ rows[n].ended <= rows[m].ended
      OBVIOUS
    <2>2. m \in M /\ rows[m].ended \in Nat
      OBVIOUS
    <2>3. \A n, k \in M : rows[k].ended \in rows[n].ended..rows[m].ended
                             <=> rows[k].ended >= rows[n].ended
      BY <2>1, <2>2
    <2> HIDE DEF last
    <2> QED BY <2>1, <2>3 DEF RunUpTo, LastRun
  <1>4. c \in 0..Cardinality(RankedMatches) /\ Cardinality(RankedMatches) \in Nat
    BY LengthsTyped
  <1>5. Max(A) = c
    <2>1. CASE M = {}
      <3>1. LastRun(rows, M, u) = {} /\ A = {0}
        BY <2>1 DEF LastRun
      <3>2. c = 0
        BY <3>1, FS_EmptySet
      <3> HIDE DEF A, c
      <3> QED BY <1>4, <3>1, <3>2, MaxIs, {0} \in SUBSET (0..Cardinality(RankedMatches))
    <2>2. CASE M # {}
      <3> DEFINE E == {rows[n].ended : n \in M}
      <3>1. E \in SUBSET (0..b) /\ E # {}
        BY <2>2
      <3>2. Max(E) \in E /\ \A x \in E : Max(E) >= x
        <4> HIDE DEF E
        <4> QED BY <3>1, MaxGreatest
      <3>3. PICK m \in M : rows[m].ended = Max(E)
        BY <3>2
      <3>4. \A n \in M : rows[n].ended \in Nat /\ rows[m].ended >= rows[n].ended
        BY <3>2, <3>3
      <3>5. m \in last
        BY <3>3, <3>4
      <3>6. A = {0, c}
        BY <1>3, <3>5
      <3>7. \A x \in {0, c} : x <= c
        BY <1>4
      <3> HIDE DEF A, c
      <3> QED BY <1>4, <3>6, <3>7, MaxIs, {0, c} \in SUBSET (0..Cardinality(RankedMatches)),
                 c \in {0, c}
    <2> QED BY <2>1, <2>2
  <1> HIDE DEF A, B, c
  <1>6. StreakOf(rows, M, u).streak = Max(A) /\ StreakOf(rows, M, u).best = Max(B)
    BY <1>1
  <1> QED BY <1>2, <1>5, <1>6 DEF c

\* A streak depends on when the matches ended and who won.
LEMMA StreakSame ==
    ASSUME NEW rows, NEW next, NEW M \in SUBSET RankedMatches, NEW u,
           \A n \in M : next[n].ended = rows[n].ended /\ next[n].winner = rows[n].winner
    PROVE  StreakOf(next, M, u) = StreakOf(rows, M, u)
  <1>1. \A m \in M : RunUpTo(next, M, u, m) = RunUpTo(rows, M, u, m)
    BY DEF RunUpTo
  <1>2. {m \in M : \A n \in M : next[n].ended <= next[m].ended}
           = {m \in M : \A n \in M : rows[n].ended <= rows[m].ended}
    OBVIOUS
  <1>3. {RunUpTo(next, M, u, m) : m \in M} = {RunUpTo(rows, M, u, m) : m \in M}
    BY <1>1
  <1> DEFINE last(r) == {m \in M : \A n \in M : r[n].ended <= r[m].ended}
             lens(r) == {Cardinality(RunUpTo(r, M, u, m)) : m \in last(r)}
             runs(r) == {RunUpTo(r, M, u, m) : m \in M}
  <1>4. lens(next) = lens(rows) /\ runs(next) = runs(rows)
    BY <1>1, <1>2, <1>3
  <1>5. \A r : StreakOf(r, M, u) =
           [streak |-> Max({0} \cup lens(r)),
            best |-> Max({0} \cup {Cardinality(run) : run \in runs(r)})]
    BY DEF StreakOf
  <1> HIDE DEF lens, runs
  <1> QED BY <1>4, <1>5

\* Without a match there is no streak.
LEMMA StreakEmpty ==
    ASSUME NEW rows, NEW u
    PROVE  StreakOf(rows, {}, u).streak = 0 /\ StreakOf(rows, {}, u).best = 0
  <1>1. LastRun(rows, {}, u) = {} /\ Lengths(rows, {}, u) = {0}
    BY DEF LastRun, Lengths
  <1>2. Cardinality({}) = 0
    BY FS_EmptySet
  <1>3. Max({0}) = 0
    BY MaxIs, 0 \in Nat, {0} \in SUBSET (0..0)
  <1>4. /\ StreakOf(rows, {}, u).streak = Cardinality(LastRun(rows, {}, u))
        /\ StreakOf(rows, {}, u).best = Max(Lengths(rows, {}, u))
    BY StreakIsLastRun, 0 \in Nat, {} \in SUBSET RankedMatches
  <1> QED BY <1>1, <1>2, <1>3, <1>4

\* A match m ends after all of those of M, of which b have ended.
Follows(rows, next, M, m, b) ==
    /\ M \in SUBSET RankedMatches /\ m \in RankedMatches \ M /\ b \in Nat
    /\ \A n \in M : /\ rows[n].ended \in 0..b
                    /\ next[n].ended = rows[n].ended
                    /\ next[n].winner = rows[n].winner
    /\ next[m].ended = b + 1

\* A streak is made longer, or ends.
Continues(old, now, g, u) ==
    /\ g.winner = u => /\ now.streak = old.streak + 1
                       /\ now.best = Max({old.best, old.streak + 1})
    /\ g.winner # u => now.streak = 0 /\ now.best = old.best

\* That is what one more match does.
LEMMA StreakMore ==
    ASSUME NEW rows, NEW next, NEW M, NEW u, NEW m, NEW b, Follows(rows, next, M, m, b)
    PROVE  Continues(StreakOf(rows, M, u), StreakOf(next, M \cup {m}, u), next[m], u)
  <1> DEFINE W == M \cup {m}
             N == Cardinality(RankedMatches)
             t == Cardinality(LastRun(rows, M, u))
             c == Cardinality(LastRun(next, W, u))
  <1>0. /\ M \in SUBSET RankedMatches /\ m \in RankedMatches \ M /\ b \in Nat
        /\ \A n \in M : /\ rows[n].ended \in 0..b
                        /\ next[n].ended = rows[n].ended
                        /\ next[n].winner = rows[n].winner
        /\ next[m].ended = b + 1
    BY DEF Follows
  <1>1. W \in SUBSET RankedMatches
    BY <1>0
  <1>2. \A n \in W : next[n].ended \in 0..(b + 1)
    BY <1>0
  <1>3. /\ next[m].ended \in Nat
        /\ \A n \in M : next[n].ended \in Nat /\ next[n].ended < next[m].ended
    BY <1>0
  <1>4. /\ StreakOf(rows, M, u).streak = t
        /\ StreakOf(rows, M, u).best = Max(Lengths(rows, M, u))
    BY <1>0, StreakIsLastRun
  <1>5. /\ StreakOf(next, W, u).streak = c
        /\ StreakOf(next, W, u).best = Max(Lengths(next, W, u))
    <2> HIDE DEF W, c
    <2>1. b + 1 \in Nat
      BY <1>0
    <2> QED BY <1>0, <1>1, <1>2, <2>1, StreakIsLastRun DEF c
  <1>6. \A n \in M : RunUpTo(next, W, u, n) = RunUpTo(rows, M, u, n)
    <2> SUFFICES ASSUME NEW n \in M
                 PROVE  RunUpTo(next, W, u, n) = RunUpTo(rows, M, u, n)
      OBVIOUS
    <2>1. next[m].ended \in Nat /\ next[n].ended \in Nat /\ next[n].ended < next[m].ended
      BY <1>3
    <2>2. ~(next[m].ended <= next[n].ended)
      BY <2>1
    <2>3. \A k : next[m].ended \notin k..next[n].ended
      BY <2>2
    <2> QED BY <1>0, <2>2, <2>3 DEF RunUpTo
  <1>7. RunUpTo(next, W, u, m) = LastRun(next, W, u)
    <2>1. \A n \in W : next[n].ended \in Nat /\ next[n].ended <= next[m].ended
      BY <1>0, <1>2, <1>3
    <2>2. next[m].ended \in Nat
      BY <2>1
    <2>3. \A n, k \in W : next[k].ended \in next[n].ended..next[m].ended
                             <=> next[k].ended >= next[n].ended
      BY <2>1, <2>2
    <2> HIDE DEF W
    <2> QED BY <2>1, <2>3 DEF RunUpTo, LastRun
  <1>8. Lengths(next, W, u) = Lengths(rows, M, u) \cup {c}
    BY <1>0, <1>6, <1>7 DEF Lengths
  <1>9. /\ N \in Nat /\ t \in 0..N /\ c \in 0..N
        /\ Lengths(rows, M, u) \in SUBSET (0..N) /\ Lengths(rows, M, u) # {}
    BY <1>0, <1>1, LengthsTyped
  <1>10. Max(Lengths(next, W, u)) = Max({Max(Lengths(rows, M, u)), c})
    <2> HIDE DEF c, N, W
    <2> QED BY <1>8, <1>9, MaxMore
  <1>11. ASSUME next[m].winner = u PROVE c = t + 1
    <2>1. LastRun(next, W, u) = LastRun(rows, M, u) \cup {m}
      <3>1. \A n \in M : ~(next[n].ended >= next[m].ended) /\ next[m].ended >= next[n].ended
        BY <1>3
      <3>2. m \in LastRun(next, W, u)
        BY <1>0, <1>11, <3>1 DEF LastRun
      <3>3. ASSUME NEW n \in M PROVE n \in LastRun(next, W, u) <=> n \in LastRun(rows, M, u)
        BY <1>0, <1>11, <3>1 DEF LastRun
      <3> QED BY <1>0, <3>2, <3>3 DEF LastRun
    <2>2. m \notin LastRun(rows, M, u) /\ LastRun(rows, M, u) \subseteq RankedMatches
      BY <1>0 DEF LastRun
    <2>3. IsFiniteSet(LastRun(rows, M, u))
      BY <2>2, SeasonsAssumption, FS_Subset
    <2> QED BY <2>1, <2>2, <2>3, FS_AddElement
  <1>12. ASSUME next[m].winner # u PROVE c = 0
    <2>1. \A n \in W : next[m].ended >= next[n].ended
      BY <1>0, <1>2, <1>3
    <2>2. LastRun(next, W, u) = {}
      BY <1>0, <1>12, <2>1 DEF LastRun
    <2> QED BY <2>2, FS_EmptySet
  <1> DEFINE L == Max(Lengths(rows, M, u))
  <1>13. L \in 0..N
    <2>1. L \in Lengths(rows, M, u)
      <3> HIDE DEF N
      <3> QED BY <1>9, MaxGreatest
    <2> QED BY <1>9, <2>1
  <1>14. Max({L, 0}) = L
    <2>1. {L, 0} \in SUBSET (0..N) /\ L \in {L, 0} /\ \A x \in {L, 0} : x <= L
      BY <1>9, <1>13
    <2> HIDE DEF L, N
    <2> QED BY <1>9, <2>1, MaxIs
  <1> HIDE DEF L, N, W, t, c
  <1> QED BY <1>4, <1>5, <1>10, <1>11, <1>12, <1>14 DEF L, W, Continues

-----------------------------------------------------------------------------
(* The streaks of those who have played one colour.                        *)

\* A request keeps hold of a match in which everybody has his colour.
Colours(r, rows) ==
    r.op \in {"revert", "correct"} =>
        rows[r.match].red = r.was.red /\ rows[r.match].blue = r.was.blue

\* How many matches have ended.
Ended(rows) == {n \in RankedMatches : rows[n] # None /\ rows[n].status = "completed"}

\* The inductive invariant.
StreakInv ==
    /\ HistoryInv
    /\ \A s \in Slots : Colours(ratReq[s], games)
    /\ \A m \in Ended(games) : games[m].ended <= Cardinality(Ended(games))
    /\ StreakOfOneColour

\* Statistics of one player in one season after a step.
StreakKept(x, u) ==
    stats'[x][u] # None /\ OneColour(games', x, u) =>
        /\ stats'[x][u].streak = StreakOf(games', Mine(games', x, u), u).streak
        /\ stats'[x][u].best = StreakOf(games', Mine(games', x, u), u).best

\* The matches that have ended are numbered.
LEMMA EndedTyped ==
    ASSUME StreakInv
    PROVE  /\ Cardinality(Ended(games)) \in Nat
           /\ \A m \in Ended(games) : games[m].ended \in 0..Cardinality(Ended(games))
           /\ \A x, u : Mine(games, x, u) \subseteq Completions(games, x, u)
           /\ \A x, u : Completions(games, x, u) \subseteq Ended(games)
           /\ \A x, u : Mine(games, x, u) \in SUBSET RankedMatches
  <1>1. Ended(games) \in SUBSET RankedMatches
    BY DEF Ended
  <1>2. Cardinality(Ended(games)) \in Nat
    BY <1>1, CountTyped
  <1>3. ASSUME NEW m \in Ended(games) PROVE games[m].ended \in Nat
    <2>1. games[m] \in Game
      BY InvParts DEF StreakInv, HistoryInv, Ended
    <2> QED BY <2>1, GameTyped
  <1> QED BY <1>1, <1>2, <1>3 DEF StreakInv, Mine, Completions, Ended

\* A match after a step that leaves everything that streaks are made of.
Alike(old, new) ==
    \/ new = old
    \/ old = None /\ new # None /\ new.status = "playing"
    \/ /\ old # None /\ new # None
       /\ new.season = old.season /\ new.red = old.red /\ new.blue = old.blue
       /\ new.status = old.status /\ new.undone = old.undone
       /\ new.winner = old.winner /\ new.ended = old.ended

\* Statistics in which no streak changes, or new ones.
StreakStays(old, new) ==
    \/ new = old
    \/ old = None /\ \E mmr \in Nat : new = Fresh(mmr)
    \/ old # None /\ new.streak = old.streak /\ new.best = old.best

\* A slot's request stays as it was, or has read its match anew.
LEMMA ColoursKept ==
    ASSUME StreakInv,
           \A m \in RankedMatches : games[m] # None =>
              games'[m].red = games[m].red /\ games'[m].blue = games[m].blue,
           \/ ratReq' = ratReq
           \/ \E s \in Slots : \E r : Colours(r, games') /\ SetRating(s, r)
    PROVE  \A s \in Slots : Colours(ratReq'[s], games')
  <1>1. ASSUME NEW s \in Slots PROVE Colours(ratReq[s], games')
    <2>1. Colours(ratReq[s], games) /\ Holds(ratReq[s], games)
      BY InvParts DEF StreakInv, HistoryInv
    <2> QED BY <2>1 DEF Colours, Holds
  <1>2. ratReq \in [Slots -> RatingRequest]
    BY InvParts DEF StreakInv, HistoryInv
  <1> QED BY <1>1, <1>2 DEF SetRating

\* A player without statistics has no matches.
LEMMA NoMatches ==
    ASSUME StreakInv, NEW x, NEW u, stats[x][u] = None
    PROVE  Mine(games, x, u) = {}
BY DEF Mine, Completions, StreakInv, HistoryInv, SeasonsInv, PlayersAreRated

\* A step that changes no streak.
LEMMA QuietStreaks ==
    ASSUME StreakInv, HistoryInv',
           \A m \in RankedMatches : Alike(games[m], games'[m]),
           \A x \in SeasonNames, u \in Players : StreakStays(stats[x][u], stats'[x][u]),
           \/ ratReq' = ratReq
           \/ \E s \in Slots : \E r : Colours(r, games') /\ SetRating(s, r)
    PROVE  StreakInv'
  <1>1. \A s \in Slots : Colours(ratReq'[s], games')
    BY ColoursKept DEF Alike
  <1>2. Ended(games') = Ended(games)
    BY DEF Ended, Alike
  <1>3. \A m \in Ended(games) : /\ games'[m].ended = games[m].ended
                                /\ games'[m].winner = games[m].winner
    BY DEF Ended, Alike
  <1>4. \A m \in Ended(games') : games'[m].ended <= Cardinality(Ended(games'))
    BY <1>2, <1>3 DEF StreakInv
  <1>5. ASSUME NEW x \in SeasonNames, NEW u \in Players
        PROVE  StreakKept(x, u)
    <2>1. /\ Completions(games', x, u) = Completions(games, x, u)
          /\ Mine(games', x, u) = Mine(games, x, u)
      BY DEF Completions, Mine, Alike, Competitors
    <2>2. OneColour(games', x, u) => OneColour(games, x, u)
      BY <2>1 DEF OneColour, Alike, Completions
    <2>3. StreakOf(games', Mine(games, x, u), u) = StreakOf(games, Mine(games, x, u), u)
      BY <1>3, EndedTyped, StreakSame
    <2>4. CASE stats[x][u] = None
      <3>1. Mine(games', x, u) = {}
        BY <2>1, <2>4, NoMatches
      <3>2. stats'[x][u] # None => stats'[x][u].streak = 0 /\ stats'[x][u].best = 0
        <4>1. StreakStays(stats[x][u], stats'[x][u])
          OBVIOUS
        <4>2. \A mmr : Fresh(mmr).streak = 0 /\ Fresh(mmr).best = 0
          BY DEF Fresh
        <4> QED BY <2>4, <4>1, <4>2 DEF StreakStays
      <3> QED BY <3>1, <3>2, StreakEmpty DEF StreakKept
    <2>5. CASE stats[x][u] # None
      <3>1. stats'[x][u].streak = stats[x][u].streak /\ stats'[x][u].best = stats[x][u].best
        BY <2>5 DEF StreakStays
      <3> QED BY <2>1, <2>2, <2>3, <2>5, <3>1 DEF StreakInv, StreakOfOneColour, StreakKept
    <2> QED BY <2>4, <2>5
  <1> QED BY <1>1, <1>4, <1>5 DEF StreakInv, StreakOfOneColour, StreakKept

\* What a win does to the streaks of a row.
LEMMA WonStreak ==
    ASSUME NEW row \in Statistics, NEW u, NEW g, u \in {g.red, g.blue}, g.winner = u
    PROVE  /\ Settled(row, u, g).streak = row.streak + 1
           /\ Settled(row, u, g).best = Max({row.best, row.streak + 1})
  <1>1. row # None
    BY RowsAreNotNone
  <1>2. /\ Won(row, g.gain).streak = row.streak + 1
        /\ Won(row, g.gain).best = Max({row.best, row.streak + 1})
    BY DEF Won, Statistics
  <1> QED BY <1>1, <1>2 DEF Settled

\* What a defeat or a draw does to them.
LEMMA LostStreak ==
    ASSUME NEW row \in Statistics, NEW u, NEW g, u \in {g.red, g.blue}, g.winner # u
    PROVE  /\ Settled(row, u, g).streak = 0
           /\ Settled(row, u, g).best = row.best
  <1>1. row # None
    BY RowsAreNotNone
  <1>2. Lost(row, g.loss).streak = 0 /\ Lost(row, g.loss).best = row.best
    BY DEF Lost, Statistics
  <1> QED BY <1>1, <1>2 DEF Settled

\* A row has the streaks that some matches give.
Agrees(row, now) == row.streak = now.streak /\ row.best = now.best

\* The streaks of a row are counted on as those of its matches are.
LEMMA ResultCounted ==
    ASSUME NEW rows, NEW next, NEW M, NEW u, NEW m, NEW b, Follows(rows, next, M, m, b),
           NEW g, next[m] = g, u \in {g.red, g.blue},
           NEW row \in Statistics, Agrees(row, StreakOf(rows, M, u))
    PROVE  Agrees(Settled(row, u, g), StreakOf(next, M \cup {m}, u))
  <1>1. Continues(StreakOf(rows, M, u), StreakOf(next, M \cup {m}, u), g, u)
    BY StreakMore
  <1>2. ASSUME NEW old, NEW now, Continues(old, now, g, u),
               Agrees(row, old)
        PROVE  Agrees(Settled(row, u, g), now)
    <2>1. CASE g.winner = u
      BY <1>2, <2>1, WonStreak DEF Continues, Agrees
    <2>2. CASE g.winner # u
      BY <1>2, <2>2, LostStreak DEF Continues, Agrees
    <2> QED BY <2>1, <2>2
  <1> QED BY <1>1, <1>2

\* Settle.
LEMMA SettleStreaks ==
    ASSUME StreakInv, HistoryInv', NEW m \in RankedMatches, Settle(m)
    PROVE  StreakInv'
  <1> PICK c : c = Cardinality({n \in RankedMatches : Completed(n)})
    OBVIOUS
  <1>1. /\ games[m] # None /\ Duel(games[m]) /\ games[m] \in Game
        /\ games[m].status = "playing" /\ ~games[m].undone
        /\ games \in [RankedMatches -> Game \cup {None}]
        /\ stats \in [SeasonNames -> Table]
    BY InvParts DEF StreakInv, HistoryInv, Settle, Duel, Sound, StatsTyped
  <1>2. ratReq' = ratReq /\ c = Cardinality(Ended(games)) /\ c \in Nat
    <2>1. {n \in RankedMatches : Completed(n)} = Ended(games)
      BY DEF Ended, Completed
    <2> QED BY <2>1, EndedTyped DEF Settle
  <1> DEFINE count == 1 + Cardinality({n \in RankedMatches : Completed(n)})
  <1>3. PICK winner, result :
           /\ winner \in Competitors(games[m]) \cup {None}
           /\ result \in IF winner = None THEN {<<0, 0>>} ELSE Results
           /\ LET g == [games[m] EXCEPT !.status = "completed", !.winner = winner,
                           !.gain = result[1], !.loss = result[2], !.ended = count]
              IN /\ games' = [games EXCEPT ![m] = g]
                 /\ stats' = [stats EXCEPT ![g.season] =
                                [u \in Players |-> Settled(@[u], u, g)]]
                 /\ bent' = IF winner = None THEN bent
                            ELSE bent \cup CutAt0(g, Loser(g), g.loss)
    BY Zenon DEF Settle
  <1> PICK g : g = [games[m] EXCEPT !.status = "completed", !.winner = winner,
                      !.gain = result[1], !.loss = result[2], !.ended = count]
    OBVIOUS
  <1>4. /\ g.season = games[m].season /\ g.red = games[m].red /\ g.blue = games[m].blue
        /\ g.status = "completed" /\ g.winner = winner /\ g.undone = games[m].undone
        /\ g.ended = 1 + c
    BY <1>1 DEF Game
  <1>5. games'[m] = g /\ \A n \in RankedMatches \ {m} : games'[n] = games[n]
    BY <1>1, <1>3
  <1>6. g # None
    <2>1. result = <<0, 0>> \/ result \in Nat \X Nat
      BY <1>3, SeasonsAssumption
    <2>2. result[1] \in Nat /\ result[2] \in Nat /\ count \in Nat
      BY <1>2, <2>1
    <2>3. winner \in Players \cup {None}
      BY <1>1, <1>3 DEF Competitors, Game
    <2> HIDE DEF count
    <2>4. g \in Game
      BY <1>1, <2>2, <2>3 DEF Game
    <2> QED BY <2>4, GameTyped
  <1> HIDE DEF count
  <1>7. Ended(games') = Ended(games) \cup {m} /\ m \notin Ended(games)
    <2>1. m \in Ended(games') /\ m \notin Ended(games)
      BY <1>1, <1>4, <1>5, <1>6 DEF Ended
    <2>2. \A n \in RankedMatches \ {m} : n \in Ended(games') <=> n \in Ended(games)
      BY <1>5 DEF Ended
    <2>3. Ended(games') \subseteq RankedMatches /\ Ended(games) \subseteq RankedMatches
      BY DEF Ended
    <2> QED BY <2>1, <2>2, <2>3
  <1>8. c \in Nat /\ Cardinality(Ended(games')) = c + 1
    <2>1. Ended(games) \in SUBSET RankedMatches
      BY DEF Ended
    <2>2. IsFiniteSet(Ended(games))
      BY <2>1, SeasonsAssumption, FS_Subset
    <2>3. Cardinality(Ended(games) \cup {m}) = Cardinality(Ended(games)) + 1
      BY <1>7, <2>2, FS_AddElement
    <2> QED BY <1>2, <1>7, <2>3
  <1>9. \A n \in Ended(games') : games'[n].ended <= Cardinality(Ended(games'))
    <2>1. games'[m].ended <= c + 1
      BY <1>4, <1>5, <1>8
    <2>2. \A n \in Ended(games) : n \in RankedMatches \ {m} /\ games[n].ended \in 0..c
      BY <1>2, <1>7, EndedTyped DEF Ended
    <2>3. \A n \in Ended(games) : games'[n].ended <= c + 1
      BY <1>5, <1>8, <2>2
    <2> QED BY <1>7, <1>8, <2>1, <2>3
  <1>10. \A s \in Slots : Colours(ratReq'[s], games')
    BY <1>2, <1>4, <1>5, ColoursKept
  <1>11. ASSUME NEW x \in SeasonNames, NEW u \in Players
         PROVE  StreakKept(x, u)
    <2>1. stats'[x][u] = IF x = g.season THEN Settled(stats[x][u], u, g)
                                        ELSE stats[x][u]
      BY <1>1, <1>3 DEF Table
    <2>2. SUFFICES ASSUME stats'[x][u] # None, OneColour(games', x, u)
                   PROVE  /\ stats'[x][u].streak
                                = StreakOf(games', Mine(games', x, u), u).streak
                          /\ stats'[x][u].best
                                = StreakOf(games', Mine(games', x, u), u).best
      BY DEF StreakKept
    <2>3. stats[x][u] \in Statistics /\ stats[x][u] # None
      BY <1>1, <2>1, <2>2 DEF Settled, Table
    <2>4. Completions(games, x, u) \subseteq Completions(games', x, u)
      BY <1>1, <1>5 DEF Completions
    <2>5. OneColour(games, x, u)
      <3>1. \A n \in Completions(games, x, u) : n \in RankedMatches \ {m}
        BY <1>7, EndedTyped DEF Completions
      <3>2. \A n \in Completions(games, x, u) : games'[n] = games[n]
        BY <1>5, <3>1
      <3> QED BY <2>2, <2>4, <3>2 DEF OneColour
    <2>6. /\ stats[x][u].streak = StreakOf(games, Mine(games, x, u), u).streak
          /\ stats[x][u].best = StreakOf(games, Mine(games, x, u), u).best
      BY <2>3, <2>5 DEF StreakInv, StreakOfOneColour
    <2>7. /\ Mine(games, x, u) \in SUBSET RankedMatches /\ m \notin Mine(games, x, u)
          /\ \A n \in Mine(games, x, u) : /\ games[n].ended \in 0..c
                                          /\ games'[n].ended = games[n].ended
                                          /\ games'[n].winner = games[n].winner
      <3>1. Mine(games, x, u) \subseteq Ended(games)
        BY EndedTyped
      <3>2. \A n \in Ended(games) : n \in RankedMatches \ {m} /\ games[n].ended \in 0..c
        BY <1>2, <1>7, EndedTyped DEF Ended
      <3> QED BY <1>5, <1>7, <3>1, <3>2
    <2>8. CASE x # g.season \/ u \notin Competitors(g)
      <3>1. Mine(games', x, u) = Mine(games, x, u)
        BY <1>1, <1>5, <2>8 DEF Mine, Completions
      <3>2. stats'[x][u] = stats[x][u]
        BY <2>1, <2>8 DEF Settled, Competitors
      <3>3. StreakOf(games', Mine(games, x, u), u) = StreakOf(games, Mine(games, x, u), u)
        BY <2>7, StreakSame
      <3> QED BY <2>6, <3>1, <3>2, <3>3
    <2>9. CASE x = g.season /\ u \in Competitors(g)
      <3>1. Mine(games', x, u) = Mine(games, x, u) \cup {m}
        BY <1>1, <1>4, <1>5, <1>6, <2>9 DEF Mine, Completions
      <3>2. stats'[x][u] = Settled(stats[x][u], u, g) /\ u \in {g.red, g.blue}
        BY <2>1, <2>9 DEF Competitors
      <3>3. /\ Settled(stats[x][u], u, g).streak
                  = StreakOf(games', Mine(games, x, u) \cup {m}, u).streak
            /\ Settled(stats[x][u], u, g).best
                  = StreakOf(games', Mine(games, x, u) \cup {m}, u).best
        <4>1. games'[m] = g /\ g.ended = c + 1
          BY <1>2, <1>4, <1>5
        <4>2. m \in RankedMatches \ Mine(games, x, u)
          BY <2>7
        <4>3. PICK before, after, M, row : /\ before = games /\ after = games'
                                           /\ M = Mine(games, x, u) /\ row = stats[x][u]
          OBVIOUS
        <4>4. \A n \in M : /\ before[n].ended \in 0..c
                           /\ after[n].ended = before[n].ended
                           /\ after[n].winner = before[n].winner
          BY <2>7, <4>3
        <4>5. /\ row \in Statistics /\ u \in {g.red, g.blue}
              /\ Agrees(row, StreakOf(before, M, u))
          BY <2>3, <2>6, <3>2, <4>3 DEF Agrees
        <4>6. after[m] = g /\ Follows(before, after, M, m, c)
          BY <1>2, <2>7, <4>1, <4>2, <4>3, <4>4 DEF Follows
        <4>7. Agrees(Settled(row, u, g), StreakOf(after, M \cup {m}, u))
          BY <4>5, <4>6, ResultCounted
        <4> QED BY <4>3, <4>7 DEF Agrees
      <3> QED BY <3>1, <3>2, <3>3
    <2> QED BY <2>8, <2>9
  <1> QED BY <1>9, <1>10, <1>11 DEF StreakInv, StreakOfOneColour, StreakKept

\* RevertCommit.
LEMMA RevertStreaks ==
    ASSUME StreakInv, HistoryInv', NEW s \in Slots, RevertCommit(s)
    PROVE  StreakInv'
  <1> PICK r, g, m : r = ratReq[s] /\ g = r.was /\ m = r.match
    OBVIOUS
  <1> PICK rows : rows = [games EXCEPT ![m].undone = TRUE]
    OBVIOUS
  <1>1. /\ Runs(s, "revert") /\ SetRating(s, NoRating) /\ games' = rows
        /\ stats' = [stats EXCEPT ![g.season] =
                       [u \in Players |-> Reverted(stats[g.season][u], u, g, rows)]]
    BY DEF RevertCommit
  <1>2. /\ m \in RankedMatches /\ g.season \in SeasonNames
        /\ games[m] # None /\ games[m] \in Game
        /\ games[m].status = "completed" /\ games[m].season = g.season
        /\ Competitors(games[m]) = Competitors(g)
        /\ games \in [RankedMatches -> Game \cup {None}]
        /\ stats \in [SeasonNames -> Table]
    BY <1>1, AtHand DEF StreakInv
  <1>3. games[m].red = g.red /\ games[m].blue = g.blue
    BY <1>1 DEF StreakInv, Colours, Runs
  <1> PICK new : new = [games[m] EXCEPT !.undone = TRUE]
    OBVIOUS
  <1>4. /\ new.season = games[m].season /\ new.red = games[m].red
        /\ new.blue = games[m].blue /\ new.status = games[m].status
        /\ new.winner = games[m].winner /\ new.ended = games[m].ended
        /\ new.undone /\ new \in Game /\ new # None
    BY <1>2, RowsAreNotNone DEF Game
  <1>5. games'[m] = new /\ \A n \in RankedMatches \ {m} : games'[n] = games[n]
    BY <1>1, <1>2
  <1>6. \A s1 \in Slots : Colours(ratReq'[s1], games')
    <2>1. Colours(NoRating, games')
      BY NoRatingSound DEF Colours
    <2> QED BY <1>1, <1>4, <1>5, <2>1, ColoursKept
  <1>7. \A n \in RankedMatches :
           /\ games'[n] # None <=> games[n] # None
           /\ games'[n].season = games[n].season /\ games'[n].status = games[n].status
           /\ games'[n].red = games[n].red /\ games'[n].blue = games[n].blue
           /\ games'[n].ended = games[n].ended /\ games'[n].winner = games[n].winner
    <2> TAKE n \in RankedMatches
    <2>1. CASE n = m
      BY ONLY <1>2, <1>4, <1>5, <2>1
    <2>2. CASE n # m
      BY ONLY <1>5, <2>2, n \in RankedMatches
    <2> QED BY <2>1, <2>2
  <1>8. Ended(games') = Ended(games)
    BY <1>7 DEF Ended
  <1>9. ASSUME NEW x \in SeasonNames, NEW u \in Players
        PROVE  StreakKept(x, u)
    <2>1. stats'[x][u] = IF x = g.season THEN Reverted(stats[x][u], u, g, rows)
                                        ELSE stats[x][u]
      BY <1>1, <1>2 DEF Table
    <2>2. SUFFICES ASSUME stats'[x][u] # None, OneColour(games', x, u)
                   PROVE  /\ stats'[x][u].streak
                                = StreakOf(games', Mine(games', x, u), u).streak
                          /\ stats'[x][u].best
                                = StreakOf(games', Mine(games', x, u), u).best
      BY DEF StreakKept
    <2>3. stats[x][u] # None /\ stats[x][u] \in Statistics
      BY <1>2, <2>1, <2>2 DEF Reverted, Table
    <2>4. Completions(games', x, u) = Completions(games, x, u)
      BY <1>7 DEF Completions, Competitors
    <2>5. CASE x # g.season \/ u \notin Competitors(g)
      <3>1. Mine(games', x, u) = Mine(games, x, u)
        BY <1>2, <1>5, <2>4, <2>5 DEF Mine, Completions
      <3>2. stats'[x][u] = stats[x][u]
        BY <2>1, <2>5, RevertedOther
      <3>3. OneColour(games, x, u)
        <4>1. \A n \in Completions(games, x, u) :
                 games'[n].red = games[n].red /\ games'[n].blue = games[n].blue
          BY <1>7, EndedTyped DEF Completions
        <4> QED BY <2>2, <2>4, <4>1 DEF OneColour
      <3>4. StreakOf(games', Mine(games, x, u), u) = StreakOf(games, Mine(games, x, u), u)
        BY <1>7, EndedTyped, StreakSame
      <3> QED BY <2>3, <3>1, <3>2, <3>3, <3>4 DEF StreakInv, StreakOfOneColour
    <2>6. CASE x = g.season /\ u \in Competitors(g)
      <3> PICK M : M = SameRole(rows, Retained(rows, x), u, g)
        OBVIOUS
      <3> PICK now : now = StreakOf(rows, M, u)
        OBVIOUS
      <3>1. M = Mine(games', x, u)
        <4>1. m \in Completions(games', x, u)
          BY <1>2, <1>4, <1>5, <2>6 DEF Completions, Competitors
        <4>2. g.red = u \/ g.blue = u
          BY <2>6 DEF Competitors
        <4>3. CASE \A n \in Completions(games', x, u) : games'[n].red = u
          <5>1. g.red = u
            BY <1>3, <1>4, <1>5, <4>1, <4>3
          <5> QED BY <1>1, <4>3, <5>1 DEF SameRole, Retained, Mine, Completions, Competitors
        <4>4. CASE \A n \in Completions(games', x, u) : games'[n].blue = u
          <5>1. g.blue = u
            BY <1>3, <1>4, <1>5, <4>1, <4>4
          <5> QED BY <1>1, <4>4, <5>1 DEF SameRole, Retained, Mine, Completions, Competitors
        <4> QED BY <2>2, <4>3, <4>4 DEF OneColour
      <3>2. stats'[x][u] = [Unsettled(stats[x][u], u, g) EXCEPT !.streak = now.streak,
                                                                !.best = now.best]
        BY <2>1, <2>3, <2>6 DEF Reverted
      <3>3. stats'[x][u].streak = now.streak /\ stats'[x][u].best = now.best
        BY <2>3, <3>2 DEF Unsettled, Statistics
      <3> QED BY <1>1, <3>1, <3>3
    <2> QED BY <2>5, <2>6
  <1>10. \A n \in Ended(games') : games'[n].ended <= Cardinality(Ended(games'))
    <2>1. Ended(games) \subseteq RankedMatches
      BY DEF Ended
    <2> QED BY <1>7, <1>8, <2>1 DEF StreakInv
  <1> QED BY <1>6, <1>9, <1>10 DEF StreakInv, StreakOfOneColour, StreakKept

\* CorrectCommit.
LEMMA CorrectStreaks ==
    ASSUME StreakInv, HistoryInv', NEW s \in Slots, CorrectCommit(s)
    PROVE  StreakInv'
  <1> PICK r, g, m : r = ratReq[s] /\ g = r.was /\ m = r.match
    OBVIOUS
  <1>1. /\ Runs(s, "correct") /\ SetRating(s, NoRating)
        /\ games' = [games EXCEPT ![m].gain = r.gain, ![m].loss = r.loss]
        /\ stats' = [stats EXCEPT ![g.season] =
                       [u \in Players |-> Corrected(stats[g.season][u], u, r)]]
    BY DEF CorrectCommit
  <1>2. /\ m \in RankedMatches /\ games[m] # None /\ games[m] \in Game
        /\ games \in [RankedMatches -> Game \cup {None}]
        /\ stats \in [SeasonNames -> Table]
    BY <1>1, AtHand DEF StreakInv
  <1> PICK new : new = [games[m] EXCEPT !.gain = r.gain, !.loss = r.loss]
    OBVIOUS
  <1>3. games'[m] = new /\ \A n \in RankedMatches \ {m} : games'[n] = games[n]
    BY <1>1, <1>2
  <1>4. /\ new.season = games[m].season /\ new.red = games[m].red
        /\ new.blue = games[m].blue /\ new.status = games[m].status
        /\ new.undone = games[m].undone /\ new.winner = games[m].winner
        /\ new.ended = games[m].ended
    BY <1>2 DEF Game
  <1>5. new # None
    <2>1. SeasonsInv /\ SeasonsInv'
      BY DEF StreakInv, HistoryInv
    <2>2. r.gain \in Nat /\ r.loss \in Nat
      BY <1>1, <2>1, InHand DEF RatingRequest
    <2>3. new \in Game
      BY <1>2, <2>2 DEF Game
    <2> QED BY <2>3, GameTyped
  <1>6. \A n \in RankedMatches : Alike(games[n], games'[n])
    <2>1. Alike(games[m], new)
      BY <1>2, <1>4, <1>5 DEF Alike
    <2>2. \A n \in RankedMatches \ {m} : Alike(games[n], games'[n])
      BY <1>3 DEF Alike
    <2> QED BY <1>3, <2>1, <2>2
  <1>7. ASSUME NEW row \in Statistics \cup {None}, NEW u
        PROVE  StreakStays(row, Corrected(row, u, r))
    <2>1. CASE row = None
      BY <2>1 DEF StreakStays, Corrected
    <2>2. CASE row # None
      <3>1. \A k : /\ [row EXCEPT !.mmr = k].streak = row.streak
                   /\ [row EXCEPT !.mmr = k].best = row.best
        BY <2>2 DEF Statistics
      <3> QED BY <2>2, <3>1 DEF StreakStays, Corrected
    <2> QED BY <2>1, <2>2
  <1>8. ASSUME NEW x \in SeasonNames, NEW u \in Players
        PROVE  StreakStays(stats[x][u], stats'[x][u])
    <2>1. \/ stats'[x][u] = stats[x][u]
          \/ stats'[x][u] = Corrected(stats[x][u], u, r)
      BY <1>1, <1>2 DEF Table
    <2>2. stats[x][u] \in Statistics \cup {None}
      BY <1>2 DEF Table
    <2> QED BY <1>7, <2>1, <2>2 DEF StreakStays
  <1>9. Colours(NoRating, games')
    BY NoRatingSound DEF Colours
  <1> QED BY <1>1, <1>6, <1>8, <1>9, QuietStreaks

\* New rows begin without a streak.
LEMMA EnsureStreak ==
    ASSUME NEW table, NEW U, NEW mmr \in Nat, NEW u \in Players
    PROVE  StreakStays(table[u], Ensure(table, U, mmr)[u])
BY DEF Ensure, StreakStays

\* A season is written, finished or deleted, or time passes.
LEMMA SeasonStreaks ==
    ASSUME StreakInv, HistoryInv', NEW y \in SeasonNames,
           \/ \E row \in Season : WriteSeason(y, row)
           \/ FinishSeason(y) \/ DeleteSeason(y) \/ TimePasses(y)
    PROVE  StreakInv'
  <1>1. games' = games /\ ratReq' = ratReq
    BY DEF WriteSeason, FinishSeason, DeleteSeason, TimePasses
  <1>2. stats \in [SeasonNames -> Table] /\ StartingMmr \in Nat
    BY InvParts, SeasonsAssumption DEF StreakInv, HistoryInv, StatsTyped
  <1>3. ASSUME NEW x \in SeasonNames, NEW u \in Players
        PROVE  StreakStays(stats[x][u], stats'[x][u])
    <2>1. ASSUME NEW row \in Season, WriteSeason(y, row)
          PROVE  StreakStays(stats[x][u], stats'[x][u])
      <3>1. \/ stats'[x][u] = stats[x][u]
            \/ stats'[x][u] = Ensure(stats[x], people, StartingMmr)[u]
        BY <1>2, <2>1 DEF WriteSeason
      <3> QED BY <1>2, <3>1, EnsureStreak DEF StreakStays
    <2>2. CASE FinishSeason(y)
      <3>1. \/ stats'[x][u] = stats[x][u]
            \/ stats[x][u] # None
               /\ stats'[x][u] = [stats[x][u] EXCEPT !.ending = stats[x][u].mmr]
        BY <1>2, <2>2 DEF FinishSeason
      <3>2. stats[x][u] \in Statistics \cup {None}
        BY <1>2 DEF Table
      <3> QED BY <3>1, <3>2 DEF StreakStays, Statistics
    <2>3. CASE DeleteSeason(y) \/ TimePasses(y)
      BY <2>3 DEF DeleteSeason, TimePasses, StreakStays
    <2> QED BY <2>1, <2>2, <2>3
  <1> QED BY <1>1, <1>3, QuietStreaks DEF Alike

\* A player begins to sign up or to join a queue, or a moderator reads a match.
LEMMA BeginsStreaks ==
    ASSUME StreakInv, HistoryInv', NEW s \in Slots,
           \/ \E v \in Players : SignUpBegin(s, v) \/ JoinQueue(s, v)
           \/ \E m \in RankedMatches :
                 \/ RevertBegin(s, m)
                 \/ \E result \in Corrections : CorrectBegin(s, m, result)
    PROVE  StreakInv'
  <1>1. games' = games /\ stats' = stats
    BY DEF SignUpBegin, JoinQueue, RevertBegin, CorrectBegin, ReadMatch
  <1>2. \E r : Colours(r, games) /\ SetRating(s, r)
    <2>1. ASSUME NEW v \in Players, SignUpBegin(s, v) \/ JoinQueue(s, v)
          PROVE  \E r : Colours(r, games) /\ SetRating(s, r)
      <3>1. ASSUME NEW op \in {"sign_up", "join"}, NEW x
            PROVE  Colours([NoRating EXCEPT !.op = op, !.player = v, !.season = x], games)
        BY DEF Colours, NoRating
      <3> QED BY <2>1, <3>1 DEF SignUpBegin, JoinQueue
    <2>2. ASSUME NEW m \in RankedMatches,
                 \/ RevertBegin(s, m)
                 \/ \E result \in Corrections : CorrectBegin(s, m, result)
          PROVE  \E r : Colours(r, games) /\ SetRating(s, r)
      <3>1. \E r : r.match = m /\ r.was = games[m] /\ SetRating(s, r)
        <4>1. CASE RevertBegin(s, m)
          BY <4>1 DEF RevertBegin, ReadMatch, NoRating
        <4>2. ASSUME NEW result \in Corrections, CorrectBegin(s, m, result)
              PROVE  \E r : r.match = m /\ r.was = games[m] /\ SetRating(s, r)
          BY <4>2 DEF CorrectBegin, ReadMatch, NoRating
        <4> QED BY <2>2, <4>1, <4>2
      <3> QED BY <3>1 DEF Colours
    <2> QED BY <2>1, <2>2
  <1> QED BY <1>1, <1>2, QuietStreaks DEF Alike, StreakStays

\* A player logs in.
LEMMA LoginStreaks ==
    ASSUME StreakInv, HistoryInv', NEW v \in Players, Login(v)
    PROVE  StreakInv'
  <1>1. games' = games /\ ratReq' = ratReq /\ DefaultMmr \in Nat
    BY SeasonsAssumption DEF Login
  <1>2. ASSUME NEW x \in SeasonNames, NEW u \in Players
        PROVE  StreakStays(stats[x][u], stats'[x][u])
    <2>1. \/ stats'[x][u] = stats[x][u]
          \/ stats'[x][u] = Ensure(stats[x], {v}, DefaultMmr)[u]
      BY DEF Login
    <2> QED BY <1>1, <2>1, EnsureStreak DEF StreakStays
  <1> QED BY <1>1, <1>2, QuietStreaks DEF Alike

\* The account is there, the player waits or is paired, or a request fails.
LEMMA AnsweredStreaks ==
    ASSUME StreakInv, HistoryInv', NEW s \in Slots,
           SignUpCommit(s) \/ JoinWaits(s) \/ JoinPairs(s) \/ RatingFails(s)
    PROVE  StreakInv'
  <1>1. SetRating(s, NoRating)
    BY DEF SignUpCommit, JoinWaits, JoinPairs, RatingFails
  <1>2. /\ stats \in [SeasonNames -> Table] /\ StartingMmr \in Nat
        /\ games \in [RankedMatches -> Game \cup {None}]
        /\ games' \in [RankedMatches -> Game \cup {None}]
    BY InvParts, SeasonsAssumption DEF StreakInv, HistoryInv, SeasonsInv, SeasonsTypeOK, StatsTyped
  <1>3. ASSUME NEW x \in SeasonNames, NEW u \in Players
        PROVE  StreakStays(stats[x][u], stats'[x][u])
    <2>1. \/ stats'[x][u] = stats[x][u]
          \/ stats'[x][u] = Ensure(stats[x], {ratReq[s].player}, StartingMmr)[u]
      <3>1. CASE SignUpCommit(s)
        BY <3>1 DEF SignUpCommit
      <3>2. CASE JoinWaits(s)
        BY <1>2, <3>2 DEF JoinWaits
      <3>3. CASE JoinPairs(s)
        <4>1. stats' = [stats EXCEPT ![ratReq[s].season] =
                 Ensure(stats[ratReq[s].season], {ratReq[s].player}, StartingMmr)]
          BY <3>3 DEF JoinPairs
        <4> QED BY <1>2, <4>1
      <3>4. CASE RatingFails(s)
        BY <3>4 DEF RatingFails
      <3> QED BY <3>1, <3>2, <3>3, <3>4
    <2> QED BY <1>2, <2>1, EnsureStreak DEF StreakStays
  <1>4. ASSUME NEW n \in RankedMatches PROVE Alike(games[n], games'[n])
    <2>1. CASE JoinPairs(s)
      <3>1. PICK m \in RankedMatches, red \in Players, blue \in Players :
               /\ games[m] = None
               /\ games' = [games EXCEPT ![m] =
                    [season |-> ratReq[s].season, red |-> red, blue |-> blue,
                     status |-> "playing", winner |-> None, gain |-> 0, loss |-> 0,
                     undone |-> FALSE, ended |-> 0]]
        BY <2>1, Zenon DEF JoinPairs
      <3>2. CASE n # m
        BY <1>2, <3>1, <3>2 DEF Alike
      <3>3. CASE n = m
        <4> PICK g : g = [season |-> ratReq[s].season, red |-> red, blue |-> blue,
                          status |-> "playing", winner |-> None, gain |-> 0,
                          loss |-> 0, undone |-> FALSE, ended |-> 0]
          OBVIOUS
        <4>1. games'[m] = g /\ g.status = "playing"
          BY <1>2, <3>1
        <4>2. ratReq[s].season \in SeasonNames
          BY <2>1, InvParts DEF JoinPairs, Runs, Holds, StreakInv, HistoryInv
        <4>3. g \in Game
          BY <4>2 DEF Game
        <4>4. g # None
          BY <4>3, GameTyped
        <4> QED BY <3>1, <3>3, <4>1, <4>4 DEF Alike
      <3> QED BY <3>2, <3>3
    <2>2. CASE SignUpCommit(s) \/ JoinWaits(s) \/ RatingFails(s)
      BY <2>2 DEF SignUpCommit, JoinWaits, RatingFails, Alike
    <2> QED BY <2>1, <2>2
  <1>5. Colours(NoRating, games')
    BY NoRatingSound DEF Colours
  <1> QED BY <1>1, <1>3, <1>4, <1>5, QuietStreaks

\* At first nobody has a streak.
LEMMA InitStreaks == SeasonsInit => StreakInv
  <1> SUFFICES ASSUME SeasonsInit PROVE StreakInv
    OBVIOUS
  <1>1. HistoryInv
    BY InitHistory
  <1>2. /\ \A m \in RankedMatches : games[m] = None
        /\ \A x \in SeasonNames, u \in Players : stats[x][u] = None
        /\ \A s \in Slots : ratReq[s] = NoRating
    BY DEF SeasonsInit
  <1> QED BY <1>1, <1>2, NoRatingSound DEF StreakInv, StreakOfOneColour, Colours, Ended

\* Every step keeps the invariant.
LEMMA NextStreaks == StreakInv /\ [SeasonsNext]_seasonsVars => StreakInv'
  <1> SUFFICES ASSUME StreakInv, [SeasonsNext]_seasonsVars PROVE StreakInv'
    OBVIOUS
  <1>1. HistoryInv'
    BY NextHistory DEF StreakInv
  <1>2. ASSUME NEW x \in SeasonNames,
               \/ CreateSeason(x) \/ PatchSeason(x) \/ FinishSeason(x)
               \/ DeleteSeason(x) \/ TimePasses(x)
        PROVE  StreakInv'
    BY <1>1, <1>2, SeasonStreaks DEF CreateSeason, PatchSeason
  <1>3. ASSUME NEW u \in Players, Login(u)
        PROVE  StreakInv'
    BY <1>1, <1>3, LoginStreaks
  <1>4. ASSUME NEW s \in Slots,
               \/ \E u \in Players : SignUpBegin(s, u) \/ JoinQueue(s, u)
               \/ \E m \in RankedMatches :
                     \/ RevertBegin(s, m)
                     \/ \E result \in Corrections : CorrectBegin(s, m, result)
        PROVE  StreakInv'
    BY <1>1, <1>4, BeginsStreaks
  <1>5. ASSUME NEW s \in Slots,
               SignUpCommit(s) \/ JoinWaits(s) \/ JoinPairs(s) \/ RatingFails(s)
        PROVE  StreakInv'
    BY <1>1, <1>5, AnsweredStreaks
  <1>6. ASSUME NEW s \in Slots, RevertCommit(s) \/ CorrectCommit(s)
        PROVE  StreakInv'
    BY <1>1, <1>6, RevertStreaks, CorrectStreaks
  <1>7. ASSUME NEW m \in RankedMatches, Settle(m)
        PROVE  StreakInv'
    BY <1>1, <1>7, SettleStreaks
  <1>8. CASE UNCHANGED seasonsVars
    BY <1>1, <1>8, QuietStreaks DEF seasonsVars, Alike, StreakStays
  <1> QED
    BY <1>2, <1>3, <1>4, <1>5, <1>6, <1>7, <1>8 DEF SeasonsNext

\* The streak and the best streak of everybody who has played one colour are
\* those of the matches that count, for any number of matches, settlements,
\* corrections and reverts in any order.
THEOREM StreaksOfOneColour == SeasonsSpec => []StreakOfOneColour
  <1>1. StreakInv => StreakOfOneColour
    BY DEF StreakInv
  <1> QED BY <1>1, InitStreaks, NextStreaks, PTL DEF SeasonsSpec
=============================================================================
