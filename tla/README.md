# A formal model of the CompCube server

This directory holds TLA+ modules for the server in `src/`, the TLC
configurations that check them, and proofs that TLAPS checks. File names below
are relative to the repository; `gameplay.service.ts` and its neighbours are in
`src/services/`.

Run them here with

    tlc -config play.cfg MCMatchEngine     # likewise every other .cfg
    tlc -config services.cfg MCServices    # three or four minutes, like play.cfg
    tlc -config lost_roles.cfg MCAccounts
    tlapm MatchEngineProofs.tla            # likewise every other *Proofs.tla;
                                           # this, MatchPlayProofs, SocketsProofs
                                           # and SeasonsProofs take minutes each

## 1. The system and its parts

A match is played by two Beat Saber plugins through Socket.IO packets, watched
and moderated through REST, and kept entirely in PostgreSQL (READ COMMITTED, a
pool of ten connections). Any number of server instances work on one database.
A phase ends either by the players' packets or by the phase's *durable timer*, a
row of `match_timers` that some instance claims when it is due.

| part | state it keeps | operations | what makes it correct |
|---|---|---|---|
| Gameplay (`gameplay.service.ts`) | `matches`, `match_participants`, `match_hands`, `match_hand_maps`, `match_rounds`, `match_scores`, statistics | discardMaps, selectMap, submitScore, expireScoreDeadline, resolveRound, finishRoundResults, forfeitMatch | phases and rounds in order; damage once; one result, for good |
| Match status (`match.service.ts`) | `matches.status`, `status_before_pause`, `version` | transition, pause, resume (abort is a transition) | a pause can be resumed into the phase it interrupted; a decided match is not reopened |
| Durable timers (`timer.service.ts`, handlers in `websocket/wsManager.ts`) | `match_timers`: status, due_at, lease | schedule, pauseMatch, resumeMatch, skip, tick/processOne | every phase has a runnable timer; a dead instance's timer is taken over; handlers are idempotent |
| Database constraints (`db/schema.ts`) | checks and unique indexes | reject a write and with it the transaction | the last line of defence of updates that carry no version |
| Matchmaking (`queue.service.ts`) | `queued_players` | join (which pairs and creates the match), leave | nobody is in two matches; two players never miss each other; whoever is matched has left the queue |
| Mock clients (`mockClient.service.ts`) | `mock_clients` | create a match, act for an impersonated player | mock matches never touch ratings, and seat nobody twice |
| Seasons and ratings (`ranking.service.ts`, `seasons.route.ts`, the triggers of `db/applyConstraints.ts`) | `seasons`, `competitive_statistics` | create, change, finish and delete a season; who gets statistics and when; settle, revert and correct a result | everybody who competes is rated; a rating is what the matches that count make of it |
| Pools, maps, categories, queues (`pools.route.ts`, `maps.route.ts`, `mapCategories.route.ts`, `queues.route.ts`) | `season_pools`, `maps`, `flairs`, `queues` | their administration; dealing the cards of a match | no row refers to one that is gone; a match deals its own pool |
| Moderation of users (`moderation.service.ts`, `moderation.route.ts`) | `user_moderation_actions`, `users.banned` | timeout, ban, revoke, decisions on a match | a restricted user does not stay matched |
| Accounts (`account.service.ts`, `auth.route.ts`, `auth.middleware.ts`, `users.route.ts`, `startup.service.ts`) | `users`, `oauth_states` | OAuth, bearer tokens, the merge of one person's rows, patches, bans, deletion | one row per identity; nobody is locked out by how his rows were merged; permissions and bans survive a login |
| Socket.IO front end (`websocket/wsManager.ts`, `matchEvents.ts`, the packet handlers) | rooms of connections, in the memory of each process | restore rooms, watch, announce phases and results | a player connected to the process that acts hears of his match, sees his cards, learns of the result |
| Plugin releases (`pluginRelease.service.ts`) | two files on disk | publish, download, crash | a download matches the manifest; no release is lost |
| Query routes, edits of a match by hand, Discord bot, replay relay | single rows, or none | queries, single-row edits, I/O | - |

The gameplay service calls ranking (pure functions) and inserts and cancels
timer rows itself; the timer service calls the handlers, which call the gameplay
service; pause and resume write the match first and the timers afterwards, in
separate statements; the queue creates the match in the state from which
gameplay goes on. Nothing is shared in memory between two requests except, within one
process, TimerService's `running` flag, the rooms of the Socket.IO server (`index.ts:110`
configures no adapter that would join them) and the promise chain of the plugin
releases, so everything else interacts through rows. Accounts,
seasons, catalogue, sockets and releases each meet the matches at few points: a
match needs a platform of its players (`PlayMatch`), statistics of its season
(`JoinPairs`, `Settle`), ten maps of a pool (`JoinDeal`, `JoinCommit`) and is
announced by whichever handler changed it (`MatchCommit` and the actions after it).
Each of these modules models its side of such a point.

### What is hard

* *Interleaving.* A transaction reads with plain SELECTs and decides on what it
  read; at READ COMMITTED any other transaction may commit before it writes. Four
  advisory locks narrow this: one per round, one per player's discards, one per
  match's results display, one per queue. Updates of `matches` carry the version
  that was read + 1, but only transition and finishRoundResults check it.
* *Late timers.* A handler may run twice (its lease expired), after the phase is
  over (it was cancelled while it ran), or against a match that has been paused.
* *Several transactions for one operation.* submitScore then resolveRound; pause
  is three writes, resume is three.
* *Crashes* between those writes, and of an instance that holds a lease; between the
  renames of a release's two files.
* *Several processes.* Any instance may match two players or end a match, by a request
  or by a timer that it has taken over, but its packets reach its own connections only.
* *Reads before awaits.* A login computes the row it writes from up to three copies
  read earlier, roles and bans included; an administrator's handler asks BeatSaver
  between a check and an insert; a moderator's revert or correction works on the match row read at its
  beginning; a handler emits packets some awaited calls after its commit, to rooms
  whose members may have changed.
* *All-or-nothing rejection.* A constraint that one row violates undoes the whole
  transaction, for example a forfeit.

`PROJECT.json` lists each of these hazards at its line, with the properties that
watch it.

## 2. The modules

**`MatchEngine`** is one match as rows and the transactions on them: gameplay,
match status, timers, timer handlers and the constraints that matter. A *slot* is
whatever executes requests: a client slot runs packets and REST requests, a worker
slot runs the timer loop of one server instance (`running` makes it one timer at a
time). Every transaction is a Begin step (lock, reads, guards) and a Commit step
(all its writes, or none when a constraint of `schema.ts` rejects one); `req[slot]`
holds what was read in between. A worker's record also names the timer whose
handler it runs, and the handler's outcome decides CompleteTimer or RetryTimer.
A request that is refused at Begin changes nothing and is not a step.

| TLA+ | code |
|---|---|
| `match.status`, `.before`, `.version`, `.round`, `.winner` | columns of `matches` |
| `hands[p].discarded`, `.cards` | `match_hands.discarded_at`, the number of active `match_hand_maps` |
| `active`, `health` | columns of `match_participants` |
| `rounds[n]`, `scores[n][p]` | rows of `match_rounds` and `match_scores` |
| `timers[<<kind, round>>]` | row of `match_timers` with that idempotency key, its lease owner |
| `DiscardBegin/Commit`, `SelectBegin/Commit`, `SubmitBegin/Commit` | discardMaps, selectMap, submitScore |
| `ScoreHandler`, `ExpireCommit`, `ResolveBegin/Commit` | expireScoreDeadline, resolveRound |
| `ResultsHandler`, `ResultsCommit`, `Announce` | finishRoundResults and the announcement after it |
| `ForfeitBegin/Commit` | forfeitMatch, from any of its callers |
| `PauseBegin ... PauseTimers`, `ResumeBegin ... ResumeTimers`, `AbortBegin`, `TransitionCommit` | match.service.ts, step by step |
| `ClaimTimer`, the handlers, `CompleteTimer`, `RetryTimer`, `SkipTimer` | processOne, skip |
| `StillPlayable`, `NoWinnerYet`, `RoundIsNew`, `Cancellable` | matches_terminal_consistency, matches_winner_only_when_completed, match_rounds_number_unique, match_timers_pause_consistency |
| `Crash` | the process dies, or a transaction is rolled back, between two steps |

What is abstract: *which* map a card is (`cards` counts them; a discard always
refills); accuracies and multipliers (`Damages` is every loss of health that
calculateRoundHealth can yield: of at most one player, and never inflicted by a
defaulted score); time (a scheduled timer is due at any moment, a lease may expire
as soon as it is taken, so every race of a deadline with an answer is covered);
the number of attempts (RetryTimer may fail a timer at any throw). A second
insert of a score, or of a timer key, is rejected as the unique constraints do. A discard
reads both hands at its Begin; the code reads the other one late in the transaction, when
it can only see more of what has been committed.
`resolved`, `settled` and `crashes` are history variables, for properties and
bounds only. The module ends with the inductive invariants that the proofs use and TLC
checks: `EngineInv`, `ClosedInv` and, in the section on play without pauses, `PlayInv`.

**`MatchLifecycle`** is the abstract specification: what a match promises its
players, with no transactions, timers, instances or crashes.

**`Matchmaking`** is how players meet: the rows of `queued_players` and the active
rows of `match_participants` of all users, and every request that adds or removes
one. A slot executes one request; a join or a queued mock match is one transaction
whose reads are separate steps (READ COMMITTED sees what is committed by then) and
whose writes appear together in its commit, or not at all when a unique index
rejects one. `req[slot]` holds what has been read. What happens inside a match is
`MatchEngine`'s business: here a match is created as `JoinCommit` does it (the state
that `MatchEngine` starts from) and ends at some moment, or never, as an aborted
match, whose seats are not given up.

| TLA+ | code |
|---|---|
| `queued[u]` | the user's row of `queued_players` (unique per user) |
| `games[g].players`, `.mocked` | active competitors of a match; those with a row in `mock_clients` |
| `games[g].via`, `gone` | history: the queue whose lock the match was made under; users who have not joined since they disconnected |
| `restricted` | `users.banned`, or an unexpired row of `user_moderation_actions` |
| `JoinBegin`, `JoinLock`, `JoinActive`, `JoinPair`, `JoinCommit` | join: checks; lock and alreadyQueued; activeMatch; own entry, waitingEntries and invalid candidates; the outcome |
| `MockBegin`, `MockLock`, `MockCheck`, `MockCommit` | createQueuedMatch, in the same way |
| `MockMatch` | createMatch; it reads nothing that can go stale, so it is one step |
| `Leave`, `Ban`, `TimeoutUser`, `TimeoutDequeue`, `Unrestrict` | leave (packet, web socket closed), the ban and timeout routes, the end of a restriction |
| `Disconnect`, `DisconnectForfeit` | the clientDisconnect packet, or a plugin's closed socket |
| `QueueLockFree`, `SeatsFree`, `RowFree` | the advisory lock of a queue; the two unique indexes |

Abstract here: there is one season and it has statistics for everybody, queues are
open to every rating, and their pools have the ten maps a match takes; a user's
timeouts and ban are one restriction; removing a participant from a match by hand is
left out. An entry's age is too: with at most one player waiting, which
`AtMostOneWaits` shows, "the two oldest" is whoever is there, and `JoinPair` takes
any two.

**`Pairing`** is the abstract specification of the queues: who waits where, which matches
there are, and operations that are one step each (`Wait`, `Replace`, `Meet`,
`Impersonate`, `Arrange`, `Withdraw`, `Over`). A player waits only where nobody else
waits, whoever comes next meets the one who waits, and both have left that queue. It has
no requests, locks, stale reads or crashes. `Matchmaking` implements it
(`ImplementsPairing`): `waiting` is `queued`, `matches` are the games that have players,
with the queue whose lock they were made under.

**`Backend`** declares what the five modules below share: slots that execute one
request each, the seasons' names and `None`. In all of them a request that awaits is
split at the awaits that matter, its record in `accReq`, `ratReq`, `catReq`,
`sockReq` or `relReq` holds what it has read, and a step that a constraint of the
database rejects is not taken (the request then takes the failing step, which undoes
the transaction).

**`Accounts`** is who a request is made by.

| TLA+ | code |
|---|---|
| `users[a]` | a row of `users`: BeatKhana guid, Discord ID, platform, permissions, `banned` |
| `history` | rows that retained matches refer to |
| `OAuthStart`, `OAuthCallback`, `BearerToken` | `/auth/login`, `/auth/callback`, requireAuth and its relatives |
| `ReadPlatform`, `ReadDiscord`, `ReadBeatKhana` | the three reads of upsertFromBeatKhana |
| `Canonical`, `Duplicates`, `Authorities`, `Merged` | which row survives, which give up their identities, mergeLocalAuthorization, what is written |
| `SignIn`, `SignUp`, `SignInGone` | the commit with an existing row, a new one, or a row deleted meanwhile |
| `SetBan`, `PatchUser`, `DeleteUser`, `Finish` | what an admitted request may do |
| `Accepted` | users_has_identity, the unique columns, the foreign keys of retained matches |

A token is what verifyAccessToken returns of it; cryptography and BeatKhana's answers
are that outcome. Permissions are the two roles that allow something. `MaxEdits`
bounds the moderators' writes. `Undisturbed` lists what a login would have read by its
commit if it ran alone from the present rows, for `LoginAloneSucceeds`. The deletion of a
user is modelled for users with and without matches; the statistics it cascades to belong
to players without matches and are left out.

**`Seasons`** is the time line of the seasons, and ratings.

| TLA+ | code |
|---|---|
| `seasons[x]` | a row of `seasons`; its dates are a phase (future, open, over) that `TimePasses` moves |
| `stats[x][u]` | the row of `competitive_statistics` |
| `games[m]` | the row of `matches`, with its winner, MMR changes and `reverted_at` |
| `WriteSeason`, `SignUpBegin/Commit` | the statements with the triggers seasons_ensure_current_stats and users_ensure_current_stats |
| `Login`, `JoinQueue`, `JoinWaits`, `JoinPairs` | who else inserts statistics, with which MMR |
| `Settle`, `Won`, `Lost` | the statistics of forfeitMatch and of resolveRound |
| `RevertBegin/Commit`, `CorrectBegin/Commit` | revertMatchResult; `PATCH /matches/:matchGuid/result` |
| `Retained`, `StreakOf`, `SameRole` | the history from which revertMatchResult recomputes the streaks |
| `Mine`, `OneColour` | the matches that count for a player; whether he had one colour in all of them, so that `SameRole` hides none (for properties only) |
| `SeasonsAccepted`, `CountsValid` | seasons_one_current_idx, seasons_no_overlap, the checks of the counters |

What a match is worth is any of `Results`; unranked matches touch no rating and are
left out. `bent` is history: the ratings that the floor at 0 or two simultaneous
requests for one match have changed, for which no history of results accounts.
`FinishSeason` of a season that is over moves its end to the present; whether that
overlaps with a third season that is over as well is not told apart. `WriteSeason` runs
the trigger for a season that becomes current; in the code it runs on every update that
lists `is_current`, and then inserts at most statistics that are missing. `MaxWrites` and
`MaxModerations` bound the administrators' requests.

**`Catalogue`** is what is played: pools, maps, categories, queues, and the cards of
a match. `AddMapBegin/Insert` are the two halves around BeatSaver's answer; `JoinBegin`,
`JoinAlone`, `JoinDeal`, `JoinCommit` the reads and writes of a join that concern the
pool; the other actions are one statement of a route each, with what it cascades to
(`DeletePools`, `DeleteCategory`, `DeleteQueue`) and the references that forbid it
(`PoolFree`, `Played`, `Joining`). Who may play whom is `Matchmaking`'s business;
`waiting` only counts. `DealSize` stands for the ten maps of a match.

**`Sockets`** is who is told what, by any number of server processes. A connection has
a process (`at`) and there the room of its user from its first moment; it joins match
rooms in three ways (`RestoreRead/Join`, `EmitCreated`, `WatchMatch`). The rooms are
those of one process (`UserRoom(i, U)`, `MatchRoom(i, m)`), and a handler of process `i`
emits to these only. What its player has been told last of a pick phase is `last`, where
only pickPhaseStarted without cards is told apart. A handler first commits
(`MatchCommit`, `DiscardsReady`, `Pick`, `Resolve`, `Forfeit`, ...) and emits afterwards
(`EmitCreated`, `Announce`, `EmitBlank`, `EmitCards`, `EmitRound`, `EmitFinished`); in
between its process may die, with its connections and what it had to emit
(`SocketsCrash`), while the others go on. Two fields of a match are history: `untold`,
the connections of the players at the end of their match until matchFinished reaches
them, and `elsewhere`, those to other processes than the one that announces the match or
its end. Here a match has a phase and goes on when something lets it; how is
`MatchEngine`'s.

**`PluginReleases`** is the promise chain of publish, the renames of the two files, the
manifest that is read between them, downloads, failures and crashes (`broken` is
history: versions whose last publication died between the renames). The chain is a
variable of one process (`pluginRelease.service.ts:24`); the module assumes that
publications go to one process. Those of two processes that share the files would not
wait for each other, and either could write back the manifest it has read without the
other's release.

**`MCMatchEngine`**, **`MCMatchmaking`**, **`MCServices`** and **`MCAccounts`** give TLC
the symmetry of interchangeable slots, users, queues and names, and the values of
constants. The modules whose name ends in **`Proofs`** hold the theorems: one for each
component, and for the match engine two: `MatchEngineProofs` for what holds whatever
is requested, `MatchPlayProofs` for matches that nobody pauses.

`MCServices` checks five components in one run. They share no variable, so all that
their interleaving could add is the product of their states; `part` says which of them a
behaviour is of, the others stay in their initial state, and every property of each is
checked over all its reachable states. Sets whose members are alike (versions, players,
pools, users; builds, matches, maps, connections) have common model values, which
lets a few permutations rename all of them; nothing relates the sets to each other.

## 3. What the runs check

`lobby` and `ghost` use `MCMatchmaking`, `services` `MCServices`, `lost_roles`
`MCAccounts`, all others `MCMatchEngine`. Deadlock is checked in `lobby`, `ghost`,
`services` and `lost_roles`; a match really ends, so in the others it is not.

| run | bounds | question |
|---|---|---|
| `play` | 2 clients, 1 instance, 2 cards each, health 1 | Does the implementation play the match of `MatchLifecycle` (`ImplementsLifecycle`)? Is it settled once, does the picker always have a card? |
| `instances` | 1 client, 2 instances, 1 card each, health 2, forfeits, 1 crash | Rounds contiguous and resolved once, a runnable timer for every phase, an ended match stays ended and closed; `PlayInv`, the inductive invariant of play without pauses |
| `moderated` | 1 client, 1 instance, pause, abort and forfeit, versions up to 5 | The inductive invariants `EngineInv` and `ClosedInv` of the proofs, and what survives pauses and stale resumes |
| `deadlines` | 1 client, 1 instance, 1 crash, fairness | Every match ends although the players may do nothing (`MatchEnds`), phase by phase (`CarriedToItsEnd`) |
| `settle_race`, `discard_race`, `double_pause`, `paused_forfeit` | smallest that show it | The first four disagreements below |
| `lobby` | 3 users, 2 queues, 2 concurrent requests, 2 matches, every kind of request, crashes | Is anybody in two matches (`OneMatchEach`)? Can two joins miss each other (`AtMostOneWaits`)? Is whoever has been matched still queued (`MatchedIsDequeued`)? Do the transactions amount to the lobby of `Pairing`, in which nobody who waits is passed over (`ImplementsPairing`)? And the inductive invariant of the proofs |
| `ghost` | 2 users, 1 queue, 2 concurrent requests, disconnects | The fifth disagreement |
| `services` | 2 concurrent requests; 2 versions and builds; 3 rows, 2 people and 3 kinds of tokens; 1 season, 2 players, 2 matches; 2 pools, 2 maps, 1 queue, matches of 2 cards; 2 processes, 2 users, 1 connection, 1 match of 2 rounds | For each component, its type invariant and: is the listed checksum the file's (`ListedMatchesFile`), is a release lost (`OtherVersionsKept`)? Can everybody sign in, however logins have spread his identities (`LoginAloneSucceeds`)? Does everybody who plays have statistics (`PlayersAreRated`), is a rating explained by the matches that count (`RatingMatchesHistory`), and the streak of a player of one colour (`StreakOfOneColour`)? Are cards dealt from the match's pool (`DealtFromMatchPool`), does a row dangle (`NothingDangles`)? Is a player in the room of his match (`SubscribedToOwnMatch`), does he see his cards (`PickerSeesCards`) and hear the result (`ResultReachesProcess`), as far as the process that acts is his? |
| `lost_roles` | 2 concurrent requests, 2 rows, 1 person, 2 tokens, no moderators | The sixth disagreement |

*Why the bounds are enough.* Two clients and an instance are three concurrent
actors on rows of which each transaction touches one match; every pair of
transactions overlaps in every order, and the third actor can act in between. Two
cards each make four rounds, so both players pick twice and rounds follow each
other; one card each still gives a non-final and a final round. Health 1 makes a
knockout possible in any round, health 2 also a damage that is survived. One crash
suffices for each point at which a single process may die; a second crash of the
same slot repeats it. `MaxVersion` bounds only the number of pauses: five allows a
full pause and resume cycle within a match and a second one that races with it.
`DiscardsOverlap = FALSE` (in `instances`, `deadlines`, `settle_race`) lets the two
discard transactions run one after the other, so that the finding of `discard_race`
does not hide everything behind it; the other runs let them overlap. The optional
requests (`Enabled`) are split over runs for the same reason: pauses break
`PhaseHasTimer` and `RoundsContiguous` (see below), so those are stated for play
without pauses.

For the lobby, three users and two queues are what it takes for somebody to be the
common member of two pairs that are made at once, and two slots for every two requests
to overlap; the crash of a slot is not counted, since a dropped transaction leaves no
trace. Two match names hold two matches of the three users; a name is used again. The
fingerprint (`WithoutHistory`) omits `gone`, on which neither the actions nor the
properties of `lobby` depend. The proofs cover every other size.

For the services, two slots let every two requests overlap at every await. Accounts
need three rows, so that a person's identities can be spread over two of them beside
the administrator's, and a token of each kind: of a person who uses the website, of a
person who signs in with the plugin of his platform, and of a plugin alone. One season
that is created, finished and deleted while two players join, play two matches and have
them reverted or corrected (two requests of moderators) meets every order of those; the
second match is what makes a revert differ from an undo. Two pools let a queue be pointed elsewhere, two maps fill one match. A
match of two rounds has both pickers. Two processes make every handler one of the
connection's own process or of another; one connection is enough because packets to
different connections do not interact. The run has about 850 thousand states and takes
some 200 seconds. Every property of `services` is also proved for every size, so these
bounds limit none of them; TLC found the formulas to prove, and
still shows that a plausible bug breaks each.

*Fairness* (`Fairness` in `MatchEngine`, used by `deadlines`). A started request
goes on, since promises settle, and an instance keeps polling (`setInterval`):
weak fairness. Steps that wait for an advisory lock are strongly fair, because
PostgreSQL queues lock waiters. Claiming a timer is strongly fair, because
processOne takes the timer that is due first and a retry moves its own back.
Nothing is assumed of players or moderators.

### What the runs found

1. `settle_race`: forfeitMatch takes no lock and writes the match unconditionally,
   and resolveRound looks at the round but not at the match. Two forfeits, or a
   forfeit between the second score and the resolution, count twice in the
   statistics.
2. `discard_race`: both discard transactions may miss each other's hand. The
   discard timer then finds nobody to act for and completes; the match stays in
   `awaiting_discards` for ever.
3. `double_pause`: pausing a paused match is refused after `status_before_pause`
   has become `paused`; the match cannot be resumed.
4. `paused_forfeit`: cancelling a paused timer without clearing
   `paused_remaining_ms` violates `match_timers_pause_consistency`; a paused match
   can be neither forfeited nor decided.

5. `ghost`: the handler of a disconnect deletes the queue entry and looks for a match,
   and takes no lock that a join holds. A join of the same user that is still in flight
   is seen by neither; its commit leaves the absent user waiting, or in a match that
   nobody forfeits.
6. `lost_roles`: a login writes back roles and ban as it has read them, without a lock.
   A person with roles signs in with a plugin whose platform row exists already, in two
   requests. The first merges his row, and its roles, into the platform row and removes
   his. The second has read the platform row before, finds the merged row again by his
   other identities and takes it for the copy it has: it writes the old roles, none, and
   continues without them. The comment at `account.service.ts:134` says that permissions
   must survive every login. `MergesKeepAuthorization`, proved below, shows that one
   request at a time keeps them.

The lobby also shows behaviours that no document of the repository excludes and that
are listed as hazards: a user who waits in a queue and is seated elsewhere meanwhile
blocks that queue, because every pairing with the entry is rolled back by the index on
seats; and a restricted user may wait until the next pairing removes the entry.

While exploring `moderated` TLC also showed these consequences of pauses, which the
runs above deliberately exclude: a pick that was prepared before a pause and commits
after it has the version that a stale resume expects, so the resume reopens the pick
phase with a round still open (needs a participant who skips the paused timer); a
timer that runs between the transition of a pause and the pause of the timers is
completed without effect, and the resumed phase has none.

The services show behaviours of that kind as well:

* a role or a ban that a moderator sets while its user logs in is undone by the login, in
  the way of `lost_roles`;
* revertMatchResult asks for the history of each player in the colour that he had in the
  reverted match (`ranking.service.ts:257`), so his matches in the other colour drop out
  of the recomputed streak and best streak, although the docstring at line 194 speaks of
  the retained match history: a win as red after a draw as blue no longer counts once the
  draw is reverted. `StreakOfOneColour` delimits this: whoever has only played one colour
  has the streaks of his history;
* a connection to another process than the one that makes a match, and that has read its
  matches before, does not join the match's room; nor does it hear of a result from
  another process, which may be the one that has taken over a timer. The player learns of
  either when he reconnects or asks for the match;
* the ending rating that finishing a season freezes stays behind what is settled later;
  nothing locks a match that two moderators revert or correct at once (`bent`); a decision
  over REST ends a match without a packet (`Decide`).

## 4. What is proved

Each theorem holds for every value of the constants that the module's assumptions
allow. For the match engine that is any number of clients and instances, any hand size
and health, all kinds of requests, overlapping discards, crashes. The assumptions say
that `None` is none of the values it stands beside, that bounds are numbers, and, in
`Accounts`, what a verified token can name; TLC evaluates them in every run.

* `Invariance`: `Spec => []EngineInv`. `RoundResolvedOnce` is not inductive alone: a
  resolution must know that its round is still open (`ResolvingOpen`), which other
  slots respect because they hold locks of different rounds (`LockExclusive`);
  `RoundsNumbered` needs that a pick in preparation is for a number whose
  predecessors exist (`SelectingNext`), which also keeps the count of cards from
  going below zero and so closes `TypeOK`. `RequestsNameRounds` types the rounds.
  `EngineInv` is the conjunction; `moderated` checks it with TLC.
* `TypeCorrect`, `RoundsAreNumbered`, `DamageAppliedOnce` follow from it.
* `ResultIsConsistent` and `DecidedIsFinal`: a match has a winner only while it is
  completed, and once it has one no step takes it out of `completed`. The argument
  is a classification of every write of the match row (`MatchWrite`).
* `ClosedInvariance` and `CompletedMatchIsClosed`: a completed match has released both players and has no timer
  that is scheduled, running or paused. What makes it inductive (`ClosedInv`) is that no
  request in flight carries the status `completed` (`NamesNoResult`): a transition can
  abort or resume a match, and the phase to which it resumes is never an ended one, so
  only the writes of `Settle` complete a match, and they close it in the same
  transaction. Nothing is assumed of the requests: pauses, aborts and overlapping
  discards are covered.

**`MatchPlayProofs`** is about play without pauses, and rests on one inductive invariant,
`PlayInv` (`PlayInvariance`; forfeits, aborts, crashes, retries, take-overs and skips are
allowed). Phases, and therefore their timers, have an order (`Turn`: 0 for the discards,
then three for each round). The invariant says

* what each phase implies of rounds, hands and seats (`PhaseShape`), and how many cards
  each player holds (`PicksCounted`);
* that no timer exists ahead of the phase it belongs to, and that the current phase's is
  scheduled or in some instance's hands (`TimersOnTime`);
* what the rows still say of each request in flight (`RequestSound`). The part that is
  hard to find is `HandlerOnTime`: a handler that is about to report success, and so to
  complete its timer, belongs to a phase that is over; one that is on its way to an
  operation of a round works for a timer no later than that round. This carries the
  timer of a phase through every take-over, late completion and retry, because a
  completion never hits the timer of the current phase.

From it follow `PlayedInOrder` (`RoundsContiguous`), `PickerAlwaysHasCard`
(`PickerHasCard`), `DeadlinesKept` (`PhaseHasTimer`), `DiscardDeadlineWorks`,
`StatisticsWrittenOnce` (`SettledOnce`), `EndIsFinal` (`NeverReopened`) and
`ForfeitsComplete` (`ForfeitCompletes`, the property of `paused_forfeit`: the only paused
timers that a forfeit could meet are those of a pause, so no constraint undoes it). Each
states exactly the requests it excludes, and each exclusion is needed, because the code breaks
the property without it (with pauses, or for `EndIsFinal` aborts, as the only optional
request TLC violates each of these properties within seconds, already on matches of one
card each):

| assumption | theorems | what happens otherwise |
|---|---|---|
| no pause | all | a stale resume reopens a phase, a pause loses a timer (`double_pause`, and the notes on `moderated` above); a pause that overlaps the last resolution even pauses a match that ended in a draw, since its version fits and there is no winner |
| the discards of a match do not overlap | `DeadlinesKept`, `DiscardDeadlineWorks` | `discard_race`: the timer completes and the phase stays |
| no forfeit | `StatisticsWrittenOnce` | `settle_race`: two settlements |
| no abort | `EndIsFinal` | the abort of a match that its resolution, which does not look at the status, then completes |
| no crash | `ForfeitsComplete` | the process dies before the commit, and nobody repeats the request |
| no optional request | `EngineRefinesLifecycle` | `MatchLifecycle` promises no forfeit or abort; the other rows of this table |

* `EngineRefinesLifecycle`: `Spec` implies `MatchLifecycle!Spec` under the mapping of
  `MatchEngine` (`ImplementsLifecycle`), with any number of clients and instances, any
  hand size and health, crashes and overlapping discards. The initial state maps to an
  initial state. Four transactions are steps of the lifecycle: the second discard, a
  pick, the resolution of a round (which plays on or finishes the match) and the end of
  a results display; for each, `PlayInv` provides the guard that the code does not check
  again when it commits, for example that the round being resolved is still the match's
  current one. Every other step, in particular every step of a timer, leaves what the
  lifecycle sees alone.

* `MatchmakingInvariance`: `Spec => []MatchmakingInv`, for any number of users, queues
  and requests. What makes the three properties inductive is `Sound`: what a request
  has read under the lock of its queue still holds when it commits. A join that has
  passed the search for an active match knows that its user sits in no match of *this*
  queue, and its pair contains everybody who waits in it; a mock match knows that the
  entry it deletes is the one in the queue it has locked, if there is one. Others may
  only take entries of that queue away, because whoever adds one needs the lock
  (`LockExclusive`). `NobodyPlaysTwice`, `NobodyWaitsBesideAnother` and
  `TheMatchedHaveLeftTheQueue` follow. The steps fall into three kinds, each with one
  lemma: those that only take rows away (`ShrinkKeepsData`, `ShrinkKeepsSound`), those
  that only move a request (`StepInv`), and commits under a lock (`CommitInv`).

* `MatchmakingRefinesPairing`: `Spec` implies `Pairing!Spec` (`ImplementsPairing`), for the
  same values. Two transactions carry the weight: the commit of a join (which waits,
  replaces whoever may not play, or meets) and that of a mock match. Their reads are
  stale by then, so the guard of the abstract step has to follow from `Sound` and from
  what the commit itself is rejected for: that nobody but the pair waits in the queue is
  remembered under its lock, that both players are free is what the unique index on seats
  checks at the commit, and that the partner of a mock match is not in the queue needs
  that its pair is of two different users and was read under that queue's lock. A leave, a
  restriction or a disconnect is a `Withdraw`; reads, lock takers and crashes stutter.

The proof of `EngineInv` has one lemma per action. Most actions leave alone what the
invariant speaks of and hand the slot a request outside the critical ones; `QuietInv`
covers them, so a lemma only shows that its action is quiet and keeps the types. The
four actions that matter (SelectCommit, ResolveBegin, ResolveCommit and the lock takers)
are argued conjunct by conjunct.

* `ReleasesProofs`: `ListedMatchesFile` and `OtherVersionsKept`. The inductive invariant
  adds that the chain holds every publication exactly once and that only its head has
  touched a file (`InOrder`); therefore the manifest that the head has read is still the
  one on the disk when it writes it back (`HeadKnows`).
* `AccountsProofs`: `LoginAloneSucceeds` (`LoginsSucceedAlone`), with any number of
  requests at a time, and `AuthorizationSurvivesLogins` (`MergesKeepAuthorization`) for
  requests that come one after another: the assumption is that there is at most one slot,
  and `lost_roles` shows why it is needed. The invariant types the rows, keeps them within
  the constraints, and says what a login has in hand before each read (`HasRead`). The
  merged rows are accepted because a login that reads undisturbed finds the one row with
  each identity (`FoundAlone`), the duplicates give the person's identities up
  (`DuplicatesGiveUp`), nobody else has the platform that is written (`PlatformIsFree`),
  and a duplicate that is deleted has no platform, so that no retained match refers to it.
  With one request at a time the copies are still the rows when they are written back
  (`FreshCopies`), and each copy is of a row whose roles and bans are asked
  (`CopiesAreAsked`).
* `SeasonsProofs`: `PlayersAreRated`, `RatingMatchesHistory`, `StreakOfOneColour`, and types, which say that
  no rating, counter or recomputed streak is below zero. No step removes statistics
  (`Keeps`) although seasons are deleted, since a season with statistics cannot be; a
  match keeps its players and its season (`Carries`); a moderator's request keeps hold
  of a match that exists (`Holds`). For the history (`RatingsMatchHistory`) a sum over
  matches is the number of points of a finite set (`Total`), so that the change of one
  match changes the sum by its share without an induction, for any number of matches.
  The invariant `HistoryInv` adds that only a player of a match has won it (`Sound`),
  and what a moderator's request has read of its match (`Read`): season, players and
  completion do not change any more, so if nobody has overtaken the request (`bent`) it
  takes from the statistics just what the match had added (`Applied`).
  `StreaksOfOneColour` needs no induction over the history either, because a streak is a
  cardinality: that of the matches since the last one that was not won (`LastRun`,
  `StreakIsLastRun`). A settlement adds a match that comes after all others
  (`StreakMore`), since matches are numbered as they end and no number exceeds the count
  of those that have ended; a revert computes the row from the history in one role, which
  for a player of one colour leaves out nothing but the reverted match. `StreakInv` adds
  to `HistoryInv` that bound and that a moderator's request has the colours of its match
  right (`Colours`). Nothing is assumed of overlapping moderators or of the floor at 0:
  unlike ratings, streaks do not depend on either.
* `CatalogueProofs`: `DealtFromMatchPool` and `NothingDangles`. No route moves a map to
  another pool and no guid is used twice, so the cards in the hand of a join, as far as
  they still exist, are in the pool it has read (`ReadSound`).
* `SocketsProofs`: `SubscribedToOwnMatch`, `PickerSeesCards` and `ResultReachesProcess`,
  for any number of processes. Matches stay and their rounds grow (`Grows`), so what a
  connection has heard (`Heard`) and what a handler has read (`ReqSound`) remains true of
  the match; `Subscribing` extends the first property to connections that are still joining
  the rooms they have read. The second needs that a blank announcement that is on its way
  is of the current pick phase or an earlier one, and that its handler lists the picker's
  connections of its process as it emits. `OneProcessTellsEverybody` assumes a single
  process: then nothing is `elsewhere`, and both promises hold without that exception.

Only model-checked: liveness (`MatchEnds`, `CarriedToItsEnd` in `deadlines`), which is
out of the prover's reach together with ENABLED. Every invariant and every other action
property that a passing run checks is stated by a theorem.

## 5. Not modelled

* `set_health`, the arithmetic of calculateRoundHealth, and the numbers behind MMR
  changes: `MatchEngine` takes every loss of health and `Seasons` every result of a small
  set, which covers every order of events but not the numeric checks of `match_scores`.
  Exact health would multiply the states of every run of the match engine.
* Real time: deadlines, the opening hours of queues, rating ranges that widen, the expiry of
  mock clients and restrictions. A timer is due at any moment instead, a restriction ends
  at any moment.
* What an administrator may do to a match by hand, outside every rule of the game:
  `matches.route.ts` inserts a match without participants or a seat in a match, and takes a
  seat away, in any status; the cancel route of `timers.route.ts` cancels any timer, so that
  a phase may lose its only one. These edits keep no promise (a cancelled timer alone makes
  `PhaseHasTimer` false): the model says what holds as long as nobody makes them.
* Custom timers: their handler does nothing (`wsManager.ts:93`), so that a deadline is all
  they keep.
* The routes that overwrite a row with anything: `PATCH` of competitive statistics, the
  texts of reports, of flairs and of map suggestions (`mapPooling.route.ts`). They keep no
  promise that another row depends on.
* Cryptography, cookies and the answers of BeatKhana and BeatSaver: their outcomes are
  inputs of `Accounts` and `Catalogue`.
* Payloads, acknowledgements and chat of the Socket.IO front end, and the loss of packets
  by a connection that breaks: a broken connection is gone (`Disconnect`), and a new one
  restores its rooms.
* Plugin releases that two processes publish into the same files (see `PluginReleases`).
* The Discord bot (it only calls remote services), the replay relay (it forwards the binary
  frames of an authenticated plugin to the spectators of its channel, and drops the channel
  with its last peer; it changes no match), and the routes that only query.
* The composition of `Matchmaking` and `Catalogue` with `MatchEngine` as one state space:
  they meet at the creation of a match only, whose state both sides describe.
