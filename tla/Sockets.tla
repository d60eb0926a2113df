-------------------------------- MODULE Sockets --------------------------------
(***************************************************************************)
(* Who is told what: wsManager.ts, matchEvents.ts and the packet handlers. *)
(* A handler first commits a change of a match and then, some awaited      *)
(* calls later, emits packets to rooms: user:<guid>, which a connection is *)
(* in from its first moment, and match:<guid>, which it joins when it      *)
(* restores the matches that it has read, when a match is announced, or to *)
(* watch.  A connection gets its packets in the order of their emission.   *)
(*                                                                         *)
(* Rooms are memory of one process (no adapter joins them), while several  *)
(* server processes may work on one database: what a handler emits reaches *)
(* the connections of its own process only.                                *)
(*                                                                         *)
(* How a match goes on is MatchEngine's business; here it has a phase.     *)
(***************************************************************************)
EXTENDS Backend, Naturals, FiniteSets

CONSTANTS Users,
          Processes,    \* instances of the server
          Connections,  \* Socket.IO sessions
          Fixtures,     \* guids of matches
          MaxRound      \* bound: rounds of a match

ASSUME SocketsAssumption ==
    /\ None \notin Users \cup Fixtures \cup Processes
    /\ MaxRound \in Nat \ {0}

VARIABLES live,     \* live[m]: the match, or None
          conn,     \* conn[c]: the connection, or None
          sockReq   \* what each slot still has to read and to emit

socketsVars == <<live, conn, sockReq>>

Sides == {"red", "blue"}
Phases == {"discards", "pick", "map", "results", "aborted", "over"}
Fixture == [red : Users, blue : Users, phase : Phases, paused : BOOLEAN,
            round : 0..MaxRound,
            told : SUBSET Users,             \* whose connections are told of it
            untold : SUBSET Connections,     \* history: the players' connections
                                             \* at its end, until they are told;
            elsewhere : SUBSET Connections]  \* and those in other processes than
                                             \* the one that announces it
\* Only pickPhaseStarted without cards is told apart from the other packets.
Blank == [match : Fixtures, round : 0..MaxRound]
Connection == [user : Users \cup {None}, plugin : BOOLEAN, at : Processes,
               step : {"connected", "restoring", "ready"},
               found : SUBSET Fixtures, rooms : SUBSET Fixtures,
               last : Blank \cup {None}]
SocketRequest ==
    [op : {"idle", "created", "ready", "announce", "blank", "cards", "round",
           "finished", "gone"},
     at : Processes \cup {None},
     match : Fixtures \cup {None}, round : 0..MaxRound, final : BOOLEAN,
     user : Users \cup {None}, to : SUBSET Connections]
NoSocketRequest == [op |-> "idle", at |-> None, match |-> None, round |-> 0,
                    final |-> FALSE, user |-> None, to |-> {}]

ASSUME SocketRowsAssumption == None \notin Fixture \cup Connection \cup Blank

SocketsInit ==
    /\ live = [m \in Fixtures |-> None]
    /\ conn = [c \in Connections |-> None]
    /\ sockReq = [s \in Slots |-> NoSocketRequest]

Seated(m) == {live[m].red, live[m].blue}
\* match_participants.active is cleared by a result, not by an abort.
Active(m) == live[m] # None /\ live[m].phase # "over"
Running(m) == Active(m) /\ live[m].phase # "aborted"
Up == {c \in Connections : conn[c] # None}
\* The connections of the users of U, in whichever process.
Owned(U) == {c \in Up : conn[c].user \in U}
JoinedLast(i, U) ==   \* mutant: the user room is joined after the restoration
    {c \in Owned(U) : conn[c].at = i /\ conn[c].step = "ready"}
\* The rooms of process i.
UserRoom(i, U) == {c \in Owned(U) : conn[c].at = i}
MatchRoom(i, m) == {c \in Up : conn[c].at = i /\ m \in conn[c].rooms}
Picker(m) == IF live[m].round % 2 = 1 THEN live[m].red ELSE live[m].blue

Awaits(s, op) == sockReq[s].op = op
SetSocketRequest(s, r) == sockReq' = [sockReq EXCEPT ![s] = r]
\* A handler of process i, of a packet, a route or a timer.
Starts(s, i, op, m) ==
    /\ Awaits(s, "idle")
    /\ SetSocketRequest(s, [NoSocketRequest EXCEPT !.op = op, !.at = i, !.match = m])
Done(s) == SetSocketRequest(s, NoSocketRequest)

\* What the connections of C have got last.
Got(C, packet) ==
    [c \in Connections |-> IF c \in C THEN [conn[c] EXCEPT !.last = packet]
                                     ELSE conn[c]]
BlankOf(r) == [match |-> r.match, round |-> r.round]

-----------------------------------------------------------------------------
(* Connections.                                                            *)

\* The handshake's login has ended: the connection enters its user room.
Connect(c, i, u, plugin) ==
    /\ conn[c] = None
    /\ plugin => u # None
    /\ \A s \in Slots : c \notin sockReq[s].to
    /\ conn' = [conn EXCEPT ![c] =
          [user |-> u, plugin |-> plugin, at |-> i,
           step |-> IF u = None THEN "ready" ELSE "connected",
           found |-> {}, rooms |-> {}, last |-> None]]
    /\ UNCHANGED <<live, sockReq>>

RestoreRead(c) ==
    /\ conn[c] # None
    /\ conn[c].step = "connected"
    /\ conn' = [conn EXCEPT ![c].step = "restoring",
          ![c].found = {m \in Fixtures : Active(m) /\ conn[c].user \in Seated(m)}]
    /\ UNCHANGED <<live, sockReq>>

RestoreJoin(c) ==
    /\ conn[c] # None
    /\ conn[c].step = "restoring"
    /\ conn' = [conn EXCEPT ![c].step = "ready", ![c].found = {},
                            ![c].rooms = @ \cup conn[c].found]
    /\ UNCHANGED <<live, sockReq>>

WatchAnything(c, m) ==   \* mutant: the match is not looked up
    /\ conn[c] # None
    /\ conn' = [conn EXCEPT ![c].rooms = @ \cup {m}]
    /\ UNCHANGED <<live, sockReq>>
\* watchMatch, by anybody.
WatchMatch(c, m) ==
    /\ conn[c] # None
    /\ live[m] # None
    /\ m \notin conn[c].rooms
    /\ conn' = [conn EXCEPT ![c].rooms = @ \cup {m}]
    /\ UNCHANGED <<live, sockReq>>

Without(C) ==
    [m \in Fixtures |-> IF live[m] = None THEN None
                        ELSE [live[m] EXCEPT !.untold = @ \ C, !.elsewhere = @ \ C]]

\* A plugin's player has left: the handler of "disconnect" goes on.
Disconnect(c) ==
    /\ conn[c] # None
    /\ conn' = [conn EXCEPT ![c] = None]
    /\ live' = Without({c})
    /\ IF conn[c].plugin
       THEN \E s \in Slots :
               /\ Awaits(s, "idle")
               /\ SetSocketRequest(s, [NoSocketRequest EXCEPT
                     !.op = "gone", !.at = conn[c].at, !.user = conn[c].user])
       ELSE UNCHANGED sockReq

\* A process dies with its connections and with what it had to emit.
SocketsCrash(i) ==
    LET dead == {c \in Up : conn[c].at = i} IN
    /\ conn' = [c \in Connections |-> IF c \in dead THEN None ELSE conn[c]]
    /\ live' = Without(dead)
    /\ sockReq' = [s \in Slots |-> IF sockReq[s].at = i THEN NoSocketRequest
                                                       ELSE sockReq[s]]

-----------------------------------------------------------------------------
(* A match begins.                                                         *)

\* It is committed: queueService.join, which tells both players,
\* createQueuedMatch, which tells the developer, or createMatch, nobody.  A
\* connection to another process that has not read its matches yet finds it.
MatchCommit(s, i, m, red, blue) ==
    /\ live[m] = None
    /\ red # blue
    /\ \A n \in Fixtures : Active(n) => Seated(n) \cap {red, blue} = {}
    /\ \E told \in {{red, blue}, {red}, {}} :
          live' = [live EXCEPT ![m] =
             [red |-> red, blue |-> blue, phase |-> "discards", paused |-> FALSE,
              round |-> 0, told |-> told, untold |-> {},
              elsewhere |-> {c \in Owned(told) : /\ conn[c].at # i
                                                 /\ conn[c].step # "connected"}]]
    /\ Starts(s, i, "created", m)
    /\ UNCHANGED conn

\* matchCreated
EmitCreated(s) ==
    LET m == sockReq[s].match IN
    /\ Awaits(s, "created")
    /\ conn' = [c \in Connections |->
                   IF c \in UserRoom(sockReq[s].at, live[m].told)
                   THEN [conn[c] EXCEPT !.rooms = @ \cup {m}, !.last = None]
                   ELSE conn[c]]
    /\ Done(s)
    /\ UNCHANGED live

-----------------------------------------------------------------------------
(* The pick phase.                                                         *)

GoesOn(m, from, to, round) ==
    /\ live[m] # None
    /\ live[m].phase = from
    /\ ~live[m].paused
    /\ live' = [live EXCEPT ![m].phase = to, ![m].round = round]

\* The last discard is committed by the packet's handler (op "ready"), or
\* by the timer's or a mock client's (op "announce").
DiscardsReady(s, i, m, op) ==
    /\ GoesOn(m, "discards", "pick", 1)
    /\ Starts(s, i, op, m)
    /\ UNCHANGED conn

\* The timer of the results starts the next pick phase.
ResultsShown(s, i, m) ==
    /\ live[m] # None
    /\ live[m].round < MaxRound
    /\ GoesOn(m, "results", "pick", live[m].round + 1)
    /\ Starts(s, i, "announce", m)
    /\ UNCHANGED conn

\* getPickState answers, or throws: then nobody is told.
ReadPick(s) ==
    LET m == sockReq[s].match IN
    /\ sockReq[s].op \in {"ready", "announce"}
    /\ sockReq[s].user = None
    /\ IF live[m].phase = "pick" /\ ~live[m].paused
       THEN SetSocketRequest(s, [sockReq[s] EXCEPT
               !.user = Picker(m), !.round = live[m].round,
               !.op = IF Awaits(s, "ready") THEN "blank" ELSE "announce"])
       ELSE Done(s)
    /\ UNCHANGED <<live, conn>>

RoomLast(s) ==   \* mutant: the picker is told before the room
    LET r == sockReq[s]
        room == MatchRoom(r.at, r.match) IN
    /\ Awaits(s, "announce")
    /\ r.user # None
    /\ conn' = [c \in Connections |->
          IF c \in UserRoom(r.at, {r.user}) \cup room
          THEN [conn[c] EXCEPT !.last = IF c \in room THEN BlankOf(r) ELSE None]
          ELSE conn[c]]
    /\ Done(s)
    /\ UNCHANGED live
\* emitPickPhaseStarted: the match room, then the picker, without a pause.
Announce(s) ==
    LET r == sockReq[s]
        own == UserRoom(r.at, {r.user}) IN
    /\ Awaits(s, "announce")
    /\ r.user # None
    /\ conn' = [c \in Connections |->
          IF c \in own \cup MatchRoom(r.at, r.match)
          THEN [conn[c] EXCEPT !.last = IF c \in own THEN None ELSE BlankOf(r)]
          ELSE conn[c]]
    /\ Done(s)
    /\ UNCHANGED live

\* The discardMaps packet tells the room, and lists the picker's connections.
EmitBlank(s) ==
    LET r == sockReq[s] IN
    /\ Awaits(s, "blank")
    /\ conn' = Got(MatchRoom(r.at, r.match), BlankOf(r))
    /\ SetSocketRequest(s, [r EXCEPT !.op = "cards", !.to = UserRoom(r.at, {r.user})])
    /\ UNCHANGED live

\* The listed connections get the cards when the list has come.
EmitCards(s) ==
    LET r == sockReq[s] IN
    /\ Awaits(s, "cards")
    /\ conn' = Got(r.to \cap Up, None)
    /\ Done(s)
    /\ UNCHANGED live

-----------------------------------------------------------------------------
(* The rest of a match.                                                    *)

\* selectMap: playerSelectedMap, roundStarted and startMap are to be emitted.
Pick(s, i, m) ==
    /\ live[m] # None
    /\ GoesOn(m, "pick", "map", live[m].round)
    /\ Starts(s, i, "round", m)
    /\ UNCHANGED conn

\* A handler of process i ends the match.
Ends(i, m) ==
    LET players == Owned(Seated(m)) IN
    live' = [live EXCEPT ![m].phase = "over", ![m].untold = players,
                         ![m].elsewhere = {c \in players : conn[c].at # i}]

\* The round is resolved, and the match with it or not.
Resolve(s, i, m, final) ==
    /\ live[m] # None
    /\ live[m].round = MaxRound => final
    /\ IF final
       THEN live[m].phase = "map" /\ ~live[m].paused /\ Ends(i, m)
       ELSE GoesOn(m, "map", "results", live[m].round)
    /\ Awaits(s, "idle")
    /\ SetSocketRequest(s, [NoSocketRequest EXCEPT
          !.op = "round", !.at = i, !.match = m, !.final = final])
    /\ UNCHANGED conn

\* mutant: matchFinished goes to the match room
InMatchRoom(i, m) == MatchRoom(i, m)
ToBoth(i, m) == UserRoom(i, Seated(m))
\* matchFinished, to both players' rooms.
Finished(i, m) == [live EXCEPT ![m].untold = @ \ ToBoth(i, m)]

\* roundResults, and matchFinished after it; or the packets of selectMap.
EmitRound(s) ==
    LET r == sockReq[s] IN
    /\ Awaits(s, "round")
    /\ conn' = Got(MatchRoom(r.at, r.match)
                        \cup (IF r.final THEN ToBoth(r.at, r.match) ELSE {}), None)
    /\ live' = IF r.final THEN Finished(r.at, r.match) ELSE live
    /\ Done(s)

\* A player forfeits, by packet, or a moderator decides by packet.
Forfeit(s, i, m) ==
    /\ Running(m)
    /\ Ends(i, m)
    /\ Starts(s, i, "finished", m)
    /\ UNCHANGED conn

\* The player who has left forfeits the match that he is active in, unless he
\* is there as a mock client; the handler fails when it has been aborted.
ForfeitGone(s) ==
    LET mine == {m \in Fixtures : Running(m) /\ sockReq[s].user \in live[m].told} IN
    /\ Awaits(s, "gone")
    /\ IF mine # {}
       THEN \E m \in mine :
               /\ Ends(sockReq[s].at, m)
               /\ SetSocketRequest(s, [NoSocketRequest EXCEPT
                     !.op = "finished", !.at = sockReq[s].at, !.match = m])
       ELSE Done(s) /\ UNCHANGED live
    /\ UNCHANGED conn

EmitFinished(s) ==
    LET r == sockReq[s] IN
    /\ Awaits(s, "finished")
    /\ conn' = Got(ToBoth(r.at, r.match), None)
    /\ live' = Finished(r.at, r.match)
    /\ Done(s)

\* What moderators do without anybody being told: pauses,
PauseOrResume(m) ==
    /\ Running(m)
    /\ live' = [live EXCEPT ![m].paused = ~@]
    /\ UNCHANGED <<conn, sockReq>>

\* aborts, forced picks and scores, and every decision over REST.
Decide(m) ==
    /\ live[m] # None
    /\ \/ GoesOn(m, "pick", "map", live[m].round)
       \/ GoesOn(m, "map", "results", live[m].round)
       \/ /\ Running(m)
          /\ \E phase \in {"aborted", "over"} : live' = [live EXCEPT ![m].phase = phase]
    /\ UNCHANGED <<conn, sockReq>>

SocketsNext ==
    \/ \E c \in Connections :
          \/ \E i \in Processes, u \in Users \cup {None}, plugin \in BOOLEAN :
                Connect(c, i, u, plugin)
          \/ RestoreRead(c)
          \/ RestoreJoin(c)
          \/ \E m \in Fixtures : WatchMatch(c, m)
          \/ Disconnect(c)
    \/ \E s \in Slots :
          \/ \E i \in Processes, m \in Fixtures :
                \/ \E red, blue \in Users : MatchCommit(s, i, m, red, blue)
                \/ \E op \in {"ready", "announce"} : DiscardsReady(s, i, m, op)
                \/ ResultsShown(s, i, m)
                \/ Pick(s, i, m)
                \/ \E final \in BOOLEAN : Resolve(s, i, m, final)
                \/ Forfeit(s, i, m)
          \/ EmitCreated(s)
          \/ ReadPick(s)
          \/ Announce(s)
          \/ EmitBlank(s)
          \/ EmitCards(s)
          \/ EmitRound(s)
          \/ ForfeitGone(s)
          \/ EmitFinished(s)
    \/ \E m \in Fixtures : PauseOrResume(m) \/ Decide(m)
    \/ \E i \in Processes : SocketsCrash(i)

SocketsSpec == SocketsInit /\ [][SocketsNext]_socketsVars

-----------------------------------------------------------------------------
(* The matches' phases, the connections and the slots; every room that a   *)
(* connection is in belongs to a match.                                    *)
SocketsTypeOK ==
    /\ live \in [Fixtures -> Fixture \cup {None}]
    /\ conn \in [Connections -> Connection \cup {None}]
    /\ sockReq \in [Slots -> SocketRequest]
    /\ \A c \in Up : \A m \in conn[c].rooms : live[m] # None

\* A handler of process i has still to emit it.
Pending(i, op, m) ==
    \E s \in Slots : Awaits(s, op) /\ sockReq[s].at = i /\ sockReq[s].match = m

(* A player's connection that has restored its rooms is in the room of his *)
(* running match, although the match may be made between any two steps of  *)
(* the restoration, unless matchCreated is still to come, is not meant for *)
(* him (createMatch, and the mock side of createQueuedMatch), or has been  *)
(* announced by another process after the connection read its matches.     *)
SubscribedToOwnMatch ==
    \A m \in Fixtures : Active(m) =>
        \A c \in Owned(live[m].told) \ live[m].elsewhere :
            conn[c].step = "ready" =>
                m \in conn[c].rooms \/ Pending(conn[c].at, "created", m)

(* The packet without cards is never the last that a picker's connection   *)
(* hears of its pick phase: the one with his cards comes after it, from    *)
(* the same process, whichever processes announce.                         *)
PickerSeesCards ==
    \A m \in Fixtures : live[m] # None /\ live[m].phase = "pick" =>
        \A c \in Owned({Picker(m)}) :
            conn[c].last = [match |-> m, round |-> live[m].round]
            => \E s \in Slots : Awaits(s, "cards") /\ sockReq[s].match = m
                                                   /\ c \in sockReq[s].to

(* When a match ends, every connection that its players had at that moment *)
(* to the process that ended it is told, in the match room or not, unless  *)
(* that process died, a moderator ended it in silence (Decide), or the     *)
(* handler has not emitted it yet.  Connections to other processes are     *)
(* never told: `elsewhere`.                                                *)
ResultReachesProcess ==
    \A m \in Fixtures : live[m] # None =>
        \A c \in live[m].untold \ live[m].elsewhere :
            \/ Pending(conn[c].at, "finished", m)
            \/ \E s \in Slots : /\ Awaits(s, "round") /\ sockReq[s].at = conn[c].at
                                /\ sockReq[s].match = m /\ sockReq[s].final
=============================================================================
