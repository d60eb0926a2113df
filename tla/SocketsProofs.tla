----------------------------- MODULE SocketsProofs -----------------------------
(***************************************************************************)
(* Who is told what, for any number of processes, users, connections,      *)
(* matches, rounds and handlers at a time.                                 *)
(*                                                                         *)
(* Matches are never taken back and their rounds only grow (Grows), so     *)
(* what a handler has read of a match, and what a connection has heard of  *)
(* it, stays true of it (ReqSound, Heard).  Each of the three properties   *)
(* then depends on the slots that still have to emit, in the process that  *)
(* the connection is to, and is disturbed only by the few steps that it    *)
(* names; when a process dies, its slots and its connections go together.  *)
(***************************************************************************)
EXTENDS Sockets, TLAPS

SocketsTyped ==
    /\ live \in [Fixtures -> Fixture \cup {None}]
    /\ conn \in [Connections -> Connection \cup {None}]
    /\ sockReq \in [Slots -> SocketRequest]

\* A match l and the connections k of its players.
MatchSound(l, k) ==
    /\ l.told \subseteq {l.red, l.blue}
    /\ l.phase = "discards" => l.round = 0
    /\ \A c \in l.untold : k[c] # None /\ k[c].user \in {l.red, l.blue}
    /\ \A c \in l.elsewhere : k[c] # None /\ \E i \in Processes : i # k[c].at

\* What a connection x has joined, and has heard last, exists in l.
Heard(x, l) ==
    /\ \A m \in x.rooms \cup x.found : l[m] # None
    /\ x.last # None => /\ l[x.last.match] # None
                        /\ x.last.round <= l[x.last.match].round

PickerOf(l, round) == IF round % 2 = 1 THEN l.red ELSE l.blue

\* A request r belongs to a process, and the match that it is about exists in
\* l; the pick that it announces has been, and r knows the picker.
ReqSound(r, l) ==
    /\ r.op # "idle" => r.at \in Processes
    /\ r.op \notin {"idle", "gone"} => r.match \in Fixtures /\ l[r.match] # None
    /\ r.op = "blank" \/ (r.op = "announce" /\ r.user # None)
          => r.round <= l[r.match].round /\ r.user = PickerOf(l[r.match], r.round)

\* The connections that a request r lists are to its process.
Listed(r, k) == \A c \in r.to : k[c] # None => k[c].at = r.at

\* SubscribedToOwnMatch, already while the rooms that were read are joined.
Subscribing ==
    \A m \in Fixtures : Active(m) =>
        \A c \in Owned(live[m].told) \ live[m].elsewhere :
            conn[c].step # "connected" =>
                m \in conn[c].rooms \cup conn[c].found
                \/ Pending(conn[c].at, "created", m)

AllSound ==
    /\ \A m \in Fixtures : live[m] # None => MatchSound(live[m], conn)
    /\ \A c \in Connections : conn[c] # None => Heard(conn[c], live)
    /\ \A c \in Connections : conn[c] # None /\ conn[c].step = "ready" => conn[c].found = {}
    /\ \A s \in Slots : ReqSound(sockReq[s], live) /\ Listed(sockReq[s], conn)

\* The inductive invariant.
SocketsInv ==
    /\ SocketsTyped
    /\ AllSound
    /\ Subscribing
    /\ PickerSeesCards
    /\ ResultReachesProcess

-----------------------------------------------------------------------------
\* Matches stay, with their players, and their rounds grow.
Grows(l, n) ==
    \A m \in Fixtures : l[m] # None =>
        /\ n[m] # None
        /\ n[m].red = l[m].red /\ n[m].blue = l[m].blue
        /\ l[m].round <= n[m].round

\* What has been heard and read stays true of matches that go on (code: no
\* packet is about a match that does not exist).
LEMMA HeardStays ==
    ASSUME NEW l \in [Fixtures -> Fixture \cup {None}],
           NEW n \in [Fixtures -> Fixture \cup {None}], Grows(l, n),
           NEW x \in Connection, Heard(x, l)
    PROVE  Heard(x, n)
  <1>1. \A m \in x.rooms \cup x.found : m \in Fixtures
    BY DEF Connection
  <1>2. ASSUME x.last # None
        PROVE  n[x.last.match] # None /\ x.last.round <= n[x.last.match].round
    <2>1. x.last \in Blank
      BY <1>2 DEF Connection
    <2> DEFINE m == x.last.match
    <2>2. m \in Fixtures /\ x.last.round \in Nat
      BY <2>1, SocketsAssumption DEF Blank
    <2>3. l[m] # None /\ x.last.round <= l[m].round
      BY <1>2 DEF Heard
    <2>4. n[m] # None /\ l[m].round <= n[m].round
      BY <2>2, <2>3 DEF Grows
    <2>5. l[m].round \in Nat /\ n[m].round \in Nat
      BY <2>2, <2>3, <2>4, SocketsAssumption DEF Fixture
    <2> QED BY <2>2, <2>3, <2>4, <2>5
  <1> QED BY <1>1, <1>2 DEF Heard, Grows

LEMMA ReqStays ==
    ASSUME NEW l \in [Fixtures -> Fixture \cup {None}],
           NEW n \in [Fixtures -> Fixture \cup {None}], Grows(l, n),
           NEW r \in SocketRequest, ReqSound(r, l)
    PROVE  ReqSound(r, n)
  <1>1. CASE r.op \in {"idle", "gone"}
    BY <1>1 DEF ReqSound
  <1>2. CASE r.op \notin {"idle", "gone"}
    <2> DEFINE m == r.match
    <2>1. m \in Fixtures /\ l[m] # None /\ r.round \in Nat
      BY <1>2, SocketsAssumption DEF ReqSound, SocketRequest
    <2>2. /\ n[m] # None /\ l[m].round <= n[m].round
          /\ \A k : PickerOf(n[m], k) = PickerOf(l[m], k)
      BY <2>1 DEF Grows, PickerOf
    <2>3. l[m].round \in Nat /\ n[m].round \in Nat
      BY <2>1, <2>2, SocketsAssumption DEF Fixture
    <2> QED BY <1>2, <2>1, <2>2, <2>3 DEF ReqSound
  <1> QED BY <1>1, <1>2

LEMMA NoRequestSound ==
    /\ NoSocketRequest \in SocketRequest
    /\ NoSocketRequest.op = "idle"
    /\ \A l : ReqSound(NoSocketRequest, l)
    /\ NoSocketRequest.to = {} /\ \A k : Listed(NoSocketRequest, k)
  BY SocketsAssumption DEF NoSocketRequest, SocketRequest, ReqSound, Listed

-----------------------------------------------------------------------------
\* What slot s has to emit remains, unless its process has died.
Remains(s) ==
    \/ sockReq'[s] = sockReq[s]
    \/ \A c \in Connections : conn'[c] # None => conn'[c].at # sockReq[s].at

\* Connections that only come nearer to their rooms, and matches that are not
\* new, keep the players subscribed, if nobody's matchCreated is forgotten.
LEMMA KeepsSubscribing ==
    ASSUME SocketsInv,
           \A c \in Connections : conn'[c] # None =>
               /\ conn[c] # None /\ conn'[c].user = conn[c].user /\ conn'[c].at = conn[c].at
               /\ conn'[c].step # "connected" => conn[c].step # "connected"
               /\ conn[c].rooms \cup conn[c].found \subseteq conn'[c].rooms \cup conn'[c].found,
           \A m \in Fixtures : Active(m)' =>
               /\ Active(m) /\ live'[m].told = live[m].told
               /\ \A c \in live[m].elsewhere : conn'[c] = None \/ c \in live'[m].elsewhere,
           \A s \in Slots : sockReq[s].op = "created" => Remains(s)
    PROVE  Subscribing'
  <1> SUFFICES ASSUME NEW m \in Fixtures, Active(m)',
                      NEW c \in Connections, conn'[c] # None,
                      conn'[c].user \in live'[m].told, c \notin live'[m].elsewhere,
                      conn'[c].step # "connected"
               PROVE  m \in conn'[c].rooms \cup conn'[c].found
                      \/ Pending(conn[c].at, "created", m)'
    BY DEF Subscribing, Owned, Up, Pending, Awaits
  <1>1. /\ Active(m) /\ c \in Owned(live[m].told) \ live[m].elsewhere
        /\ conn[c].step # "connected" /\ conn'[c].at = conn[c].at
    BY DEF Owned, Up
  <1>2. m \in conn[c].rooms \cup conn[c].found \/ Pending(conn[c].at, "created", m)
    BY <1>1 DEF SocketsInv, Subscribing
  <1>3. ASSUME Pending(conn[c].at, "created", m)
        PROVE  Pending(conn[c].at, "created", m)'
    <2>1. PICK s \in Slots : /\ sockReq[s].op = "created" /\ sockReq[s].at = conn[c].at
                             /\ sockReq[s].match = m
      BY <1>3 DEF Pending, Awaits
    <2>2. sockReq'[s] = sockReq[s]
      BY <2>1, <1>1 DEF Remains
    <2> QED BY <2>1, <2>2 DEF Pending, Awaits
  <1> QED BY <1>2, <1>3

\* Only a packet without cards, and a new pick phase, endanger the picker.
LEMMA KeepsPicker ==
    ASSUME SocketsInv,
           \A c \in Connections : conn'[c] # None =>
               \/ conn'[c].last = None
               \/ /\ conn[c] # None /\ conn'[c].user = conn[c].user
                  /\ conn'[c].at = conn[c].at /\ conn'[c].last = conn[c].last,
           \A m \in Fixtures : live'[m] # None /\ live'[m].phase = "pick" =>
               /\ live[m] # None /\ live[m].phase = "pick"
               /\ live'[m].round = live[m].round
               /\ live'[m].red = live[m].red /\ live'[m].blue = live[m].blue,
           \A s \in Slots : sockReq[s].op = "cards" => Remains(s)
    PROVE  PickerSeesCards'
  <1> SUFFICES ASSUME NEW m \in Fixtures, live'[m] # None, live'[m].phase = "pick",
                      NEW c \in Connections, conn'[c] # None,
                      conn'[c].user = Picker(m)',
                      conn'[c].last = [match |-> m, round |-> live'[m].round]
               PROVE  \E s \in Slots : Awaits(s, "cards")' /\ sockReq'[s].match = m
                                                           /\ c \in sockReq'[s].to
    BY DEF PickerSeesCards, Owned, Up
  <1>1. /\ live[m] # None /\ live[m].phase = "pick"
        /\ live'[m].round = live[m].round /\ Picker(m)' = Picker(m)
    BY DEF Picker
  <1>2. conn'[c].last # None
    <2>1. live'[m].round \in 0..MaxRound
      BY <1>1 DEF SocketsInv, SocketsTyped, Fixture
    <2>2. [match |-> m, round |-> live'[m].round] \in Blank
      BY <2>1 DEF Blank
    <2> QED BY <2>2, SocketRowsAssumption
  <1>3. /\ conn[c] # None /\ conn[c].user = Picker(m) /\ conn[c].last = conn'[c].last
        /\ conn'[c].at = conn[c].at
    BY <1>1, <1>2
  <1>4. c \in Owned({Picker(m)})
    BY <1>3 DEF Owned, Up
  <1>5. PICK s \in Slots : Awaits(s, "cards") /\ sockReq[s].match = m /\ c \in sockReq[s].to
    BY <1>1, <1>3, <1>4 DEF SocketsInv, PickerSeesCards
  <1>6. conn[c].at = sockReq[s].at
    BY <1>3, <1>5 DEF SocketsInv, AllSound, Listed
  <1>7. sockReq'[s] = sockReq[s]
    BY <1>3, <1>5, <1>6 DEF Awaits, Remains
  <1> QED BY <1>5, <1>7 DEF Awaits

\* A handler of process i has still to emit the result of match m.
ToTell(i, m) ==
    \/ Pending(i, "finished", m)
    \/ \E s \in Slots : /\ Awaits(s, "round") /\ sockReq[s].at = i
                        /\ sockReq[s].match = m /\ sockReq[s].final

\* Only the end of a match, and its announcement, concern the untold.
LEMMA KeepsResult ==
    ASSUME SocketsInv, SocketsTyped', AllSound',
           \A m \in Fixtures : live'[m] # None /\ live'[m].untold # {} =>
               /\ live[m] # None /\ live'[m].untold \subseteq live[m].untold
               /\ \A c \in live[m].elsewhere : conn'[c] = None \/ c \in live'[m].elsewhere,
           \A c \in Connections : conn'[c] # None =>
               conn[c] = None \/ conn'[c].at = conn[c].at,
           \A s \in Slots : sockReq[s].op \in {"finished", "round"} => Remains(s)
    PROVE  ResultReachesProcess'
  <1> SUFFICES ASSUME NEW m \in Fixtures, live'[m] # None,
                      NEW c \in live'[m].untold, c \notin live'[m].elsewhere
               PROVE  ToTell(conn[c].at, m)'
    BY DEF ResultReachesProcess, ToTell
  <1>1. /\ live[m] # None /\ c \in live[m].untold
        /\ c \in Connections /\ conn'[c] # None
    BY DEF SocketsTyped, Fixture, AllSound, MatchSound
  <1>2. c \notin live[m].elsewhere
    BY <1>1
  <1>3. conn[c] # None /\ conn'[c].at = conn[c].at
    BY <1>1 DEF SocketsInv, AllSound, MatchSound
  <1>4. PICK s \in Slots : /\ sockReq[s].match = m /\ sockReq[s].at = conn[c].at
                           /\ \/ sockReq[s].op = "finished"
                              \/ sockReq[s].op = "round" /\ sockReq[s].final
    BY <1>1, <1>2 DEF SocketsInv, ResultReachesProcess, Pending, Awaits
  <1>5. sockReq'[s] = sockReq[s]
    BY <1>1, <1>3, <1>4 DEF Remains
  <1> QED BY <1>3, <1>4, <1>5 DEF ToTell, Pending, Awaits

-----------------------------------------------------------------------------
\* The players of a match keep their connections.
LEMMA MatchSoundStays ==
    ASSUME NEW l \in Fixture, NEW j, NEW k, MatchSound(l, j),
           \A c \in Connections : j[c] # None =>
               k[c] # None /\ k[c].user = j[c].user /\ k[c].at = j[c].at
    PROVE  MatchSound(l, k)
  <1>1. l.untold \subseteq Connections /\ l.elsewhere \subseteq Connections
    BY DEF Fixture
  <1> QED BY <1>1 DEF MatchSound

\* A match goes on, or ends, and a slot that had nothing to emit has to (code:
\* the transactions of the match, before anything is emitted).
LEMMA MatchStep ==
    ASSUME SocketsInv, NEW m \in Fixtures, live[m] # None,
           NEW x \in Fixture, live' = [live EXCEPT ![m] = x], conn' = conn,
           x.red = live[m].red, x.blue = live[m].blue, x.told = live[m].told,
           live[m].round <= x.round, MatchSound(x, conn),
           x.phase # "over" => live[m].phase # "over",
           x.phase = "pick" => \/ live[m].round < x.round
                               \/ live[m].phase = "pick" /\ x.round = live[m].round,
           sockReq' \in [Slots -> SocketRequest],
           \A s \in Slots : \/ sockReq'[s] = sockReq[s]
                           \/ /\ sockReq[s].op \in {"idle", "gone"}
                              /\ ReqSound(sockReq'[s], live') /\ sockReq'[s].to = {},
           \/ x.untold = live[m].untold /\ x.elsewhere = live[m].elsewhere
           \/ /\ x.phase = "over"
              /\ \A c \in x.untold \ x.elsewhere : ToTell(conn[c].at, m)'
    PROVE  SocketsInv'
  <1>1. live \in [Fixtures -> Fixture \cup {None}] /\ x # None
    BY SocketRowsAssumption DEF SocketsInv, SocketsTyped
  <1>2. \A n \in Fixtures : live'[n] = IF n = m THEN x ELSE live[n]
    BY <1>1
  <1>3. SocketsTyped'
    BY <1>1 DEF SocketsInv, SocketsTyped
  <1>4. Grows(live, live')
    <2>1. \A n \in Fixtures : live[n] # None => live[n].round \in Nat
      BY <1>1, SocketsAssumption DEF Fixture
    <2> QED BY <2>1, <1>1, <1>2 DEF Grows
  <1>5. AllSound'
    <2>1. \A n \in Fixtures : live'[n] # None => MatchSound(live'[n], conn')
      BY <1>2 DEF SocketsInv, AllSound
    <2>2. \A c \in Connections : conn'[c] # None => Heard(conn'[c], live')
      <3> SUFFICES ASSUME NEW c \in Connections, conn[c] # None
                   PROVE  Heard(conn[c], live')
        OBVIOUS
      <3>1. conn[c] \in Connection /\ Heard(conn[c], live)
        BY DEF SocketsInv, SocketsTyped, AllSound
      <3>2. live' \in [Fixtures -> Fixture \cup {None}]
        BY <1>3 DEF SocketsTyped
      <3> QED BY <3>1, <3>2, <1>1, <1>4, HeardStays
    <2>3. \A s \in Slots : ReqSound(sockReq'[s], live')
      <3> SUFFICES ASSUME NEW s \in Slots, sockReq'[s] = sockReq[s]
                   PROVE  ReqSound(sockReq[s], live')
        OBVIOUS
      <3>1. sockReq[s] \in SocketRequest /\ ReqSound(sockReq[s], live)
        BY DEF SocketsInv, SocketsTyped, AllSound
      <3>2. live' \in [Fixtures -> Fixture \cup {None}]
        BY <1>3 DEF SocketsTyped
      <3> QED BY <3>1, <3>2, <1>1, <1>4, ReqStays
    <2>4. \A s \in Slots : Listed(sockReq'[s], conn')
      BY DEF SocketsInv, AllSound, Listed
    <2>5. \A c \in Connections : conn'[c] # None /\ conn'[c].step = "ready"
                                   => conn'[c].found = {}
      BY DEF SocketsInv, AllSound
    <2> QED BY <2>1, <2>2, <2>3, <2>4, <2>5 DEF AllSound
  <1>6. Subscribing'
    <2>1. \A n \in Fixtures : Active(n)' =>
              /\ Active(n) /\ live'[n].told = live[n].told
              /\ \A c \in live[n].elsewhere : conn'[c] = None \/ c \in live'[n].elsewhere
      BY <1>2 DEF Active
    <2>2. \A s \in Slots : sockReq[s].op = "created" => Remains(s)
      BY DEF Remains
    <2> QED BY <2>1, <2>2, KeepsSubscribing
  <1>7. PickerSeesCards'
    <2> SUFFICES ASSUME NEW n \in Fixtures, live'[n] # None, live'[n].phase = "pick",
                        NEW c \in Connections, conn[c] # None,
                        conn[c].user = Picker(n)',
                        conn[c].last = [match |-> n, round |-> live'[n].round]
                 PROVE  \E s \in Slots : Awaits(s, "cards")' /\ sockReq'[s].match = n
                                                             /\ c \in sockReq'[s].to
      BY DEF PickerSeesCards, Owned, Up
    <2>1. live[n] # None /\ Picker(n)' = PickerOf(live[n], live'[n].round)
      BY <1>2 DEF Picker, PickerOf
    <2>2. live'[n].round <= live[n].round
      <3>1. live'[n].round \in 0..MaxRound
        BY <1>3 DEF SocketsTyped, Fixture
      <3>2. conn[c].last \in Blank
        BY <3>1 DEF Blank
      <3>3. conn[c].last # None
        BY <3>2, SocketRowsAssumption
      <3> QED BY <3>3 DEF SocketsInv, AllSound, Heard
    <2>3. live[n].phase = "pick" /\ live'[n].round = live[n].round
      <3>1. live'[n].round \in Nat /\ live[n].round \in Nat
        BY <2>1, <1>3, SocketsAssumption DEF SocketsInv, SocketsTyped, Fixture
      <3> QED BY <3>1, <2>2, <1>2
    <2>4. c \in Owned({Picker(n)})
      BY <2>1, <2>3 DEF Owned, Up, Picker, PickerOf
    <2>5. PICK s \in Slots : Awaits(s, "cards") /\ sockReq[s].match = n /\ c \in sockReq[s].to
      BY <2>1, <2>3, <2>4 DEF SocketsInv, PickerSeesCards
    <2>6. sockReq'[s] = sockReq[s]
      BY <2>5 DEF Awaits
    <2> QED BY <2>5, <2>6 DEF Awaits
  <1>8. ResultReachesProcess'
    <2> SUFFICES ASSUME NEW n \in Fixtures, live'[n] # None,
                        NEW c \in live'[n].untold, c \notin live'[n].elsewhere
                 PROVE  ToTell(conn[c].at, n)'
      BY DEF ResultReachesProcess, ToTell
    <2>1. CASE n = m /\ ~(x.untold = live[m].untold /\ x.elsewhere = live[m].elsewhere)
      BY <2>1, <1>2
    <2>2. CASE n # m \/ (x.untold = live[m].untold /\ x.elsewhere = live[m].elsewhere)
      <3>1. live[n] # None /\ c \in live[n].untold \ live[n].elsewhere
        BY <2>2, <1>2
      <3>2. ToTell(conn[c].at, n)
        BY <3>1 DEF SocketsInv, ResultReachesProcess, ToTell
      <3> QED BY <3>2 DEF ToTell, Pending, Awaits
    <2> QED BY <2>1, <2>2
  <1> QED BY <1>3, <1>5, <1>6, <1>7, <1>8 DEF SocketsInv

\* What an emission may do to a connection: x becomes y.
Emitted(x, y, l) ==
    /\ y.user = x.user /\ y.at = x.at /\ y.step = x.step /\ y.found = x.found
    /\ x.rooms \subseteq y.rooms
    /\ \A m \in y.rooms \ x.rooms : l[m] # None
    /\ \/ y.last = x.last
       \/ y.last = None
       \/ l[y.last.match] # None /\ y.last.round <= l[y.last.match].round

\* What it may do to a match: its players are told.
Announced(l, n) ==
    \/ n = l
    \/ n.untold \subseteq l.untold /\ n = [l EXCEPT !.untold = n.untold]

LEMMA NothingEmitted == \A x, l : Emitted(x, x, l) /\ Announced(x, x)
  <1> SUFFICES ASSUME NEW x, NEW l PROVE Emitted(x, x, l) /\ Announced(x, x)
    OBVIOUS
  <1>1. \A m \in x.rooms \ x.rooms : l[m] # None
    OBVIOUS
  <1>2. x.rooms \subseteq x.rooms
    OBVIOUS
  <1>3. Emitted(x, x, l)
    BY <1>1, <1>2 DEF Emitted
  <1>4. Announced(x, x)
    BY DEF Announced
  <1> QED BY <1>3, <1>4

\* An emission keeps the sound parts; what it means for the three properties is
\* shown for each handler (code: everything after the commit).
LEMMA EmitStep ==
    ASSUME SocketsInv, NEW s \in Slots, NEW r \in SocketRequest,
           SetSocketRequest(s, r), ReqSound(r, live), Listed(r, conn),
           conn' \in [Connections -> Connection \cup {None}],
           \A c \in Connections : conn'[c] = None <=> conn[c] = None,
           \A c \in Connections : conn[c] # None => Emitted(conn[c], conn'[c], live),
           live' \in [Fixtures -> Fixture \cup {None}],
           \A m \in Fixtures : live'[m] = None <=> live[m] = None,
           \A m \in Fixtures : live[m] # None => Announced(live[m], live'[m])
    PROVE  /\ SocketsTyped' /\ AllSound'
           /\ \A t \in Slots : sockReq'[t] = IF t = s THEN r ELSE sockReq[t]
           /\ \A m \in Fixtures : live[m] # None =>
                 /\ live'[m].red = live[m].red /\ live'[m].blue = live[m].blue
                 /\ live'[m].phase = live[m].phase /\ live'[m].round = live[m].round
                 /\ live'[m].told = live[m].told
                 /\ live'[m].elsewhere = live[m].elsewhere
                 /\ live'[m].untold \subseteq live[m].untold
  <1>1. /\ live \in [Fixtures -> Fixture \cup {None}]
        /\ conn \in [Connections -> Connection \cup {None}]
        /\ sockReq \in [Slots -> SocketRequest]
    BY DEF SocketsInv, SocketsTyped
  <1>2. \A t \in Slots : sockReq'[t] = IF t = s THEN r ELSE sockReq[t]
    BY <1>1 DEF SetSocketRequest
  <1>3. SocketsTyped'
    BY <1>1 DEF SocketsTyped, SetSocketRequest
  <1>4. ASSUME NEW m \in Fixtures, live[m] # None
        PROVE  /\ live'[m].red = live[m].red /\ live'[m].blue = live[m].blue
               /\ live'[m].phase = live[m].phase /\ live'[m].round = live[m].round
               /\ live'[m].told = live[m].told
               /\ live'[m].elsewhere = live[m].elsewhere
               /\ live'[m].untold \subseteq live[m].untold
    <2>1. live[m] \in Fixture /\ Announced(live[m], live'[m])
      BY <1>1, <1>4
    <2> QED BY <2>1 DEF Announced, Fixture
  <1>5. Grows(live, live')
    <2>1. \A m \in Fixtures : live[m] # None => live[m].round \in Nat
      BY <1>1, SocketsAssumption DEF Fixture
    <2> QED BY <2>1, <1>4 DEF Grows
  <1>6. \A m \in Fixtures : live'[m] # None => MatchSound(live'[m], conn')
    <2> SUFFICES ASSUME NEW m \in Fixtures, live'[m] # None
                 PROVE  MatchSound(live'[m], conn')
      OBVIOUS
    <2>1. live[m] \in Fixture /\ MatchSound(live[m], conn)
      BY <1>1 DEF SocketsInv, AllSound
    <2>2. MatchSound(live[m], conn')
      BY <2>1, MatchSoundStays DEF Emitted
    <2> QED BY <2>2, <1>4 DEF MatchSound
  <1>7. \A c \in Connections : conn'[c] # None => Heard(conn'[c], live')
    <2> SUFFICES ASSUME NEW c \in Connections, conn'[c] # None
                 PROVE  Heard(conn'[c], live')
      OBVIOUS
    <2>1. /\ conn[c] # None /\ Emitted(conn[c], conn'[c], live) /\ conn'[c] \in Connection
      OBVIOUS
    <2>2. Heard(conn[c], live)
      BY <2>1 DEF SocketsInv, AllSound
    <2>3. Heard(conn'[c], live)
      BY <2>1, <2>2 DEF Emitted, Heard
    <2> QED BY <2>1, <2>3, <1>1, <1>5, HeardStays
  <1>8. \A c \in Connections : conn'[c] # None /\ conn'[c].step = "ready" => conn'[c].found = {}
    BY DEF SocketsInv, AllSound, Emitted
  <1>9. \A t \in Slots : ReqSound(sockReq'[t], live')
    <2> SUFFICES ASSUME NEW t \in Slots PROVE ReqSound(sockReq'[t], live')
      OBVIOUS
    <2>1. sockReq'[t] \in SocketRequest
      BY <1>3 DEF SocketsTyped
    <2>2. ReqSound(sockReq'[t], live)
      BY <1>2 DEF SocketsInv, AllSound
    <2> QED BY <2>1, <2>2, <1>1, <1>5, ReqStays
  <1>10. \A t \in Slots : Listed(sockReq'[t], conn')
    <2> SUFFICES ASSUME NEW t \in Slots, NEW c \in sockReq'[t].to, conn'[c] # None
                 PROVE  conn'[c].at = sockReq'[t].at
      BY DEF Listed
    <2>1. c \in Connections
      BY <1>3 DEF SocketsTyped, SocketRequest
    <2>2. conn[c] # None /\ conn'[c].at = conn[c].at
      BY <2>1 DEF Emitted
    <2> QED BY <2>2, <1>2 DEF SocketsInv, AllSound, Listed
  <1>11. AllSound'
    BY <1>6, <1>7, <1>8, <1>9, <1>10 DEF AllSound
  <1> QED BY <1>2, <1>3, <1>4, <1>11

\* Which connections a room's packet reaches, and that they stay (code: emit).
LEMMA GotFacts ==
    ASSUME SocketsTyped, NEW C, C \subseteq Up, NEW p \in Blank \cup {None},
           conn' = Got(C, p)
    PROVE  /\ conn' \in [Connections -> Connection \cup {None}]
           /\ \A c \in Connections : conn'[c] = None <=> conn[c] = None
           /\ \A c \in Connections \ C : conn'[c] = conn[c]
           /\ \A c \in C : conn'[c] = [conn[c] EXCEPT !.last = p]
  <1>1. \A c \in C : c \in Connections /\ conn[c] \in Connection
    BY DEF SocketsTyped, Up
  <1>2. \A c \in C : [conn[c] EXCEPT !.last = p] \in Connection
    BY <1>1 DEF Connection
  <1>3. \A c \in Connections : conn'[c] = IF c \in C THEN [conn[c] EXCEPT !.last = p]
                                                   ELSE conn[c]
    BY DEF Got
  <1>4. conn' \in [Connections -> Connection \cup {None}]
    BY <1>2, <1>3 DEF Got, SocketsTyped
  <1>5. \A c \in Connections : conn'[c] = None <=> conn[c] = None
    BY <1>1, <1>2, <1>3, SocketRowsAssumption
  <1> QED BY <1>1, <1>3, <1>4, <1>5

-----------------------------------------------------------------------------
(* Connections. *)

LEMMA ConnectInv ==
    ASSUME SocketsInv, NEW c \in Connections, NEW i \in Processes,
           NEW u \in Users \cup {None}, NEW plugin \in BOOLEAN, Connect(c, i, u, plugin)
    PROVE  SocketsInv'
  <1> DEFINE x == [user |-> u, plugin |-> plugin, at |-> i,
                   step |-> IF u = None THEN "ready" ELSE "connected",
                   found |-> {}, rooms |-> {}, last |-> None]
  <1>1. /\ x \in Connection /\ x.user = u /\ x.found = {} /\ x.rooms = {}
        /\ x.last = None /\ (x.step = "connected" \/ u = None)
    BY DEF Connection
  <1>2. /\ conn' = [conn EXCEPT ![c] = x]
        /\ conn[c] = None /\ live' = live /\ sockReq' = sockReq
        /\ \A s \in Slots : c \notin sockReq[s].to
    BY DEF Connect
  <1> HIDE DEF x
  <1>3. \A d \in Connections : conn'[d] = IF d = c THEN x ELSE conn[d]
    BY <1>2 DEF SocketsInv, SocketsTyped
  <1>4. SocketsTyped'
    BY <1>1, <1>2 DEF SocketsInv, SocketsTyped
  <1>5. AllSound'
    <2>1. \A m \in Fixtures : live'[m] # None => MatchSound(live'[m], conn')
      <3> SUFFICES ASSUME NEW m \in Fixtures, live[m] # None
                   PROVE  MatchSound(live[m], conn')
        BY <1>2
      <3>1. MatchSound(live[m], conn) /\ live[m] \in Fixture
        BY DEF SocketsInv, AllSound, SocketsTyped
      <3>2. \A d \in Connections : conn[d] # None =>
                conn'[d] # None /\ conn'[d].user = conn[d].user /\ conn'[d].at = conn[d].at
        BY <1>2, <1>3
      <3> QED BY <3>1, <3>2, MatchSoundStays
    <2>2. Heard(x, live)
      BY <1>1 DEF Heard
    <2>3. \A s \in Slots : Listed(sockReq'[s], conn')
      <3> SUFFICES ASSUME NEW s \in Slots, NEW d \in sockReq[s].to, conn'[d] # None
                   PROVE  conn'[d].at = sockReq[s].at
        BY <1>2 DEF Listed
      <3>1. d \in Connections /\ d # c
        BY <1>2 DEF SocketsInv, SocketsTyped, SocketRequest
      <3> QED BY <3>1, <1>3 DEF SocketsInv, AllSound, Listed
    <2> QED BY <2>1, <2>2, <2>3, <1>1, <1>2, <1>3 DEF SocketsInv, AllSound
  <1>6. Subscribing'
    <2> SUFFICES ASSUME NEW m \in Fixtures, Active(m),
                        NEW d \in Connections, conn'[d] # None,
                        conn'[d].user \in live[m].told, d \notin live[m].elsewhere,
                        conn'[d].step # "connected"
                 PROVE  m \in conn'[d].rooms \cup conn'[d].found
                        \/ Pending(conn[d].at, "created", m)'
      BY <1>2 DEF Subscribing, Owned, Up, Active
    <2>1. live[m].told \subseteq Users
      BY DEF Active, SocketsInv, SocketsTyped, Fixture
    <2>2. d # c
      BY <2>1, <1>1, <1>3, SocketsAssumption
    <2> QED BY <2>2, <1>2, <1>3
            DEF SocketsInv, Subscribing, Owned, Up, Pending, Awaits
  <1>7. PickerSeesCards'
    BY <1>1, <1>2, <1>3, KeepsPicker DEF Remains
  <1>8. ResultReachesProcess'
    BY <1>2, <1>3, <1>4, <1>5, KeepsResult DEF Remains
  <1> QED BY <1>4, <1>5, <1>6, <1>7, <1>8 DEF SocketsInv

\* A connection reads its matches or joins rooms.
LEMMA ConnectionStep ==
    ASSUME SocketsInv, NEW c \in Connections, conn[c] # None, NEW x \in Connection,
           conn' = [conn EXCEPT ![c] = x], live' = live, sockReq' = sockReq,
           x.user = conn[c].user, x.at = conn[c].at, x.last = conn[c].last,
           \A m \in x.rooms \cup x.found : live[m] # None,
           x.step = "ready" => x.found = {},
           Subscribing'
    PROVE  SocketsInv'
  <1>1. x # None
    BY SocketRowsAssumption
  <1>2. \A d \in Connections : conn'[d] = IF d = c THEN x ELSE conn[d]
    BY DEF SocketsInv, SocketsTyped
  <1>3. SocketsTyped'
    BY DEF SocketsInv, SocketsTyped
  <1>4. AllSound'
    <2>1. \A m \in Fixtures : live'[m] # None => MatchSound(live'[m], conn')
      <3> SUFFICES ASSUME NEW m \in Fixtures, live[m] # None
                   PROVE  MatchSound(live[m], conn')
        OBVIOUS
      <3>1. MatchSound(live[m], conn) /\ live[m] \in Fixture
        BY DEF SocketsInv, AllSound, SocketsTyped
      <3>2. \A d \in Connections : conn[d] # None =>
                conn'[d] # None /\ conn'[d].user = conn[d].user /\ conn'[d].at = conn[d].at
        BY <1>1, <1>2
      <3> DEFINE k == conn'
      <3>3. \A d \in Connections : conn[d] # None =>
                k[d] # None /\ k[d].user = conn[d].user /\ k[d].at = conn[d].at
        BY <3>2
      <3> HIDE DEF k
      <3>4. MatchSound(live[m], k)
        BY <3>1, <3>3, MatchSoundStays
      <3> QED BY <3>4 DEF k
    <2>2. Heard(x, live)
      BY DEF Heard, SocketsInv, AllSound
    <2>3. \A s \in Slots : Listed(sockReq'[s], conn')
      <3> SUFFICES ASSUME NEW s \in Slots, NEW d \in sockReq[s].to, conn'[d] # None
                   PROVE  conn'[d].at = sockReq[s].at
        BY DEF Listed
      <3>1. d \in Connections
        BY DEF SocketsInv, SocketsTyped, SocketRequest
      <3> QED BY <3>1, <1>2 DEF SocketsInv, AllSound, Listed
    <2> QED BY <2>1, <2>2, <2>3, <1>2 DEF SocketsInv, AllSound
  <1>5. PickerSeesCards'
    BY <1>2, KeepsPicker DEF Remains
  <1>6. ResultReachesProcess'
    BY <1>2, <1>3, <1>4, KeepsResult DEF Remains
  <1> QED BY <1>3, <1>4, <1>5, <1>6 DEF SocketsInv

LEMMA RestoreReadInv ==
    ASSUME SocketsInv, NEW c \in Connections, RestoreRead(c)
    PROVE  SocketsInv'
  <1> DEFINE own == {m \in Fixtures : Active(m) /\ conn[c].user \in Seated(m)}
             x == [conn[c] EXCEPT !.step = "restoring", !.found = own]
  <1>1. conn[c] \in Connection /\ conn[c] # None /\ conn[c].step = "connected"
    BY DEF RestoreRead, SocketsInv, SocketsTyped
  <1>2. /\ conn' = [conn EXCEPT ![c] = x] /\ live' = live /\ sockReq' = sockReq
    BY DEF RestoreRead
  <1>3. own \in SUBSET Fixtures
    OBVIOUS
  <1>4. /\ x \in Connection /\ x.user = conn[c].user /\ x.last = conn[c].last
        /\ x.at = conn[c].at
        /\ x.rooms = conn[c].rooms /\ x.found = own /\ x.step = "restoring"
    <2> HIDE DEF own
    <2> QED BY <1>1, <1>3 DEF Connection
  <1> HIDE DEF x
  <1>5. \A m \in x.rooms \cup x.found : live[m] # None
    BY <1>1, <1>4 DEF Active, SocketsInv, AllSound, Heard
  <1>6. \A d \in Connections : conn'[d] = IF d = c THEN x ELSE conn[d]
    BY <1>2 DEF SocketsInv, SocketsTyped
  <1>7. Subscribing'
    <2> SUFFICES ASSUME NEW m \in Fixtures, Active(m),
                        NEW d \in Connections, conn'[d] # None,
                        conn'[d].user \in live[m].told, d \notin live[m].elsewhere,
                        conn'[d].step # "connected"
                 PROVE  m \in conn'[d].rooms \cup conn'[d].found
                        \/ Pending(conn[d].at, "created", m)'
      BY <1>2 DEF Subscribing, Owned, Up, Active
    <2>1. CASE d = c
      <3>1. live[m].told \subseteq Seated(m)
        BY DEF Active, Seated, SocketsInv, AllSound, MatchSound
      <3> QED BY <3>1, <2>1, <1>4, <1>6
    <2>2. CASE d # c
      BY <2>2, <1>2, <1>6 DEF SocketsInv, Subscribing, Owned, Up, Pending, Awaits
    <2> QED BY <2>1, <2>2
  <1> HIDE DEF own
  <1> QED BY <1>1, <1>2, <1>4, <1>5, <1>7, ConnectionStep

\* Joining rooms takes nothing away.
LEMMA JoinRooms ==
    ASSUME SocketsInv, NEW c \in Connections, conn[c] # None, NEW x \in Connection,
           conn' = [conn EXCEPT ![c] = x], live' = live, sockReq' = sockReq,
           x.user = conn[c].user, x.at = conn[c].at, x.last = conn[c].last,
           \A m \in x.rooms \cup x.found : live[m] # None,
           x.step = "ready" => x.found = {},
           x.step # "connected" => conn[c].step # "connected",
           conn[c].rooms \cup conn[c].found \subseteq x.rooms \cup x.found
    PROVE  SocketsInv'
  <1>1. \A d \in Connections : conn'[d] = IF d = c THEN x ELSE conn[d]
    BY DEF SocketsInv, SocketsTyped
  <1>2. \A m \in Fixtures : Active(m)' =>
            /\ Active(m) /\ live'[m].told = live[m].told
            /\ \A d \in live[m].elsewhere : conn'[d] = None \/ d \in live'[m].elsewhere
    BY DEF Active
  <1>3. Subscribing'
    BY <1>1, <1>2, KeepsSubscribing DEF Remains
  <1> QED BY <1>3, ConnectionStep

LEMMA RestoreJoinInv ==
    ASSUME SocketsInv, NEW c \in Connections, RestoreJoin(c)
    PROVE  SocketsInv'
  <1> DEFINE x == [conn[c] EXCEPT !.step = "ready", !.found = {},
                                  !.rooms = conn[c].rooms \cup conn[c].found]
  <1>1. conn[c] \in Connection /\ conn[c] # None /\ conn[c].step # "connected"
    BY DEF RestoreJoin, SocketsInv, SocketsTyped
  <1>2. conn' = [conn EXCEPT ![c] = x] /\ live' = live /\ sockReq' = sockReq
    BY <1>1 DEF RestoreJoin, Connection, SocketsInv, SocketsTyped
  <1>3. /\ x \in Connection /\ x.user = conn[c].user /\ x.last = conn[c].last
        /\ x.at = conn[c].at
        /\ x.rooms = conn[c].rooms \cup conn[c].found /\ x.found = {}
    BY <1>1 DEF Connection
  <1> HIDE DEF x
  <1>4. \A m \in x.rooms \cup x.found : live[m] # None
    BY <1>1, <1>3 DEF SocketsInv, AllSound, Heard
  <1> QED BY <1>1, <1>2, <1>3, <1>4, JoinRooms

LEMMA WatchInv ==
    ASSUME SocketsInv, NEW c \in Connections, NEW m \in Fixtures, WatchMatch(c, m)
    PROVE  SocketsInv'
  <1> DEFINE x == [conn[c] EXCEPT !.rooms = conn[c].rooms \cup {m}]
  <1>1. conn[c] \in Connection /\ conn[c] # None /\ live[m] # None
    BY DEF WatchMatch, SocketsInv, SocketsTyped
  <1>2. conn' = [conn EXCEPT ![c] = x] /\ live' = live /\ sockReq' = sockReq
    BY <1>1 DEF WatchMatch, Connection, SocketsInv, SocketsTyped
  <1>3. /\ x \in Connection /\ x.user = conn[c].user /\ x.last = conn[c].last
        /\ x.at = conn[c].at
        /\ x.rooms = conn[c].rooms \cup {m} /\ x.found = conn[c].found
        /\ x.step = conn[c].step
    BY <1>1 DEF Connection
  <1> HIDE DEF x
  <1>4. /\ \A n \in x.rooms \cup x.found : live[n] # None
        /\ x.step = "ready" => x.found = {}
    BY <1>1, <1>3 DEF SocketsInv, AllSound, Heard
  <1> QED BY <1>1, <1>2, <1>3, <1>4, JoinRooms

\* What is left of the matches.
LEMMA WithoutFacts ==
    ASSUME SocketsTyped, NEW C \in SUBSET Connections
    PROVE  /\ Without(C) \in [Fixtures -> Fixture \cup {None}]
           /\ \A m \in Fixtures : live[m] = None => Without(C)[m] = None
           /\ \A m \in Fixtures : live[m] # None =>
                 LET x == Without(C)[m] IN
                 /\ x \in Fixture /\ x # None
                 /\ x.red = live[m].red /\ x.blue = live[m].blue
                 /\ x.phase = live[m].phase /\ x.round = live[m].round
                 /\ x.told = live[m].told
                 /\ x.untold = live[m].untold \ C
                 /\ x.elsewhere = live[m].elsewhere \ C
  <1> DEFINE y(m) == [live[m] EXCEPT !.untold = @ \ C, !.elsewhere = @ \ C]
  <1>1. ASSUME NEW m \in Fixtures, live[m] # None
        PROVE  /\ y(m) \in Fixture /\ y(m) # None
               /\ y(m).red = live[m].red /\ y(m).blue = live[m].blue
               /\ y(m).phase = live[m].phase /\ y(m).round = live[m].round
               /\ y(m).told = live[m].told
               /\ y(m).untold = live[m].untold \ C
               /\ y(m).elsewhere = live[m].elsewhere \ C
    <2>1. live[m] \in Fixture
      BY <1>1 DEF SocketsTyped
    <2> QED BY <2>1, SocketRowsAssumption DEF Fixture
  <1>2. Without(C) = [m \in Fixtures |-> IF live[m] = None THEN None ELSE y(m)]
    BY DEF Without
  <1> HIDE DEF y
  <1>3. \A m \in Fixtures : Without(C)[m] = IF live[m] = None THEN None ELSE y(m)
    BY <1>2
  <1>4. Without(C) \in [Fixtures -> Fixture \cup {None}]
    BY <1>1, <1>2
  <1> QED BY <1>1, <1>3, <1>4

\* The connections of C are lost; of them nobody is still to be told.
LEMMA LosesInv ==
    ASSUME SocketsInv, NEW C \in SUBSET Connections,
           conn' = [c \in Connections |-> IF c \in C THEN None ELSE conn[c]],
           live' = Without(C),
           sockReq' \in [Slots -> SocketRequest],
           \A s \in Slots : /\ ReqSound(sockReq'[s], live)
                            /\ sockReq'[s] = sockReq[s] \/ sockReq'[s].to = {}
                            /\ sockReq[s].op # "idle" => Remains(s)
    PROVE  SocketsInv'
  <1>1. live \in [Fixtures -> Fixture \cup {None}]
    BY DEF SocketsInv, SocketsTyped
  <1>2. ASSUME NEW m \in Fixtures, live[m] # None
        PROVE  /\ live'[m] \in Fixture /\ live'[m] # None
               /\ live'[m].red = live[m].red /\ live'[m].blue = live[m].blue
               /\ live'[m].phase = live[m].phase /\ live'[m].round = live[m].round
               /\ live'[m].told = live[m].told
               /\ live'[m].untold = live[m].untold \ C
               /\ live'[m].elsewhere = live[m].elsewhere \ C
    BY <1>2, WithoutFacts DEF SocketsInv
  <1>3. \A m \in Fixtures : live[m] = None => live'[m] = None
    BY WithoutFacts DEF SocketsInv
  <1>4. SocketsTyped'
    <2>1. live' \in [Fixtures -> Fixture \cup {None}]
      BY WithoutFacts DEF SocketsInv
    <2> QED BY <2>1 DEF SocketsInv, SocketsTyped
  <1>5. Grows(live, live')
    <2>1. \A m \in Fixtures : live[m] # None => live[m].round \in Nat
      BY <1>1, SocketsAssumption DEF Fixture
    <2>2. \A m \in Fixtures : live[m] # None =>
              /\ live'[m] # None /\ live'[m].round = live[m].round
              /\ live'[m].red = live[m].red /\ live'[m].blue = live[m].blue
      BY <1>2
    <2>3. \A m \in Fixtures : live[m] # None => live[m].round <= live'[m].round
      BY <2>1, <2>2
    <2> QED BY <2>2, <2>3 DEF Grows
  <1>6. AllSound'
    <2>1. \A m \in Fixtures : live'[m] # None => MatchSound(live'[m], conn')
      <3> SUFFICES ASSUME NEW m \in Fixtures, live'[m] # None
                   PROVE  MatchSound(live'[m], conn')
        OBVIOUS
      <3>1. live[m] # None /\ MatchSound(live[m], conn) /\ live[m] \in Fixture
        BY <1>1, <1>3 DEF SocketsInv, AllSound
      <3>2. live[m].untold \subseteq Connections /\ live[m].elsewhere \subseteq Connections
        BY <3>1 DEF Fixture
      <3>3. \A c \in Connections \ C : conn'[c] = conn[c]
        OBVIOUS
      <3> DEFINE x == live'[m]
                 k == conn'
      <3>4. /\ x.red = live[m].red /\ x.blue = live[m].blue /\ x.phase = live[m].phase
            /\ x.round = live[m].round /\ x.told = live[m].told
            /\ x.untold = live[m].untold \ C /\ x.elsewhere = live[m].elsewhere \ C
            /\ \A c \in Connections \ C : k[c] = conn[c]
        BY <3>1, <3>3, <1>2
      <3> HIDE DEF x, k
      <3>5. MatchSound(x, k)
        BY <3>1, <3>2, <3>4 DEF MatchSound
      <3> QED BY <3>5 DEF x, k
    <2>2. \A c \in Connections : conn'[c] # None => Heard(conn'[c], live')
      <3> SUFFICES ASSUME NEW c \in Connections, conn[c] # None
                   PROVE  Heard(conn[c], live')
        OBVIOUS
      <3>1. conn[c] \in Connection /\ Heard(conn[c], live)
        BY DEF SocketsInv, SocketsTyped, AllSound
      <3> QED BY <3>1, <1>1, <1>4, <1>5, HeardStays DEF SocketsTyped
    <2>3. \A s \in Slots : ReqSound(sockReq'[s], live')
      <3> SUFFICES ASSUME NEW s \in Slots PROVE ReqSound(sockReq'[s], live')
        OBVIOUS
      <3>1. sockReq'[s] \in SocketRequest /\ ReqSound(sockReq'[s], live)
        OBVIOUS
      <3> QED BY <3>1, <1>1, <1>4, <1>5, ReqStays DEF SocketsTyped
    <2>4. \A s \in Slots : Listed(sockReq'[s], conn')
      <3> SUFFICES ASSUME NEW s \in Slots, NEW c \in sockReq'[s].to, conn'[c] # None
                   PROVE  conn'[c].at = sockReq'[s].at
        BY DEF Listed
      <3>1. sockReq'[s] = sockReq[s]
        OBVIOUS
      <3>2. c \in Connections
        BY <3>1 DEF SocketsInv, SocketsTyped, SocketRequest
      <3>3. conn'[c] = conn[c] /\ conn[c] # None
        BY <3>2
      <3> QED BY <3>1, <3>3 DEF SocketsInv, AllSound, Listed
    <2>5. \A c \in Connections : conn'[c] # None /\ conn'[c].step = "ready"
                                   => conn'[c].found = {}
      BY DEF SocketsInv, AllSound
    <2> QED BY <2>1, <2>2, <2>3, <2>4, <2>5 DEF AllSound
  <1>7. \A m \in Fixtures : \A c \in live[m].elsewhere :
            live[m] # None => conn'[c] = None \/ c \in live'[m].elsewhere
    <2> SUFFICES ASSUME NEW m \in Fixtures, NEW c \in live[m].elsewhere, live[m] # None
                 PROVE  conn'[c] = None \/ c \in live'[m].elsewhere
      OBVIOUS
    <2>1. c \in Connections
      BY <1>1 DEF Fixture
    <2> QED BY <2>1, <1>2
  <1>8. \A c \in Connections : conn'[c] # None => conn'[c] = conn[c]
    OBVIOUS
  <1>9. Subscribing'
    <2>1. \A m \in Fixtures : Active(m)' =>
              /\ Active(m) /\ live'[m].told = live[m].told
              /\ \A c \in live[m].elsewhere : conn'[c] = None \/ c \in live'[m].elsewhere
      BY <1>2, <1>3, <1>7 DEF Active
    <2>2. \A s \in Slots : sockReq[s].op = "created" => Remains(s)
      OBVIOUS
    <2> QED BY <2>1, <2>2, <1>8, KeepsSubscribing
  <1>10. PickerSeesCards'
    BY <1>2, <1>3, <1>8, KeepsPicker
  <1>11. ResultReachesProcess'
    <2>1. \A m \in Fixtures : live'[m] # None /\ live'[m].untold # {} =>
               /\ live[m] # None /\ live'[m].untold \subseteq live[m].untold
               /\ \A c \in live[m].elsewhere : conn'[c] = None \/ c \in live'[m].elsewhere
      BY <1>2, <1>3, <1>7
    <2>2. \A s \in Slots : sockReq[s].op \in {"finished", "round"} => Remains(s)
      OBVIOUS
    <2> QED BY <2>1, <2>2, <1>4, <1>6, <1>8, KeepsResult
  <1> QED BY <1>4, <1>6, <1>9, <1>10, <1>11 DEF SocketsInv

LEMMA DisconnectInv ==
    ASSUME SocketsInv, NEW c \in Connections, Disconnect(c)
    PROVE  SocketsInv'
  <1> DEFINE C == {c}
  <1>1. /\ conn[c] # None /\ conn' = [conn EXCEPT ![c] = None]
        /\ live' = Without(C)
    BY DEF Disconnect
  <1>2. conn' = [d \in Connections |-> IF d \in C THEN None ELSE conn[d]]
    BY <1>1 DEF SocketsInv, SocketsTyped
  <1>3. C \in SUBSET Connections
    OBVIOUS
  <1> HIDE DEF C
  <1>4. sockReq \in [Slots -> SocketRequest] /\ \A s \in Slots : ReqSound(sockReq[s], live)
    BY DEF SocketsInv, SocketsTyped, AllSound
  <1>5. CASE conn[c].plugin
    <2> DEFINE r == [NoSocketRequest EXCEPT
                    !.op = "gone", !.at = conn[c].at, !.user = conn[c].user]
    <2>1. conn[c] \in Connection
      BY <1>1 DEF SocketsInv, SocketsTyped
    <2>2. r \in SocketRequest /\ r.op = "gone" /\ r.at \in Processes /\ r.to = {}
      <3>1. conn[c].user \in Users \cup {None} /\ conn[c].at \in Processes
        BY <2>1 DEF Connection
      <3> QED BY <3>1, NoRequestSound DEF SocketRequest
    <2>3. PICK s \in Slots : sockReq[s].op = "idle" /\ sockReq' = [sockReq EXCEPT ![s] = r]
      BY <1>5 DEF Disconnect, Awaits, SetSocketRequest
    <2> HIDE DEF r
    <2>4. ReqSound(r, live)
      BY <2>2 DEF ReqSound
    <2>5. /\ sockReq' \in [Slots -> SocketRequest]
          /\ \A t \in Slots : sockReq'[t] = IF t = s THEN r ELSE sockReq[t]
      BY <2>2, <2>3, <1>4
    <2>6. \A t \in Slots : /\ ReqSound(sockReq'[t], live)
                           /\ sockReq'[t] = sockReq[t] \/ sockReq'[t].to = {}
      BY <2>2, <2>4, <2>5, <1>4
    <2>7. \A t \in Slots : sockReq[t].op # "idle" => Remains(t)
      BY <2>3, <2>5 DEF Remains
    <2>8. sockReq' \in [Slots -> SocketRequest]
      BY <2>5
    <2>9. live' = Without(C)
      BY <1>1
    <2> QED BY <2>6, <2>7, <2>8, <2>9, <1>2, <1>3, LosesInv
  <1>6. CASE ~conn[c].plugin
    <2>1. sockReq' = sockReq
      BY <1>6 DEF Disconnect
    <2>2. \A t \in Slots : Remains(t) /\ sockReq'[t] = sockReq[t]
      BY <2>1 DEF Remains
    <2> QED BY <2>1, <2>2, <1>1, <1>2, <1>4, <1>3, LosesInv
  <1> QED BY <1>5, <1>6

LEMMA CrashInv ==
    ASSUME SocketsInv, NEW i \in Processes, SocketsCrash(i)
    PROVE  SocketsInv'
  <1> DEFINE C == {c \in Up : conn[c].at = i}
  <1>1. /\ conn' = [c \in Connections |-> IF c \in C THEN None ELSE conn[c]]
        /\ live' = Without(C)
        /\ sockReq' = [s \in Slots |-> IF sockReq[s].at = i THEN NoSocketRequest
                                                           ELSE sockReq[s]]
    BY DEF SocketsCrash
  <1>2. C \in SUBSET Connections
    BY DEF Up
  <1>3. \A c \in Connections : conn'[c] # None => conn'[c].at # i
    BY <1>1 DEF Up
  <1> HIDE DEF C
  <1>4. sockReq \in [Slots -> SocketRequest] /\ \A s \in Slots : ReqSound(sockReq[s], live)
    BY DEF SocketsInv, SocketsTyped, AllSound
  <1>5. /\ sockReq' \in [Slots -> SocketRequest]
        /\ \A s \in Slots : /\ ReqSound(sockReq'[s], live)
                            /\ sockReq'[s] = sockReq[s] \/ sockReq'[s].to = {}
    BY <1>1, <1>4, NoRequestSound
  <1>6. \A s \in Slots : Remains(s)
    BY <1>1, <1>3 DEF Remains
  <1> QED BY <1>1, <1>2, <1>5, <1>6, LosesInv

-----------------------------------------------------------------------------
(* Matches. *)

\* A slot that was idle has something to emit for match m.
LEMMA StartsFacts ==
    ASSUME SocketsInv, NEW s \in Slots, NEW i \in Processes, NEW m \in Fixtures,
           NEW op \in {"created", "ready", "announce", "round", "finished"},
           Starts(s, i, op, m), live'[m] # None
    PROVE  /\ sockReq' \in [Slots -> SocketRequest]
           /\ \A t \in Slots : t # s => sockReq'[t] = sockReq[t]
           /\ sockReq[s].op = "idle"
           /\ sockReq'[s].op = op /\ sockReq'[s].at = i /\ sockReq'[s].match = m
           /\ ReqSound(sockReq'[s], live') /\ sockReq'[s].to = {}
  <1> DEFINE r == [NoSocketRequest EXCEPT !.op = op, !.at = i, !.match = m]
  <1>1. r \in SocketRequest /\ r.op = op /\ r.at = i /\ r.match = m
        /\ r.user = None /\ r.to = {}
    <2>1. NoSocketRequest.user = None /\ NoSocketRequest.to = {}
      BY DEF NoSocketRequest
    <2> QED BY <2>1, NoRequestSound DEF SocketRequest
  <1>2. sockReq[s].op = "idle" /\ sockReq' = [sockReq EXCEPT ![s] = r]
    BY DEF Starts, Awaits, SetSocketRequest
  <1> HIDE DEF r
  <1>3. sockReq \in [Slots -> SocketRequest]
    BY DEF SocketsInv, SocketsTyped
  <1>4. ReqSound(r, live')
    BY <1>1 DEF ReqSound
  <1> QED BY <1>1, <1>2, <1>3, <1>4

LEMMA MatchCommitInv ==
    ASSUME SocketsInv, NEW s \in Slots, NEW i \in Processes, NEW m \in Fixtures,
           NEW red \in Users, NEW blue \in Users, MatchCommit(s, i, m, red, blue)
    PROVE  SocketsInv'
  <1> DEFINE late(told) == {c \in Owned(told) : /\ conn[c].at # i
                                                 /\ conn[c].step # "connected"}
  <1>1. PICK told \in {{red, blue}, {red}, {}} :
          live' = [live EXCEPT ![m] =
             [red |-> red, blue |-> blue, phase |-> "discards", paused |-> FALSE,
              round |-> 0, told |-> told, untold |-> {}, elsewhere |-> late(told)]]
    BY DEF MatchCommit
  <1> DEFINE x == [red |-> red, blue |-> blue, phase |-> "discards", paused |-> FALSE,
                   round |-> 0, told |-> told, untold |-> {}, elsewhere |-> late(told)]
  <1>2. /\ x \in Fixture /\ x.phase = "discards" /\ x.round = 0 /\ x.untold = {}
        /\ x.told \subseteq {x.red, x.blue} /\ x.elsewhere = late(x.told)
        /\ x.told \subseteq Users
    <2>1. 0 \in 0..MaxRound
      BY SocketsAssumption
    <2>2. told \in SUBSET Users /\ told \subseteq {red, blue}
      OBVIOUS
    <2>3. "discards" \in Phases
      BY DEF Phases
    <2>4. late(told) \in SUBSET Connections
      BY DEF Owned, Up
    <2> HIDE DEF late
    <2> QED BY <2>1, <2>2, <2>3, <2>4 DEF Fixture
  <1> HIDE DEF x
  <1>3. live[m] = None /\ conn' = conn /\ Starts(s, i, "created", m)
    BY DEF MatchCommit
  <1>4. live \in [Fixtures -> Fixture \cup {None}] /\ x # None
    BY <1>2, SocketRowsAssumption DEF SocketsInv, SocketsTyped
  <1>5. \A n \in Fixtures : live'[n] = IF n = m THEN x ELSE live[n]
    BY <1>1, <1>4 DEF x
  <1>6. /\ sockReq' \in [Slots -> SocketRequest]
        /\ \A t \in Slots : t # s => sockReq'[t] = sockReq[t]
        /\ sockReq[s].op = "idle"
        /\ sockReq'[s].op = "created" /\ sockReq'[s].at = i /\ sockReq'[s].match = m
        /\ ReqSound(sockReq'[s], live') /\ sockReq'[s].to = {}
    BY <1>3, <1>4, <1>5, StartsFacts
  <1>7. live' \in [Fixtures -> Fixture \cup {None}]
    BY <1>1, <1>2, <1>4 DEF x
  <1>8. Grows(live, live')
    <2>1. \A n \in Fixtures : live[n] # None => live[n].round \in Nat
      BY <1>4, SocketsAssumption DEF Fixture
    <2> QED BY <2>1, <1>3, <1>5 DEF Grows
  <1>9. SocketsTyped'
    BY <1>3, <1>6, <1>7 DEF SocketsInv, SocketsTyped
  <1>10. AllSound'
    <2>1. MatchSound(x, conn)
      BY <1>2 DEF MatchSound, Owned, Up
    <2>2. \A n \in Fixtures : live'[n] # None => MatchSound(live'[n], conn')
      BY <2>1, <1>3, <1>5 DEF SocketsInv, AllSound
    <2>3. \A c \in Connections : conn'[c] # None => Heard(conn'[c], live')
      <3> SUFFICES ASSUME NEW c \in Connections, conn[c] # None
                   PROVE  Heard(conn[c], live')
        BY <1>3
      <3>1. conn[c] \in Connection /\ Heard(conn[c], live)
        BY DEF SocketsInv, SocketsTyped, AllSound
      <3> QED BY <3>1, <1>4, <1>7, <1>8, HeardStays
    <2>4. \A t \in Slots : ReqSound(sockReq'[t], live')
      <3> SUFFICES ASSUME NEW t \in Slots, t # s PROVE ReqSound(sockReq[t], live')
        BY <1>6
      <3>1. sockReq[t] \in SocketRequest /\ ReqSound(sockReq[t], live)
        BY DEF SocketsInv, SocketsTyped, AllSound
      <3> QED BY <3>1, <1>4, <1>7, <1>8, ReqStays
    <2>5. \A t \in Slots : Listed(sockReq'[t], conn')
      BY <1>3, <1>6 DEF SocketsInv, AllSound, Listed
    <2> QED BY <2>2, <2>3, <2>4, <2>5, <1>3 DEF AllSound, SocketsInv
  <1>11. Subscribing'
    <2> SUFFICES ASSUME NEW n \in Fixtures, Active(n)',
                        NEW c \in Connections, conn[c] # None,
                        conn[c].user \in live'[n].told, c \notin live'[n].elsewhere,
                        conn[c].step # "connected"
                 PROVE  n \in conn[c].rooms \cup conn[c].found
                        \/ Pending(conn[c].at, "created", n)'
      BY <1>3 DEF Subscribing, Owned, Up
    <2>1. CASE n = m
      <3>1. conn[c].at = i
        BY <2>1, <1>2, <1>5 DEF Owned, Up
      <3> QED BY <3>1, <2>1, <1>3, <1>6 DEF Pending, Awaits
    <2>2. CASE n # m
      <3>1. Active(n) /\ c \in Owned(live[n].told) \ live[n].elsewhere
        BY <2>2, <1>5 DEF Active, Owned, Up
      <3>2. n \in conn[c].rooms \cup conn[c].found \/ Pending(conn[c].at, "created", n)
        BY <3>1 DEF SocketsInv, Subscribing
      <3>3. Pending(conn[c].at, "created", n) => Pending(conn[c].at, "created", n)'
        BY <1>3, <1>6 DEF Pending, Awaits
      <3> QED BY <3>2, <3>3
    <2> QED BY <2>1, <2>2
  <1>12. PickerSeesCards'
    <2>1. \A t \in Slots : sockReq[t].op = "cards" => Remains(t)
      BY <1>6 DEF Remains
    <2> QED BY <2>1, <1>2, <1>3, <1>5, KeepsPicker
  <1>13. ResultReachesProcess'
    <2>1. \A t \in Slots : sockReq[t].op \in {"finished", "round"}
                                => Remains(t)
      BY <1>6 DEF Remains
    <2> QED BY <2>1, <1>2, <1>3, <1>5, <1>9, <1>10, KeepsResult
  <1> QED BY <1>9, <1>10, <1>11, <1>12, <1>13 DEF SocketsInv

\* Match m changes its phase, its round or its pause, and a slot, or none, has
\* to tell of it.
LEMMA PhaseStep ==
    ASSUME SocketsInv, NEW m \in Fixtures, live[m] # None,
           NEW to \in Phases, NEW round \in 0..MaxRound, NEW p \in BOOLEAN,
           live' = [live EXCEPT ![m] =
                       [live[m] EXCEPT !.phase = to, !.round = round, !.paused = p]],
           conn' = conn,
           live[m].round <= round,
           to = "discards" => round = 0,
           to # "over" => live[m].phase # "over",
           to = "pick" => \/ live[m].round < round
                          \/ live[m].phase = "pick" /\ round = live[m].round,
           sockReq' \in [Slots -> SocketRequest],
           \A t \in Slots : \/ sockReq'[t] = sockReq[t]
                           \/ /\ sockReq[t].op \in {"idle", "gone"}
                              /\ ReqSound(sockReq'[t], live') /\ sockReq'[t].to = {}
    PROVE  SocketsInv'
  <1> DEFINE x == [live[m] EXCEPT !.phase = to, !.round = round, !.paused = p]
  <1>1. live[m] \in Fixture /\ MatchSound(live[m], conn)
    BY DEF SocketsInv, SocketsTyped, AllSound
  <1>2. /\ x \in Fixture
        /\ x.red = live[m].red /\ x.blue = live[m].blue /\ x.told = live[m].told
        /\ x.untold = live[m].untold /\ x.elsewhere = live[m].elsewhere
        /\ x.phase = to /\ x.round = round
    BY <1>1 DEF Fixture
  <1>3. live' = [live EXCEPT ![m] = x]
    OBVIOUS
  <1> HIDE DEF x
  <1>4. MatchSound(x, conn)
    BY <1>1, <1>2 DEF MatchSound
  <1> QED BY <1>2, <1>3, <1>4, MatchStep

\* The same, when the match m was not new and its row is there afterwards.
LEMMA Becomes ==
    ASSUME SocketsInv, NEW m \in Fixtures, live[m] # None,
           NEW to \in Phases, NEW round \in 0..MaxRound,
           live' = [live EXCEPT ![m].phase = to, ![m].round = round]
    PROVE  /\ live' = [live EXCEPT ![m] = [live[m] EXCEPT
                           !.phase = to, !.round = round, !.paused = live[m].paused]]
           /\ live'[m] # None
           /\ live[m].paused \in BOOLEAN /\ live[m].round \in 0..MaxRound
  <1> DEFINE x == [live[m] EXCEPT !.phase = to, !.round = round]
             y == [live[m] EXCEPT !.phase = to, !.round = round, !.paused = live[m].paused]
  <1>1. live[m] \in Fixture /\ live \in [Fixtures -> Fixture \cup {None}]
    BY DEF SocketsInv, SocketsTyped
  <1>2. x = y /\ x \in Fixture
    BY <1>1 DEF Fixture
  <1>3. live' = [live EXCEPT ![m] = x]
    BY <1>1
  <1>4. live[m].paused \in BOOLEAN /\ live[m].round \in 0..MaxRound
    BY <1>1 DEF Fixture
  <1>5. live'[m] = x /\ live' = [live EXCEPT ![m] = y]
    BY <1>1, <1>2, <1>3
  <1> HIDE DEF x
  <1>6. live'[m] # None
    BY <1>2, <1>5, SocketRowsAssumption
  <1> QED BY <1>4, <1>5, <1>6

\* A phase follows another, and slot s has to tell of it.
LEMMA GoesOnInv ==
    ASSUME SocketsInv, NEW s \in Slots, NEW i \in Processes, NEW m \in Fixtures,
           NEW from \in Phases \ {"over"}, NEW to \in Phases \ {"discards", "over"},
           NEW round \in 0..MaxRound,
           NEW op \in {"created", "ready", "announce", "round", "finished"},
           GoesOn(m, from, to, round), Starts(s, i, op, m), conn' = conn,
           live[m].round <= round, to = "pick" => live[m].round < round
    PROVE  SocketsInv'
  <1>1. /\ live[m] # None /\ live[m].phase = from
        /\ live' = [live EXCEPT ![m].phase = to, ![m].round = round]
    BY DEF GoesOn
  <1>2. /\ live' = [live EXCEPT ![m] = [live[m] EXCEPT
                       !.phase = to, !.round = round, !.paused = live[m].paused]]
        /\ live'[m] # None /\ live[m].paused \in BOOLEAN
    BY <1>1, Becomes, ZenonT(60)
  <1>3. /\ sockReq' \in [Slots -> SocketRequest]
        /\ \A t \in Slots : t # s => sockReq'[t] = sockReq[t]
        /\ sockReq[s].op = "idle" /\ ReqSound(sockReq'[s], live')
        /\ sockReq'[s].to = {}
    <2>1. live'[m] # None
      BY <1>2
    <2> QED BY <2>1, StartsFacts
  <1> QED BY <1>1, <1>2, <1>3, PhaseStep

LEMMA DiscardsReadyInv ==
    ASSUME SocketsInv, NEW s \in Slots, NEW i \in Processes, NEW m \in Fixtures,
           NEW op \in {"ready", "announce"}, DiscardsReady(s, i, m, op)
    PROVE  SocketsInv'
  <1>1. GoesOn(m, "discards", "pick", 1) /\ Starts(s, i, op, m) /\ conn' = conn
    BY DEF DiscardsReady
  <1>2. live[m].round = 0
    BY <1>1 DEF GoesOn, SocketsInv, AllSound, MatchSound
  <1>3. 1 \in 0..MaxRound /\ "discards" \in Phases \ {"over"}
        /\ "pick" \in Phases \ {"discards", "over"}
    BY SocketsAssumption DEF Phases
  <1> QED BY <1>1, <1>2, <1>3, GoesOnInv

LEMMA ResultsShownInv ==
    ASSUME SocketsInv, NEW s \in Slots, NEW i \in Processes, NEW m \in Fixtures,
           ResultsShown(s, i, m)
    PROVE  SocketsInv'
  <1>1. /\ GoesOn(m, "results", "pick", live[m].round + 1)
        /\ Starts(s, i, "announce", m) /\ conn' = conn
        /\ live[m] # None /\ live[m].round < MaxRound
    BY DEF ResultsShown
  <1>2. live[m].round \in 0..MaxRound
    BY <1>1 DEF SocketsInv, SocketsTyped, Fixture
  <1>3. live[m].round + 1 \in 0..MaxRound /\ live[m].round < live[m].round + 1
    BY <1>1, <1>2, SocketsAssumption
  <1>4. "results" \in Phases \ {"over"} /\ "pick" \in Phases \ {"discards", "over"}
    BY DEF Phases
  <1> DEFINE k == live[m].round + 1
  <1>5. live[m].round <= k /\ live[m].round < k /\ k \in 0..MaxRound
    BY <1>2, <1>3
  <1>6. GoesOn(m, "results", "pick", k)
    BY <1>1
  <1> HIDE DEF k
  <1> QED BY <1>1, <1>4, <1>5, <1>6, GoesOnInv

LEMMA PickInv ==
    ASSUME SocketsInv, NEW s \in Slots, NEW i \in Processes, NEW m \in Fixtures,
           Pick(s, i, m)
    PROVE  SocketsInv'
  <1> DEFINE k == live[m].round
  <1>1. /\ GoesOn(m, "pick", "map", k) /\ Starts(s, i, "round", m) /\ conn' = conn
        /\ live[m] # None
    BY DEF Pick
  <1>2. k \in 0..MaxRound /\ live[m].round <= k
    BY <1>1, SocketsAssumption DEF SocketsInv, SocketsTyped, Fixture
  <1>3. "pick" \in Phases \ {"over"} /\ "map" \in Phases \ {"discards", "over"}
    BY DEF Phases
  <1> HIDE DEF k
  <1> QED BY <1>1, <1>2, <1>3, GoesOnInv

\* A handler of process i ends the match m, and its slot s has to tell the
\* players.
LEMMA EndsInv ==
    ASSUME SocketsInv, NEW s \in Slots, NEW i \in Processes, NEW m \in Fixtures,
           live[m] # None, Ends(i, m), conn' = conn,
           sockReq' \in [Slots -> SocketRequest],
           \A t \in Slots : t # s => sockReq'[t] = sockReq[t],
           sockReq[s].op \in {"idle", "gone"}, sockReq'[s].match = m,
           sockReq'[s].at = i, sockReq'[s].to = {},
           \/ sockReq'[s].op = "finished"
           \/ sockReq'[s].op = "round" /\ sockReq'[s].final
    PROVE  SocketsInv'
  <1> DEFINE U == Owned(Seated(m))
             V == {c \in U : conn[c].at # i}
             x == [live[m] EXCEPT !.phase = "over", !.untold = U, !.elsewhere = V]
  <1>1. /\ live \in [Fixtures -> Fixture \cup {None}] /\ live[m] \in Fixture
        /\ MatchSound(live[m], conn)
    BY DEF SocketsInv, SocketsTyped, AllSound
  <1>2. U \in SUBSET Connections /\ V \in SUBSET Connections
    BY DEF Owned, Up
  <1>3. /\ \A c \in U : conn[c] # None /\ conn[c].user \in {live[m].red, live[m].blue}
        /\ \A c \in V : conn[c] # None /\ i # conn[c].at
        /\ \A c \in U \ V : conn[c].at = i
    BY DEF Owned, Up, Seated
  <1>4. live' = [live EXCEPT ![m].phase = "over", ![m].untold = U, ![m].elsewhere = V]
    BY DEF Ends
  <1> HIDE DEF U, V
  <1>5. live' = [live EXCEPT ![m] = x]
    BY <1>1, <1>4
  <1>6. /\ x \in Fixture
        /\ x.red = live[m].red /\ x.blue = live[m].blue /\ x.told = live[m].told
        /\ x.untold = U /\ x.elsewhere = V /\ x.phase = "over" /\ x.round = live[m].round
    <2>1. "over" \in Phases
      BY DEF Phases
    <2> QED BY <2>1, <1>1, <1>2 DEF Fixture
  <1> HIDE DEF x
  <1>7. MatchSound(x, conn)
    BY <1>1, <1>3, <1>6 DEF MatchSound
  <1>8. live'[m] # None
    BY <1>1, <1>5, <1>6, SocketRowsAssumption
  <1>9. ReqSound(sockReq'[s], live')
    BY <1>8 DEF ReqSound
  <1>11. \A c \in x.untold \ x.elsewhere : ToTell(conn[c].at, m)'
    BY <1>3, <1>6 DEF ToTell, Pending, Awaits
  <1>10. live[m].round <= x.round
    BY <1>1, <1>6, SocketsAssumption DEF Fixture
  <1> QED BY <1>5, <1>6, <1>7, <1>9, <1>10, <1>11, MatchStep

LEMMA ResolveInv ==
    ASSUME SocketsInv, NEW s \in Slots, NEW i \in Processes, NEW m \in Fixtures,
           NEW final \in BOOLEAN, Resolve(s, i, m, final)
    PROVE  SocketsInv'
  <1> DEFINE r == [NoSocketRequest EXCEPT
                    !.op = "round", !.at = i, !.match = m, !.final = final]
  <1>1. /\ live[m] # None /\ conn' = conn
        /\ sockReq[s].op = "idle" /\ sockReq' = [sockReq EXCEPT ![s] = r]
    BY DEF Resolve, Awaits, SetSocketRequest
  <1>2. r \in SocketRequest /\ r.op = "round" /\ r.match = m /\ r.final = final
        /\ r.at = i /\ r.to = {}
    BY NoRequestSound DEF SocketRequest
  <1> HIDE DEF r
  <1>3. /\ sockReq' \in [Slots -> SocketRequest] /\ sockReq'[s] = r
        /\ \A t \in Slots : t # s => sockReq'[t] = sockReq[t]
    BY <1>1, <1>2 DEF SocketsInv, SocketsTyped
  <1>4. CASE final
    <2>1. Ends(i, m)
      BY <1>4 DEF Resolve
    <2>2. sockReq'[s].match = m /\ sockReq'[s].op = "round" /\ sockReq'[s].final
          /\ sockReq'[s].at = i /\ sockReq'[s].to = {}
      BY <1>2, <1>3, <1>4
    <2> QED BY <2>1, <2>2, <1>1, <1>3, EndsInv
  <1>5. CASE ~final
    <2> DEFINE k == live[m].round
    <2>1. GoesOn(m, "map", "results", k)
      BY <1>5 DEF Resolve
    <2>2. k \in 0..MaxRound /\ k <= k /\ "results" \in Phases
      BY <1>1, SocketsAssumption DEF SocketsInv, SocketsTyped, Fixture, Phases
    <2>3. live[m].phase = "map" /\ live' = [live EXCEPT ![m].phase = "results", ![m].round = k]
      BY <2>1 DEF GoesOn
    <2>4. live[m].round <= k
      BY <2>2
    <2> HIDE DEF k
    <2>5. /\ live' = [live EXCEPT ![m] = [live[m] EXCEPT
                         !.phase = "results", !.round = k, !.paused = live[m].paused]]
          /\ live'[m] # None /\ live[m].paused \in BOOLEAN
      BY <1>1, <2>2, <2>3, Becomes
    <2>6. ReqSound(sockReq'[s], live')
      BY <1>2, <1>3, <2>5 DEF ReqSound
    <2>7. \A t \in Slots : \/ sockReq'[t] = sockReq[t]
                          \/ /\ sockReq[t].op \in {"idle", "gone"}
                             /\ ReqSound(sockReq'[t], live') /\ sockReq'[t].to = {}
      BY <1>1, <1>2, <1>3, <2>6
    <2>8. k \in 0..MaxRound /\ "results" \in Phases /\ live[m].phase # "over"
      BY <2>2, <2>3
    <2>9. /\ live[m] # None /\ conn' = conn /\ live[m].round <= k
          /\ sockReq' \in [Slots -> SocketRequest]
      BY <1>1, <1>3, <2>4
    <2> QED BY <2>5, <2>7, <2>8, <2>9, PhaseStep
  <1> QED BY <1>4, <1>5

LEMMA ForfeitInv ==
    ASSUME SocketsInv, NEW s \in Slots, NEW i \in Processes, NEW m \in Fixtures,
           Forfeit(s, i, m)
    PROVE  SocketsInv'
  <1>1. live[m] # None /\ Ends(i, m) /\ Starts(s, i, "finished", m) /\ conn' = conn
    BY DEF Forfeit, Running, Active
  <1>2. live'[m] # None
    <2> DEFINE U == Owned(Seated(m))
               V == {c \in U : conn[c].at # i}
               x == [live[m] EXCEPT !.phase = "over", !.untold = U, !.elsewhere = V]
    <2>1. live[m] \in Fixture /\ live \in [Fixtures -> Fixture \cup {None}]
      BY <1>1 DEF SocketsInv, SocketsTyped
    <2>2. live'[m] = x
      BY <1>1, <2>1 DEF Ends
    <2>3. U \in SUBSET Connections /\ V \in SUBSET Connections /\ "over" \in Phases
      BY DEF Owned, Up, Phases
    <2> HIDE DEF U, V
    <2>4. x \in Fixture
      BY <2>1, <2>3 DEF Fixture
    <2> QED BY <2>2, <2>4, SocketRowsAssumption
  <1>3. /\ sockReq' \in [Slots -> SocketRequest]
        /\ \A t \in Slots : t # s => sockReq'[t] = sockReq[t]
        /\ sockReq[s].op = "idle"
        /\ sockReq'[s].op = "finished" /\ sockReq'[s].match = m
        /\ sockReq'[s].at = i /\ sockReq'[s].to = {}
    BY <1>1, <1>2, StartsFacts
  <1> QED BY <1>1, <1>3, EndsInv

LEMMA ForfeitGoneInv ==
    ASSUME SocketsInv, NEW s \in Slots, ForfeitGone(s)
    PROVE  SocketsInv'
  <1>1. sockReq[s].op = "gone" /\ conn' = conn
    BY DEF ForfeitGone, Awaits
  <1>2. sockReq \in [Slots -> SocketRequest] /\ \A t \in Slots : ReqSound(sockReq[t], live)
    BY DEF SocketsInv, SocketsTyped, AllSound
  <1> DEFINE i == sockReq[s].at
  <1>3. ASSUME NEW m \in Fixtures, Running(m), Ends(i, m),
               SetSocketRequest(s, [NoSocketRequest EXCEPT
                                       !.op = "finished", !.at = i, !.match = m])
        PROVE  SocketsInv'
    <2> DEFINE r == [NoSocketRequest EXCEPT !.op = "finished", !.at = i, !.match = m]
    <2>6. i \in Processes
      BY <1>1, <1>2 DEF ReqSound
    <2> HIDE DEF i
    <2>1. /\ r \in SocketRequest /\ r.op = "finished" /\ r.match = m
          /\ r.at = i /\ r.to = {}
      BY <2>6, NoRequestSound DEF SocketRequest
    <2>2. sockReq' = [sockReq EXCEPT ![s] = r]
      BY <1>3 DEF SetSocketRequest
    <2> HIDE DEF r
    <2>3. /\ sockReq' \in [Slots -> SocketRequest]
          /\ \A t \in Slots : t # s => sockReq'[t] = sockReq[t]
          /\ sockReq'[s].op = "finished" /\ sockReq'[s].match = m
          /\ sockReq'[s].at = i /\ sockReq'[s].to = {}
      BY <1>2, <2>1, <2>2
    <2>4. live[m] # None
      BY <1>3 DEF Running, Active
    <2>5. sockReq[s].op \in {"idle", "gone"}
      BY <1>1
    <2> QED BY <1>1, <1>3, <2>3, <2>4, <2>5, <2>6, EndsInv
  <1>4. CASE Done(s) /\ live' = live
    <2>1. sockReq' = [sockReq EXCEPT ![s] = NoSocketRequest]
      BY <1>4 DEF Done, SetSocketRequest
    <2>2. \A c \in Connections : conn[c] # None => Emitted(conn[c], conn'[c], live)
      BY <1>1, NothingEmitted
    <2>3. \A m \in Fixtures : live[m] # None => Announced(live[m], live'[m])
      BY <1>4, NothingEmitted
    <2>4. /\ conn' \in [Connections -> Connection \cup {None}]
          /\ live' \in [Fixtures -> Fixture \cup {None}]
      BY <1>1, <1>4 DEF SocketsInv, SocketsTyped
    <2>5. SetSocketRequest(s, NoSocketRequest)
      BY <1>4 DEF Done
    <2>6. /\ SocketsTyped' /\ AllSound'
          /\ \A t \in Slots : sockReq'[t] = IF t = s THEN NoSocketRequest ELSE sockReq[t]
      BY <1>1, <1>4, <2>2, <2>3, <2>4, <2>5, NoRequestSound, EmitStep
    <2>7. \A t \in Slots : sockReq[t].op # "gone" => sockReq'[t] = sockReq[t]
      BY <1>1, <2>6
    <2>8. Subscribing'
      <3>1. \A m \in Fixtures : Active(m)' =>
                /\ Active(m) /\ live'[m].told = live[m].told
                /\ \A c \in live[m].elsewhere : conn'[c] = None \/ c \in live'[m].elsewhere
        BY <1>4 DEF Active
      <3> QED BY <3>1, <1>1, <2>7, KeepsSubscribing DEF Remains
    <2>9. PickerSeesCards'
      BY <1>1, <1>4, <2>7, KeepsPicker DEF Remains
    <2>10. ResultReachesProcess'
      BY <1>1, <1>4, <2>6, <2>7, KeepsResult DEF Remains
    <2> QED BY <2>6, <2>8, <2>9, <2>10 DEF SocketsInv
  <1> QED BY <1>3, <1>4 DEF ForfeitGone

\* What a moderator does, no slot has to tell.
LEMMA SilentStep ==
    ASSUME SocketsInv, NEW m \in Fixtures, live[m] # None,
           NEW to \in Phases, NEW p \in BOOLEAN,
           live' = [live EXCEPT ![m] =
                [live[m] EXCEPT !.phase = to, !.round = live[m].round, !.paused = p]],
           conn' = conn, sockReq' = sockReq,
           to = live[m].phase \/ to \notin {"discards", "pick"},
           to # "over" => live[m].phase # "over"
    PROVE  SocketsInv'
  <1> DEFINE k == live[m].round
  <1>1. k \in 0..MaxRound /\ live[m].round <= k
    BY SocketsAssumption DEF SocketsInv, SocketsTyped, Fixture
  <1>2. to = "discards" => k = 0
    BY DEF SocketsInv, AllSound, MatchSound
  <1>3. to = "pick" => live[m].phase = "pick" /\ k = live[m].round
    OBVIOUS
  <1>4. /\ sockReq' \in [Slots -> SocketRequest]
        /\ live' = [live EXCEPT ![m] =
                [live[m] EXCEPT !.phase = to, !.round = k, !.paused = p]]
    BY DEF SocketsInv, SocketsTyped
  <1> HIDE DEF k
  <1> QED BY <1>1, <1>2, <1>3, <1>4, PhaseStep

LEMMA PauseInv ==
    ASSUME SocketsInv, NEW m \in Fixtures, PauseOrResume(m)
    PROVE  SocketsInv'
  <1>1. /\ live[m] # None /\ conn' = conn /\ sockReq' = sockReq
        /\ live' = [live EXCEPT ![m].paused = ~live[m].paused]
        /\ live[m].phase # "over"
    BY DEF PauseOrResume, Running, Active, SocketsInv, SocketsTyped, Fixture
  <1> DEFINE to == live[m].phase
             p == ~live[m].paused
  <1>2. live[m] \in Fixture /\ live \in [Fixtures -> Fixture \cup {None}]
    BY <1>1 DEF SocketsInv, SocketsTyped
  <1>3. to \in Phases /\ p \in BOOLEAN
    BY <1>2 DEF Fixture
  <1>4. live' = [live EXCEPT ![m] =
            [live[m] EXCEPT !.phase = to, !.round = live[m].round, !.paused = p]]
    BY <1>1, <1>2 DEF Fixture
  <1>5. to = live[m].phase
    OBVIOUS
  <1> HIDE DEF to, p
  <1> QED BY <1>1, <1>3, <1>4, <1>5, SilentStep

LEMMA DecideInv ==
    ASSUME SocketsInv, NEW m \in Fixtures, Decide(m)
    PROVE  SocketsInv'
  <1>1. live[m] # None /\ conn' = conn /\ sockReq' = sockReq
    BY DEF Decide
  <1>2. live[m] \in Fixture /\ live \in [Fixtures -> Fixture \cup {None}]
    BY <1>1 DEF SocketsInv, SocketsTyped
  <1>3. live[m].paused \in BOOLEAN /\ live[m].round \in 0..MaxRound
    BY <1>2 DEF Fixture
  <1>4. ASSUME NEW from \in {"pick", "map"}, NEW to \in {"map", "results"},
               GoesOn(m, from, to, live[m].round)
        PROVE  SocketsInv'
    <2> DEFINE k == live[m].round
    <2>1. live' = [live EXCEPT ![m].phase = to, ![m].round = k] /\ live[m].phase = from
      BY <1>4 DEF GoesOn
    <2>2. to \in Phases /\ k \in 0..MaxRound
      BY <1>3 DEF Phases
    <2>3. live' = [live EXCEPT ![m] = [live[m] EXCEPT
                       !.phase = to, !.round = k, !.paused = live[m].paused]]
      <3> HIDE DEF k
      <3> QED BY <1>1, <2>1, <2>2, Becomes
    <2>4. to \notin {"discards", "pick"} /\ live[m].phase # "over"
      BY <2>1
    <2> QED BY <1>1, <1>3, <2>2, <2>3, <2>4, SilentStep
  <1>5. ASSUME NEW to \in {"aborted", "over"}, Running(m),
               live' = [live EXCEPT ![m].phase = to]
        PROVE  SocketsInv'
    <2>1. to \in Phases /\ to \notin {"discards", "pick"} /\ live[m].phase # "over"
      BY <1>5 DEF Phases, Running, Active
    <2>2. live' = [live EXCEPT ![m] = [live[m] EXCEPT
                     !.phase = to, !.round = live[m].round, !.paused = live[m].paused]]
      BY <1>2, <1>5 DEF Fixture
    <2> QED BY <1>1, <1>3, <2>1, <2>2, SilentStep
  <1> QED BY <1>4, <1>5 DEF Decide

-----------------------------------------------------------------------------
(* Emissions. *)

\* An emission that nobody waits for: it takes no packet away and emits none
\* without cards.
LEMMA QuietEmission ==
    ASSUME SocketsInv, NEW s \in Slots, NEW r \in SocketRequest,
           SetSocketRequest(s, r), ReqSound(r, live), Listed(r, conn),
           live' = live,
           sockReq[s].op \in {"ready", "announce"}, conn' = conn
    PROVE  SocketsInv'
  <1>1. \A c \in Connections : conn[c] # None => Emitted(conn[c], conn'[c], live)
    BY NothingEmitted
  <1>2. \A m \in Fixtures : live[m] # None => Announced(live[m], live'[m])
    BY NothingEmitted
  <1>3. /\ conn' \in [Connections -> Connection \cup {None}]
        /\ live' \in [Fixtures -> Fixture \cup {None}]
    BY DEF SocketsInv, SocketsTyped
  <1>4. /\ SocketsTyped' /\ AllSound'
        /\ \A t \in Slots : sockReq'[t] = IF t = s THEN r ELSE sockReq[t]
    BY <1>1, <1>2, <1>3, EmitStep
  <1>5. \A t \in Slots : sockReq[t].op \in {"created", "cards", "round", "finished"}
                             => Remains(t)
    BY <1>4 DEF Remains
  <1>6. Subscribing'
    BY <1>5, KeepsSubscribing DEF Active
  <1>7. PickerSeesCards'
    BY <1>5, KeepsPicker
  <1>8. ResultReachesProcess'
    BY <1>4, <1>5, KeepsResult
  <1> QED BY <1>4, <1>6, <1>7, <1>8 DEF SocketsInv

LEMMA ReadPickInv ==
    ASSUME SocketsInv, NEW s \in Slots, ReadPick(s)
    PROVE  SocketsInv'
  <1> DEFINE m == sockReq[s].match
  <1>1. /\ sockReq[s].op \in {"ready", "announce"} /\ live' = live /\ conn' = conn
    BY DEF ReadPick
  <1>2. /\ sockReq[s] \in SocketRequest /\ ReqSound(sockReq[s], live)
        /\ Listed(sockReq[s], conn)
    BY DEF SocketsInv, SocketsTyped, AllSound
  <1>3. m \in Fixtures /\ live[m] \in Fixture /\ live[m] # None
    BY <1>1, <1>2 DEF ReqSound, SocketsInv, SocketsTyped
  <1>4. CASE live[m].phase = "pick" /\ ~live[m].paused
    <2> DEFINE op == IF Awaits(s, "ready") THEN "blank" ELSE "announce"
               u == Picker(m)
               k == live[m].round
               r == [sockReq[s] EXCEPT !.user = u, !.round = k, !.op = op]
    <2>1. SetSocketRequest(s, r)
      BY <1>4 DEF ReadPick
    <2>2. /\ u \in Users /\ k \in 0..MaxRound /\ k <= live[m].round
          /\ u = PickerOf(live[m], k)
          /\ op \in {"blank", "announce"}
      BY <1>3, SocketsAssumption DEF Picker, PickerOf, Fixture
    <2> HIDE DEF op, u, k
    <2>3. r \in SocketRequest /\ r.match = m /\ r.round = k /\ r.user = u /\ r.op = op
          /\ r.at = sockReq[s].at /\ r.to = sockReq[s].to
      BY <1>2, <2>2 DEF SocketRequest
    <2> HIDE DEF r
    <2>4. ReqSound(r, live) /\ Listed(r, conn)
      BY <1>1, <1>2, <1>3, <2>2, <2>3 DEF ReqSound, Listed
    <2> QED BY <1>1, <2>1, <2>3, <2>4, QuietEmission
  <1>5. CASE ~(live[m].phase = "pick" /\ ~live[m].paused)
    <2>1. SetSocketRequest(s, NoSocketRequest)
      BY <1>5 DEF ReadPick, Done
    <2> QED BY <1>1, <2>1, NoRequestSound, QuietEmission
  <1> QED BY <1>4, <1>5

\* What the connections C have got is sound, if what it is about has been.
LEMMA GotIsEmitted ==
    ASSUME SocketsInv, NEW C, C \subseteq Up, NEW p \in Blank \cup {None},
           p = None \/ (live[p.match] # None /\ p.round <= live[p.match].round),
           conn' = Got(C, p)
    PROVE  \A c \in Connections : conn[c] # None => Emitted(conn[c], conn'[c], live)
  <1> SUFFICES ASSUME NEW c \in Connections, conn[c] # None
               PROVE  Emitted(conn[c], conn'[c], live)
    OBVIOUS
  <1>1. SocketsTyped
    BY DEF SocketsInv
  <1>2. CASE c \notin C
    <2>1. conn'[c] = conn[c]
      BY <1>1, <1>2, GotFacts
    <2> QED BY <2>1, NothingEmitted
  <1>3. CASE c \in C
    <2>1. conn'[c] = [conn[c] EXCEPT !.last = p] /\ conn[c] \in Connection
      BY <1>1, <1>3, GotFacts DEF SocketsTyped
    <2> DEFINE y == conn'[c]
    <2>2. /\ y.user = conn[c].user /\ y.at = conn[c].at /\ y.step = conn[c].step 
          /\ y.found = conn[c].found /\ y.rooms = conn[c].rooms /\ y.last = p
      BY <2>1 DEF Connection
    <2> HIDE DEF y
    <2>3. Emitted(conn[c], y, live)
      BY <2>2 DEF Emitted
    <2> QED BY <2>3 DEF y
  <1> QED BY <1>2, <1>3

\* A packet without cards speaks of a round that its match has reached.
Current(p) == p = None \/ (live[p.match] # None /\ p.round <= live[p.match].round)

\* What all emissions of a packet p to the connections C have in common.
LEMMA PacketStep ==
    ASSUME SocketsInv, NEW s \in Slots, NEW r \in SocketRequest,
           SetSocketRequest(s, r), ReqSound(r, live), Listed(r, conn), sockReq[s].op # "created",
           NEW C, C \subseteq Up, NEW p \in Blank \cup {None},
           Current(p),
           conn' = Got(C, p),
           live' \in [Fixtures -> Fixture \cup {None}],
           \A m \in Fixtures : live'[m] = None <=> live[m] = None,
           \A m \in Fixtures : live[m] # None => Announced(live[m], live'[m])
    PROVE  /\ SocketsTyped' /\ AllSound' /\ Subscribing'
           /\ \A t \in Slots : sockReq'[t] = IF t = s THEN r ELSE sockReq[t]
           /\ \A c \in Connections : conn'[c] # None =>
                 conn[c] # None /\ conn'[c].user = conn[c].user /\ conn'[c].at = conn[c].at
           /\ \A c \in Connections \ C : conn'[c] = conn[c]
           /\ \A c \in C : conn'[c].last = p
           /\ \A m \in Fixtures : live[m] # None =>
                 /\ live'[m].red = live[m].red /\ live'[m].blue = live[m].blue
                 /\ live'[m].phase = live[m].phase /\ live'[m].round = live[m].round
                 /\ live'[m].told = live[m].told
                 /\ live'[m].elsewhere = live[m].elsewhere
                 /\ live'[m].untold \subseteq live[m].untold
  <1>1. SocketsTyped
    BY DEF SocketsInv
  <1>2. /\ conn' \in [Connections -> Connection \cup {None}]
        /\ \A c \in Connections : conn'[c] = None <=> conn[c] = None
        /\ \A c \in Connections \ C : conn'[c] = conn[c]
        /\ \A c \in C : conn'[c] = [conn[c] EXCEPT !.last = p]
    BY <1>1, GotFacts
  <1>3. \A c \in Connections : conn[c] # None => Emitted(conn[c], conn'[c], live)
    BY GotIsEmitted DEF Current
  <1>4. /\ SocketsTyped' /\ AllSound'
        /\ \A t \in Slots : sockReq'[t] = IF t = s THEN r ELSE sockReq[t]
        /\ \A m \in Fixtures : live[m] # None =>
              /\ live'[m].red = live[m].red /\ live'[m].blue = live[m].blue
              /\ live'[m].phase = live[m].phase /\ live'[m].round = live[m].round
              /\ live'[m].told = live[m].told
              /\ live'[m].elsewhere = live[m].elsewhere
              /\ live'[m].untold \subseteq live[m].untold
    BY <1>2, <1>3, EmitStep
  <1>5. \A c \in C : conn'[c].last = p
    <2>1. \A c \in C : conn[c] \in Connection
      BY <1>1 DEF Up, SocketsTyped
    <2> QED BY <2>1, <1>2 DEF Connection
  <1>6. Subscribing'
    <2>1. \A c \in Connections : conn'[c] # None =>
               /\ conn[c] # None /\ conn'[c].user = conn[c].user /\ conn'[c].at = conn[c].at
               /\ conn'[c].step # "connected" => conn[c].step # "connected"
               /\ conn[c].rooms \cup conn[c].found \subseteq conn'[c].rooms \cup conn'[c].found
      BY <1>2, <1>3 DEF Emitted
    <2>2. \A m \in Fixtures : Active(m)' =>
              /\ Active(m) /\ live'[m].told = live[m].told
              /\ \A c \in live[m].elsewhere : conn'[c] = None \/ c \in live'[m].elsewhere
      BY <1>4 DEF Active
    <2>3. \A t \in Slots : sockReq[t].op = "created" => Remains(t)
      BY <1>4 DEF Remains
    <2> QED BY <2>1, <2>2, <2>3, KeepsSubscribing
  <1>7. \A c \in Connections : conn'[c] # None =>
            conn[c] # None /\ conn'[c].user = conn[c].user /\ conn'[c].at = conn[c].at
    BY <1>2, <1>3 DEF Emitted
  <1> QED BY <1>2, <1>4, <1>5, <1>6, <1>7

\* The picker of a pick phase that is announced without cards: his connections
\* are not among C, or they are listed by the slot that has them.
LEMMA BlankStep ==
    ASSUME SocketsInv, NEW s \in Slots, NEW r \in SocketRequest,
           SetSocketRequest(s, r), ReqSound(r, live), live' = live,
           sockReq[s].op \in {"announce", "blank"}, sockReq[s].user # None,
           conn' \in [Connections -> Connection \cup {None}],
           \A c \in Connections : conn'[c] # None =>
               /\ conn[c] # None /\ conn'[c].user = conn[c].user
               /\ \/ conn'[c].last = None
                  \/ conn'[c].last = conn[c].last
                  \/ /\ conn'[c].last = BlankOf(sockReq[s])
                     /\ \/ c \notin Owned({sockReq[s].user})
                        \/ r.op = "cards" /\ r.match = sockReq[s].match /\ c \in r.to
    PROVE  PickerSeesCards'
  <1>1. \A t \in Slots : sockReq'[t] = IF t = s THEN r ELSE sockReq[t]
    BY DEF SetSocketRequest, SocketsInv, SocketsTyped
  <1>2. ReqSound(sockReq[s], live)
    BY DEF SocketsInv, AllSound
  <1> SUFFICES ASSUME NEW m \in Fixtures, live[m] # None, live[m].phase = "pick",
                      NEW c \in Connections, conn'[c] # None,
                      conn'[c].user = Picker(m),
                      conn'[c].last = [match |-> m, round |-> live[m].round]
               PROVE  \E t \in Slots : Awaits(t, "cards")' /\ sockReq'[t].match = m
                                                           /\ c \in sockReq'[t].to
    BY DEF PickerSeesCards, Owned, Up, Picker
  <1>3. conn'[c].last # None
    <2>1. live[m].round \in 0..MaxRound
      BY DEF SocketsInv, SocketsTyped, Fixture
    <2>2. [match |-> m, round |-> live[m].round] \in Blank
      BY <2>1 DEF Blank
    <2> QED BY <2>2, SocketRowsAssumption
  <1>4. conn[c] # None /\ conn[c].user = Picker(m)
    OBVIOUS
  <1>5. CASE conn'[c].last = conn[c].last
    <2>1. c \in Owned({Picker(m)})
      BY <1>4 DEF Owned, Up
    <2>2. PICK t \in Slots : Awaits(t, "cards") /\ sockReq[t].match = m /\ c \in sockReq[t].to
      BY <1>5, <2>1 DEF SocketsInv, PickerSeesCards
    <2>3. sockReq'[t] = sockReq[t]
      BY <1>1, <2>2 DEF Awaits
    <2> QED BY <2>2, <2>3 DEF Awaits
  <1>6. CASE conn'[c].last = BlankOf(sockReq[s])
    <2>1. sockReq[s].match = m /\ sockReq[s].round = live[m].round
      BY <1>6 DEF BlankOf
    <2>2. sockReq[s].user = Picker(m)
      BY <1>2, <2>1 DEF ReqSound, Picker, PickerOf
    <2>3. c \in Owned({sockReq[s].user})
      BY <1>4, <2>2 DEF Owned, Up
    <2>4. CASE r.op = "cards" /\ r.match = sockReq[s].match /\ c \in r.to
      BY <1>1, <2>1, <2>4 DEF Awaits
    <2>5. CASE conn'[c].last = conn[c].last
      BY <1>5, <2>5
    <2> QED BY <1>3, <2>3, <2>4, <2>5
  <1> QED BY <1>3, <1>5, <1>6

LEMMA BlankTyped ==
    ASSUME SocketsInv, NEW s \in Slots,
           sockReq[s].op \in {"announce", "blank"}, sockReq[s].user # None
    PROVE  LET r == sockReq[s] IN
           /\ r \in SocketRequest /\ r.match \in Fixtures
           /\ BlankOf(r) \in Blank
           /\ BlankOf(r).match = r.match /\ BlankOf(r).round = r.round
           /\ live[r.match] # None /\ r.round <= live[r.match].round
  <1>1. sockReq[s] \in SocketRequest /\ ReqSound(sockReq[s], live)
    BY DEF SocketsInv, SocketsTyped, AllSound
  <1>2. sockReq[s].match \in Fixtures /\ live[sockReq[s].match] # None
    BY <1>1 DEF ReqSound
  <1>3. sockReq[s].round \in 0..MaxRound
    BY <1>1 DEF SocketRequest
  <1> QED BY <1>1, <1>2, <1>3 DEF ReqSound, BlankOf, Blank

LEMMA UpIsConnections ==
    ASSUME SocketsInv
    PROVE  /\ \A U : Owned(U) \subseteq Up
           /\ \A i, U : UserRoom(i, U) \subseteq Up
           /\ \A i, m : MatchRoom(i, m) \subseteq Up
           /\ Up \subseteq Connections
           /\ \A c \in Up : conn[c] \in Connection /\ conn[c] # None
           /\ \A c \in Connections \ Up : conn[c] = None
  BY DEF Owned, UserRoom, MatchRoom, Up, SocketsInv, SocketsTyped

LEMMA AnnounceInv ==
    ASSUME SocketsInv, NEW s \in Slots, Announce(s)
    PROVE  SocketsInv'
  <1> DEFINE r == sockReq[s]
             own == UserRoom(r.at, {r.user})
             room == MatchRoom(r.at, r.match)
             heard(c) == [conn[c] EXCEPT !.last = IF c \in own THEN None ELSE BlankOf(r)]
  <1>1. /\ r.op = "announce" /\ r.user # None /\ live' = live
        /\ SetSocketRequest(s, NoSocketRequest)
        /\ conn' = [c \in Connections |->
              IF c \in own \cup room
              THEN [conn[c] EXCEPT !.last = IF c \in own THEN None ELSE BlankOf(r)]
              ELSE conn[c]]
    BY DEF Announce, Awaits, Done
  <1>2. /\ r.match \in Fixtures /\ BlankOf(r) \in Blank
        /\ BlankOf(r).match = r.match /\ BlankOf(r).round = r.round
        /\ live[r.match] # None /\ r.round <= live[r.match].round
    BY <1>1, BlankTyped
  <1>3. \A c \in own \cup room : conn[c] \in Connection /\ conn[c] # None /\ c \in Connections
    BY UpIsConnections
  <1>15. \A c \in room \ own : c \notin Owned({r.user})
    BY DEF own, room, UserRoom, MatchRoom
  <1> HIDE DEF own, room
  <1>4. ASSUME NEW c \in own \cup room
        PROVE  /\ heard(c) \in Connection /\ heard(c) # None
               /\ heard(c).user = conn[c].user /\ heard(c).at = conn[c].at /\ heard(c).step = conn[c].step
               /\ heard(c).found = conn[c].found /\ heard(c).rooms = conn[c].rooms
               /\ heard(c).last = (IF c \in own THEN None ELSE BlankOf(r))
    <2> DEFINE p == IF c \in own THEN None ELSE BlankOf(r)
    <2>1. p \in Blank \cup {None} /\ conn[c] \in Connection
      BY <1>2, <1>3, <1>4
    <2> HIDE DEF p
    <2>2. [conn[c] EXCEPT !.last = p] \in Connection
      BY <2>1 DEF Connection
    <2>3. LET y == [conn[c] EXCEPT !.last = p] IN
             /\ y.user = conn[c].user /\ y.at = conn[c].at /\ y.step = conn[c].step
             /\ y.found = conn[c].found /\ y.rooms = conn[c].rooms /\ y.last = p
      BY <2>1 DEF Connection
    <2> QED BY <2>2, <2>3, SocketRowsAssumption DEF p
  <1>5. /\ \A c \in own \cup room : conn'[c] = heard(c)
        /\ \A c \in Connections \ (own \cup room) : conn'[c] = conn[c]
    BY <1>1, <1>3
  <1> HIDE DEF heard
  <1>6. conn' \in [Connections -> Connection \cup {None}]
    <2>1. \A c \in Connections : conn'[c] \in Connection \cup {None}
      BY <1>4, <1>5 DEF SocketsInv, SocketsTyped
    <2>2. conn' = [c \in Connections |-> conn'[c]]
      BY <1>1
    <2> QED BY <2>1, <2>2
  <1>7. \A c \in Connections : conn'[c] = None <=> conn[c] = None
    BY <1>3, <1>4, <1>5
  <1>8. \A c \in Connections : conn[c] # None => Emitted(conn[c], conn'[c], live)
    <2> SUFFICES ASSUME NEW c \in Connections, conn[c] # None
                 PROVE  Emitted(conn[c], conn'[c], live)
      OBVIOUS
    <2>1. CASE c \in own \cup room
      <3>1. Emitted(conn[c], heard(c), live)
        BY <2>1, <1>2, <1>4 DEF Emitted
      <3> QED BY <3>1, <2>1, <1>5
    <2>2. CASE c \notin own \cup room
      BY <2>2, <1>5, NothingEmitted
    <2> QED BY <2>1, <2>2
  <1>9. /\ live' \in [Fixtures -> Fixture \cup {None}]
        /\ \A m \in Fixtures : live[m] # None => Announced(live[m], live'[m])
        /\ \A m \in Fixtures : live'[m] = None <=> live[m] = None
    BY <1>1, NothingEmitted DEF SocketsInv, SocketsTyped
  <1>10. /\ SocketsTyped' /\ AllSound'
         /\ \A t \in Slots : sockReq'[t] = IF t = s THEN NoSocketRequest ELSE sockReq[t]
    BY <1>1, <1>6, <1>7, <1>8, <1>9, NoRequestSound, EmitStep, SMTT(60)
  <1>11. \A t \in Slots : sockReq[t].op # "announce" => sockReq'[t] = sockReq[t]
    BY <1>1, <1>10
  <1>12. Subscribing'
    <2>1. \A c \in Connections : conn'[c] # None =>
               /\ conn[c] # None /\ conn'[c].user = conn[c].user /\ conn'[c].at = conn[c].at
               /\ conn'[c].step # "connected" => conn[c].step # "connected"
               /\ conn[c].rooms \cup conn[c].found \subseteq conn'[c].rooms \cup conn'[c].found
      BY <1>7, <1>8 DEF Emitted
    <2>2. \A m \in Fixtures : Active(m)' =>
              /\ Active(m) /\ live'[m].told = live[m].told
              /\ \A c \in live[m].elsewhere : conn'[c] = None \/ c \in live'[m].elsewhere
      BY <1>1 DEF Active
    <2> QED BY <2>1, <2>2, <1>11, KeepsSubscribing DEF Remains
  <1>13. PickerSeesCards'
    <2>1. \A c \in Connections : conn'[c] # None =>
               /\ conn[c] # None /\ conn'[c].user = conn[c].user
               /\ \/ conn'[c].last = None
                  \/ conn'[c].last = conn[c].last
                  \/ conn'[c].last = BlankOf(r) /\ c \notin Owned({r.user})
      BY <1>4, <1>5, <1>7, <1>8, <1>15 DEF Emitted
    <2> HIDE DEF r
    <2>2. \A c \in Connections : conn'[c] # None =>
               /\ conn[c] # None /\ conn'[c].user = conn[c].user
               /\ \/ conn'[c].last = None
                  \/ conn'[c].last = conn[c].last
                  \/ /\ conn'[c].last = BlankOf(sockReq[s])
                     /\ c \notin Owned({sockReq[s].user})
      BY <2>1 DEF r
    <2>3. sockReq[s].op \in {"announce", "blank"} /\ sockReq[s].user # None
      BY <1>1 DEF r
    <2> QED BY <2>2, <2>3, <1>1, <1>6, NoRequestSound, BlankStep
  <1>14. ResultReachesProcess'
    <2>1. \A c \in Connections : conn'[c] # None => conn'[c].at = conn[c].at
      BY <1>7, <1>8 DEF Emitted
    <2> QED BY <2>1, <1>1, <1>10, <1>11, KeepsResult DEF Remains
  <1> QED BY <1>10, <1>12, <1>13, <1>14 DEF SocketsInv

LEMMA EmitBlankInv ==
    ASSUME SocketsInv, NEW s \in Slots, EmitBlank(s)
    PROVE  SocketsInv'
  <1> DEFINE own == UserRoom(sockReq[s].at, {sockReq[s].user})
             C == MatchRoom(sockReq[s].at, sockReq[s].match)
             p == BlankOf(sockReq[s])
             q == [sockReq[s] EXCEPT !.op = "cards", !.to = own]
  <1>1. /\ sockReq[s].op = "blank" /\ live' = live /\ conn' = Got(C, p)
        /\ SetSocketRequest(s, q)
    BY DEF EmitBlank, Awaits
  <1>2. sockReq[s] \in SocketRequest /\ ReqSound(sockReq[s], live)
    BY DEF SocketsInv, SocketsTyped, AllSound
  <1>3. sockReq[s].match \in Fixtures /\ live[sockReq[s].match] \in Fixture
    BY <1>1, <1>2 DEF ReqSound, SocketsInv, SocketsTyped
  <1>4. sockReq[s].user # None
    <2>1. sockReq[s].user = PickerOf(live[sockReq[s].match], sockReq[s].round)
      BY <1>1, <1>2 DEF ReqSound
    <2>2. sockReq[s].user \in Users
      BY <2>1, <1>3 DEF PickerOf, Fixture
    <2> QED BY <2>2, SocketsAssumption
  <1>5. /\ p \in Blank /\ p.match = sockReq[s].match /\ p.round = sockReq[s].round
        /\ live[sockReq[s].match] # None
        /\ sockReq[s].round <= live[sockReq[s].match].round
    BY <1>1, <1>4, BlankTyped
  <1>6. own \in SUBSET Connections
    BY UpIsConnections
  <1>7. C \subseteq Up
    BY UpIsConnections
  <1>15. /\ \A c \in own : conn[c].at = sockReq[s].at
         /\ \A c \in C \ own : c \notin Owned({sockReq[s].user})
    BY DEF UserRoom, MatchRoom
  <1> HIDE DEF own, C, p
  <1>8. /\ q \in SocketRequest /\ q.op = "cards" /\ q.match = sockReq[s].match
        /\ q.to = own /\ q.at = sockReq[s].at
    BY <1>2, <1>6 DEF SocketRequest
  <1> HIDE DEF q
  <1>9. ReqSound(q, live) /\ Listed(q, conn)
    BY <1>1, <1>2, <1>3, <1>5, <1>8, <1>15 DEF ReqSound, Listed
  <1>10. /\ live' \in [Fixtures -> Fixture \cup {None}]
         /\ \A m \in Fixtures : live[m] # None => Announced(live[m], live'[m])
         /\ \A m \in Fixtures : live'[m] = None <=> live[m] = None
    BY <1>1, NothingEmitted DEF SocketsInv, SocketsTyped
  <1>11. p \in Blank \cup {None} /\ Current(p)
    BY <1>5 DEF Current
  <1>12. /\ SocketsTyped' /\ AllSound' /\ Subscribing'
         /\ \A t \in Slots : sockReq'[t] = IF t = s THEN q ELSE sockReq[t]
         /\ \A c \in Connections : conn'[c] # None =>
               conn[c] # None /\ conn'[c].user = conn[c].user /\ conn'[c].at = conn[c].at
         /\ \A c \in Connections \ C : conn'[c] = conn[c]
         /\ \A c \in C : conn'[c].last = p
    <2>1. sockReq[s].op # "created" /\ SetSocketRequest(s, q) /\ conn' = Got(C, p)
      BY <1>1
    <2>2. q \in SocketRequest /\ ReqSound(q, live) /\ Listed(q, conn)
      BY <1>8, <1>9
    <2>3. /\ SocketsTyped' /\ AllSound' /\ Subscribing'
          /\ \A t \in Slots : sockReq'[t] = IF t = s THEN q ELSE sockReq[t]
          /\ \A c \in Connections : conn'[c] # None =>
               conn[c] # None /\ conn'[c].user = conn[c].user /\ conn'[c].at = conn[c].at
          /\ \A c \in Connections \ C : conn'[c] = conn[c]
          /\ \A c \in C : conn'[c].last = p
          /\ \A m \in Fixtures : live[m] # None =>
                /\ live'[m].red = live[m].red /\ live'[m].blue = live[m].blue
                /\ live'[m].phase = live[m].phase /\ live'[m].round = live[m].round
                /\ live'[m].told = live[m].told
                /\ live'[m].elsewhere = live[m].elsewhere
                /\ live'[m].untold \subseteq live[m].untold
      BY <2>1, <2>2, <1>7, <1>10, <1>11, PacketStep, Zenon
    <2> QED BY <2>3
  <1>13. PickerSeesCards'
    <2>1. \A c \in Connections : conn'[c] # None =>
               /\ conn[c] # None /\ conn'[c].user = conn[c].user
               /\ \/ conn'[c].last = None
                  \/ conn'[c].last = conn[c].last
                  \/ /\ conn'[c].last = BlankOf(sockReq[s])
                     /\ \/ c \notin Owned({sockReq[s].user})
                        \/ q.op = "cards" /\ q.match = sockReq[s].match /\ c \in q.to
      BY <1>8, <1>12, <1>15 DEF p
    <2>2. conn' \in [Connections -> Connection \cup {None}]
      BY <1>12 DEF SocketsTyped
    <2> QED BY <2>1, <2>2, <1>1, <1>4, <1>8, <1>9, BlankStep
  <1>14. ResultReachesProcess'
    <2>1. \A t \in Slots : sockReq[t].op \in {"finished", "round"} => Remains(t)
      BY <1>1, <1>12 DEF Remains
    <2> QED BY <2>1, <1>1, <1>12, KeepsResult
  <1> QED BY <1>12, <1>13, <1>14 DEF SocketsInv

LEMMA EmitCardsInv ==
    ASSUME SocketsInv, NEW s \in Slots, EmitCards(s)
    PROVE  SocketsInv'
  <1> DEFINE C == sockReq[s].to \cap Up
  <1>1. /\ sockReq[s].op = "cards" /\ live' = live /\ conn' = Got(C, None)
        /\ SetSocketRequest(s, NoSocketRequest) /\ Current(None)
    BY DEF EmitCards, Awaits, Done, Current
  <1>2. C \subseteq Up
    OBVIOUS
  <1>3. /\ live' \in [Fixtures -> Fixture \cup {None}]
        /\ \A m \in Fixtures : live[m] # None => Announced(live[m], live'[m])
        /\ \A m \in Fixtures : live'[m] = None <=> live[m] = None
    BY <1>1, NothingEmitted DEF SocketsInv, SocketsTyped
  <1> HIDE DEF C
  <1>4. /\ SocketsTyped' /\ AllSound' /\ Subscribing'
        /\ \A t \in Slots : sockReq'[t] = IF t = s THEN NoSocketRequest ELSE sockReq[t]
        /\ \A c \in Connections : conn'[c] # None =>
              conn[c] # None /\ conn'[c].user = conn[c].user /\ conn'[c].at = conn[c].at
        /\ \A c \in Connections \ C : conn'[c] = conn[c]
        /\ \A c \in C : conn'[c].last = None
    BY <1>1, <1>2, <1>3, NoRequestSound, PacketStep
  <1>5. PickerSeesCards'
    <2> SUFFICES ASSUME NEW m \in Fixtures, live[m] # None, live[m].phase = "pick",
                        NEW c \in Connections, conn'[c] # None,
                        conn'[c].user = Picker(m),
                        conn'[c].last = [match |-> m, round |-> live[m].round]
                 PROVE  \E t \in Slots : Awaits(t, "cards")' /\ sockReq'[t].match = m
                                                             /\ c \in sockReq'[t].to
      BY <1>1 DEF PickerSeesCards, Owned, Up, Picker
    <2>1. conn'[c].last # None
      <3>1. live[m].round \in 0..MaxRound
        BY DEF SocketsInv, SocketsTyped, Fixture
      <3>2. [match |-> m, round |-> live[m].round] \in Blank
        BY <3>1 DEF Blank
      <3> QED BY <3>2, SocketRowsAssumption
    <2>2. c \notin C /\ conn'[c] = conn[c] /\ conn[c] # None
      BY <1>4, <2>1
    <2>3. c \in Owned({Picker(m)}) /\ c \in Up
      BY <2>2 DEF Owned, Up
    <2>4. PICK t \in Slots : Awaits(t, "cards") /\ sockReq[t].match = m /\ c \in sockReq[t].to
      BY <2>2, <2>3 DEF SocketsInv, PickerSeesCards
    <2>5. t # s
      BY <2>2, <2>3, <2>4 DEF C
    <2> QED BY <2>4, <2>5, <1>4 DEF Awaits
  <1>6. ResultReachesProcess'
    <2>1. \A t \in Slots : sockReq[t].op \in {"finished", "round"} => Remains(t)
      BY <1>1, <1>4 DEF Remains
    <2> QED BY <2>1, <1>1, <1>4, KeepsResult
  <1> QED BY <1>4, <1>5, <1>6 DEF SocketsInv

LEMMA EmitCreatedInv ==
    ASSUME SocketsInv, NEW s \in Slots, EmitCreated(s)
    PROVE  SocketsInv'
  <1> DEFINE m == sockReq[s].match
             C == UserRoom(sockReq[s].at, live[m].told)
             y(c) == [conn[c] EXCEPT !.rooms = conn[c].rooms \cup {m}, !.last = None]
  <1>1. /\ sockReq[s].op = "created" /\ live' = live
        /\ SetSocketRequest(s, NoSocketRequest)
    BY DEF EmitCreated, Awaits, Done
  <1>2. m \in Fixtures /\ live[m] # None
    <2>1. ReqSound(sockReq[s], live)
      BY DEF SocketsInv, AllSound
    <2> QED BY <2>1, <1>1 DEF ReqSound
  <1>3. C \subseteq Connections /\ \A c \in C : conn[c] \in Connection /\ conn[c] # None
    BY UpIsConnections
  <1>4. ASSUME NEW c \in C
        PROVE  /\ y(c) \in Connection
               /\ y(c).user = conn[c].user /\ y(c).at = conn[c].at /\ y(c).step = conn[c].step
               /\ y(c).found = conn[c].found /\ y(c).rooms = conn[c].rooms \cup {m}
               /\ y(c).last = None
    <2> HIDE DEF m, C
    <2> QED BY <1>2, <1>3, <1>4 DEF Connection
  <1>5. conn' = [c \in Connections |-> IF c \in C THEN y(c) ELSE conn[c]]
    <2>1. \A c \in C : y(c) = [conn[c] EXCEPT !.rooms = @ \cup {m}, !.last = None]
      BY <1>3 DEF Connection
    <2>2. conn' = [c \in Connections |->
                     IF c \in C THEN [conn[c] EXCEPT !.rooms = @ \cup {m}, !.last = None]
                     ELSE conn[c]]
      BY DEF EmitCreated
    <2> HIDE DEF C, y
    <2> QED BY <2>1, <2>2
  <1> HIDE DEF C, y
  <1>6. /\ \A c \in C : conn'[c] = y(c)
        /\ \A c \in Connections \ C : conn'[c] = conn[c]
    BY <1>3, <1>5
  <1>7. conn' \in [Connections -> Connection \cup {None}]
    <2>1. \A c \in Connections : conn'[c] \in Connection \cup {None}
      BY <1>4, <1>6 DEF SocketsInv, SocketsTyped
    <2>2. conn' = [c \in Connections |-> conn'[c]]
      BY <1>5
    <2> QED BY <2>1, <2>2
  <1>8. \A c \in Connections : conn'[c] = None <=> conn[c] = None
    BY <1>3, <1>4, <1>6, SocketRowsAssumption
  <1>9. \A c \in Connections : conn[c] # None => Emitted(conn[c], conn'[c], live)
    <2> SUFFICES ASSUME NEW c \in Connections, conn[c] # None
                 PROVE  Emitted(conn[c], conn'[c], live)
      OBVIOUS
    <2>1. CASE c \in C
      <3>1. Emitted(conn[c], y(c), live)
        <4> HIDE DEF m
        <4> QED BY <2>1, <1>2, <1>4 DEF Emitted
      <3> QED BY <3>1, <2>1, <1>6
    <2>2. CASE c \notin C
      BY <2>2, <1>6, NothingEmitted
    <2> QED BY <2>1, <2>2
  <1>10. /\ live' \in [Fixtures -> Fixture \cup {None}]
         /\ \A n \in Fixtures : live[n] # None => Announced(live[n], live'[n])
         /\ \A n \in Fixtures : live'[n] = None <=> live[n] = None
    BY <1>1, NothingEmitted DEF SocketsInv, SocketsTyped
  <1>11. /\ SocketsTyped' /\ AllSound'
         /\ \A t \in Slots : sockReq'[t] = IF t = s THEN NoSocketRequest ELSE sockReq[t]
    BY <1>1, <1>7, <1>8, <1>9, <1>10, NoRequestSound, EmitStep
  <1>12. Subscribing'
    <2> SUFFICES ASSUME NEW n \in Fixtures, Active(n),
                        NEW c \in Connections, conn'[c] # None,
                        conn'[c].user \in live[n].told, c \notin live[n].elsewhere,
                        conn'[c].step # "connected"
                 PROVE  n \in conn'[c].rooms \cup conn'[c].found
                        \/ Pending(conn[c].at, "created", n)'
      BY <1>1 DEF Subscribing, Owned, Up, Active
    <2>1. /\ conn[c] # None /\ conn'[c].user = conn[c].user /\ conn'[c].step = conn[c].step
          /\ conn'[c].at = conn[c].at
          /\ conn'[c].found = conn[c].found /\ conn[c].rooms \subseteq conn'[c].rooms
      BY <1>8, <1>9 DEF Emitted
    <2>2. CASE n = m /\ conn[c].at = sockReq[s].at
      <3>1. c \in C
        BY <2>1, <2>2 DEF C, UserRoom, Owned, Up
      <3> QED BY <3>1, <2>2, <1>4, <1>6
    <2>3. CASE ~(n = m /\ conn[c].at = sockReq[s].at)
      <3>1. c \in Owned(live[n].told) \ live[n].elsewhere
        BY <2>1 DEF Owned, Up
      <3>2. n \in conn[c].rooms \cup conn[c].found \/ Pending(conn[c].at, "created", n)
        BY <3>1, <2>1 DEF SocketsInv, Subscribing
      <3>3. Pending(conn[c].at, "created", n) => Pending(conn[c].at, "created", n)'
        BY <2>1, <2>3, <1>11 DEF Pending, Awaits
      <3> QED BY <3>2, <3>3, <2>1
    <2> QED BY <2>2, <2>3
  <1>13. PickerSeesCards'
    <2>1. \A c \in Connections : conn'[c] # None =>
               \/ conn'[c].last = None
               \/ /\ conn[c] # None /\ conn'[c].user = conn[c].user
                  /\ conn'[c].at = conn[c].at /\ conn'[c].last = conn[c].last
      BY <1>4, <1>6
    <2>2. \A t \in Slots : sockReq[t].op = "cards" => Remains(t)
      BY <1>1, <1>11 DEF Remains
    <2> QED BY <2>1, <2>2, <1>1, KeepsPicker
  <1>14. ResultReachesProcess'
    <2>1. \A t \in Slots : sockReq[t].op \in {"finished", "round"} => Remains(t)
      BY <1>1, <1>11 DEF Remains
    <2>2. \A c \in Connections : conn'[c] # None => conn'[c].at = conn[c].at
      BY <1>8, <1>9 DEF Emitted
    <2> QED BY <2>1, <2>2, <1>1, <1>11, KeepsResult
  <1> QED BY <1>11, <1>12, <1>13, <1>14 DEF SocketsInv

\* What both handlers that may emit matchFinished do, to the players'
\* connections to their process (code: emitMatchFinished, roundResults).
LEMMA TellStep ==
    ASSUME SocketsInv, NEW s \in Slots, NEW m \in Fixtures, live[m] # None,
           sockReq[s].op \in {"round", "finished"}, sockReq[s].match = m,
           NEW C, C \subseteq Up, conn' = Got(C, None),
           SetSocketRequest(s, NoSocketRequest),
           \/ live' = live /\ sockReq[s].op = "round" /\ ~sockReq[s].final
           \/ live' = Finished(sockReq[s].at, m)
    PROVE  SocketsInv'
  <1>1. live \in [Fixtures -> Fixture \cup {None}] /\ live[m] \in Fixture
        /\ MatchSound(live[m], conn)
    BY DEF SocketsInv, SocketsTyped, AllSound
  <1> DEFINE i == sockReq[s].at
             x == [live[m] EXCEPT !.untold = live[m].untold \ ToBoth(i, m)]
  <1>2. /\ x \in Fixture /\ x.untold = live[m].untold \ ToBoth(i, m)
        /\ x.untold \subseteq live[m].untold
    BY <1>1 DEF Fixture
  <1>3. Announced(live[m], x)
    BY <1>2 DEF Announced
  <1>4. Finished(i, m) = [live EXCEPT ![m] = x]
    BY <1>1 DEF Finished, Fixture
  <1>5. \A c \in x.untold : conn[c].at # i
    <2>1. \A c \in live[m].untold : c \in Connections /\ conn[c] # None
                                   /\ conn[c].user \in {live[m].red, live[m].blue}
      BY <1>1 DEF MatchSound, Fixture
    <2>2. \A c \in live[m].untold : conn[c].at = i => c \in ToBoth(i, m)
      BY <2>1 DEF ToBoth, UserRoom, Owned, Up, Seated
    <2> QED BY <2>2, <1>2
  <1> HIDE DEF x, i
  <1>6. /\ live' \in [Fixtures -> Fixture \cup {None}]
        /\ \A n \in Fixtures : live'[n] = None <=> live[n] = None
        /\ \A n \in Fixtures : live[n] # None => Announced(live[n], live'[n])
        /\ live' = live \/ (live'[m] = x /\ \A n \in Fixtures : n # m => live'[n] = live[n])
    <2>1. CASE live' = live
      BY <2>1, <1>1, NothingEmitted
    <2>2. CASE live' = [live EXCEPT ![m] = x]
      BY <2>2, <1>1, <1>2, <1>3, NothingEmitted, SocketRowsAssumption
    <2> QED BY <2>1, <2>2, <1>4 DEF i
  <1>7. sockReq[s].op # "created" /\ Current(None)
    BY DEF Current
  <1>8. /\ SocketsTyped' /\ AllSound' /\ Subscribing'
        /\ \A t \in Slots : sockReq'[t] = IF t = s THEN NoSocketRequest ELSE sockReq[t]
        /\ \A c \in Connections : conn'[c] # None =>
              conn[c] # None /\ conn'[c].user = conn[c].user /\ conn'[c].at = conn[c].at
        /\ \A c \in Connections \ C : conn'[c] = conn[c]
        /\ \A c \in C : conn'[c].last = None
        /\ \A n \in Fixtures : live[n] # None =>
              /\ live'[n].red = live[n].red /\ live'[n].blue = live[n].blue
              /\ live'[n].phase = live[n].phase /\ live'[n].round = live[n].round
              /\ live'[n].told = live[n].told
              /\ live'[n].elsewhere = live[n].elsewhere
              /\ live'[n].untold \subseteq live[n].untold
    BY <1>6, <1>7, NoRequestSound, PacketStep
  <1>9. PickerSeesCards'
    <2>1. \A c \in Connections : conn'[c] # None =>
               \/ conn'[c].last = None
               \/ /\ conn[c] # None /\ conn'[c].user = conn[c].user
                  /\ conn'[c].at = conn[c].at /\ conn'[c].last = conn[c].last
      BY <1>8
    <2>2. \A t \in Slots : sockReq[t].op = "cards" => Remains(t)
      BY <1>8 DEF Remains
    <2>3. \A n \in Fixtures : live'[n] # None /\ live'[n].phase = "pick" =>
               /\ live[n] # None /\ live[n].phase = "pick"
               /\ live'[n].round = live[n].round
               /\ live'[n].red = live[n].red /\ live'[n].blue = live[n].blue
      BY <1>6, <1>8
    <2> QED BY <2>1, <2>2, <2>3, KeepsPicker
  <1>10. ResultReachesProcess'
    <2> SUFFICES ASSUME NEW n \in Fixtures, live'[n] # None,
                        NEW c \in live'[n].untold, c \notin live'[n].elsewhere
                 PROVE  ToTell(conn[c].at, n)'
      BY DEF ResultReachesProcess, ToTell
    <2>1. live[n] # None /\ c \in live[n].untold \ live[n].elsewhere
      BY <1>6, <1>8
    <2>2. c \in Connections /\ conn[c] # None
      BY <2>1 DEF SocketsInv, SocketsTyped, Fixture, AllSound, MatchSound
    <2>3. conn'[c].at = conn[c].at
      <3>1. conn'[c] # None
        BY <2>2, <1>8 DEF AllSound, MatchSound
      <3> QED BY <3>1, <2>2, <1>8
    <2>4. PICK t \in Slots : /\ sockReq[t].match = n /\ sockReq[t].at = conn[c].at
                             /\ \/ sockReq[t].op = "finished"
                                \/ sockReq[t].op = "round" /\ sockReq[t].final
      BY <2>1 DEF SocketsInv, ResultReachesProcess, Pending, Awaits
    <2>5. t # s
      <3>1. CASE live' = Finished(sockReq[s].at, m)
        <4>1. live'[m] = x
          BY <3>1, <1>1, <1>4 DEF i
        <4> QED BY <4>1, <2>4, <1>5 DEF i
      <3>2. CASE live' = live /\ sockReq[s].op = "round" /\ ~sockReq[s].final
        BY <3>2, <2>4
      <3> QED BY <3>1, <3>2
    <2>6. sockReq'[t] = sockReq[t]
      BY <2>5, <1>8
    <2> QED BY <2>3, <2>4, <2>6 DEF ToTell, Pending, Awaits
  <1> QED BY <1>8, <1>9, <1>10 DEF SocketsInv

LEMMA EmitRoundInv ==
    ASSUME SocketsInv, NEW s \in Slots, EmitRound(s)
    PROVE  SocketsInv'
  <1> DEFINE m == sockReq[s].match
             i == sockReq[s].at
             C == MatchRoom(i, m) \cup (IF sockReq[s].final THEN ToBoth(i, m) ELSE {})
  <1>1. /\ sockReq[s].op = "round" /\ conn' = Got(C, None)
        /\ SetSocketRequest(s, NoSocketRequest)
        /\ live' = IF sockReq[s].final THEN Finished(i, m) ELSE live
    BY DEF EmitRound, Awaits, Done
  <1>2. m \in Fixtures /\ live[m] # None
    <2>1. ReqSound(sockReq[s], live)
      BY DEF SocketsInv, AllSound
    <2> QED BY <2>1, <1>1 DEF ReqSound
  <1>3. C \subseteq Up
    BY UpIsConnections DEF ToBoth
  <1> HIDE DEF C
  <1> QED BY <1>1, <1>2, <1>3, TellStep

LEMMA EmitFinishedInv ==
    ASSUME SocketsInv, NEW s \in Slots, EmitFinished(s)
    PROVE  SocketsInv'
  <1> DEFINE m == sockReq[s].match
             i == sockReq[s].at
             C == ToBoth(i, m)
  <1>1. /\ sockReq[s].op = "finished" /\ conn' = Got(C, None)
        /\ SetSocketRequest(s, NoSocketRequest) /\ live' = Finished(i, m)
    BY DEF EmitFinished, Awaits, Done
  <1>2. m \in Fixtures /\ live[m] # None
    <2>1. ReqSound(sockReq[s], live)
      BY DEF SocketsInv, AllSound
    <2> QED BY <2>1, <1>1 DEF ReqSound
  <1>3. C \subseteq Up
    BY UpIsConnections DEF ToBoth
  <1> HIDE DEF C
  <1> QED BY <1>1, <1>2, <1>3, TellStep

-----------------------------------------------------------------------------
LEMMA InitSockets == SocketsInit => SocketsInv
  <1> SUFFICES ASSUME SocketsInit PROVE SocketsInv
    OBVIOUS
  <1>1. SocketsTyped
    BY NoRequestSound DEF SocketsInit, SocketsTyped
  <1>2. AllSound
    BY NoRequestSound DEF SocketsInit, AllSound
  <1>3. Subscribing /\ PickerSeesCards /\ ResultReachesProcess
    BY DEF SocketsInit, Subscribing, Active, PickerSeesCards, ResultReachesProcess
  <1> QED BY <1>1, <1>2, <1>3 DEF SocketsInv

LEMMA StepSockets ==
    ASSUME SocketsInv, [SocketsNext]_socketsVars
    PROVE  SocketsInv'
  <1>1. ASSUME NEW c \in Connections,
               \/ \E i \in Processes, u \in Users \cup {None}, plugin \in BOOLEAN :
                     Connect(c, i, u, plugin)
               \/ RestoreRead(c)
               \/ RestoreJoin(c)
               \/ \E m \in Fixtures : WatchMatch(c, m)
               \/ Disconnect(c)
        PROVE  SocketsInv'
    BY <1>1, ConnectInv, RestoreReadInv, RestoreJoinInv, WatchInv, DisconnectInv
  <1>2. ASSUME NEW s \in Slots, NEW i \in Processes, NEW m \in Fixtures,
               \/ \E red, blue \in Users : MatchCommit(s, i, m, red, blue)
               \/ \E op \in {"ready", "announce"} : DiscardsReady(s, i, m, op)
               \/ ResultsShown(s, i, m)
               \/ Pick(s, i, m)
               \/ \E final \in BOOLEAN : Resolve(s, i, m, final)
               \/ Forfeit(s, i, m)
        PROVE  SocketsInv'
    BY <1>2, MatchCommitInv, DiscardsReadyInv, ResultsShownInv, PickInv, ResolveInv, ForfeitInv
  <1>3. ASSUME NEW s \in Slots,
               \/ EmitCreated(s) \/ ReadPick(s) \/ Announce(s) \/ EmitBlank(s)
               \/ EmitCards(s) \/ EmitRound(s) \/ ForfeitGone(s) \/ EmitFinished(s)
        PROVE  SocketsInv'
    BY <1>3, EmitCreatedInv, ReadPickInv, AnnounceInv, EmitBlankInv, EmitCardsInv,
       EmitRoundInv, ForfeitGoneInv, EmitFinishedInv
  <1>4. ASSUME NEW m \in Fixtures, PauseOrResume(m) \/ Decide(m)
        PROVE  SocketsInv'
    BY <1>4, PauseInv, DecideInv
  <1>5. CASE UNCHANGED socketsVars
    <2>1. live' = live /\ conn' = conn /\ sockReq' = sockReq
      BY <1>5 DEF socketsVars
    <2> QED BY <2>1 DEF SocketsInv, SocketsTyped, AllSound, Subscribing, PickerSeesCards,
               ResultReachesProcess, Pending, Awaits, Owned, Up, Active, Picker,
               Listed
  <1> QED BY <1>1, <1>2, <1>3, <1>4, <1>5, CrashInv DEF SocketsNext

\* For any number of processes, users, connections, matches and handlers: what
\* handlers have read, and connections have heard, is true of the matches.
THEOREM SocketsInvariance == SocketsSpec => []SocketsInv
  BY InitSockets, StepSockets, PTL DEF SocketsSpec

\* Matches, connections and requests are well typed, and every room that a
\* connection has joined belongs to a match (code: join, in wsManager.ts).
THEOREM SocketsTypeCorrect == SocketsSpec => []SocketsTypeOK
  <1>1. SocketsInv => SocketsTypeOK
    BY DEF SocketsInv, SocketsTyped, AllSound, Heard, SocketsTypeOK, Up
  <1> QED BY <1>1, SocketsInvariance, PTL

\* A match that is made while a connection restores its rooms falls between
\* neither the restoration nor the announcement, unless another process than
\* the connection's makes it after the read (code: the connection handler).
THEOREM PlayersAreSubscribed == SocketsSpec => []SubscribedToOwnMatch
  <1>1. SocketsInv => SubscribedToOwnMatch
    <2> SUFFICES ASSUME SocketsInv, NEW m \in Fixtures, Active(m),
                        NEW c \in Owned(live[m].told) \ live[m].elsewhere,
                        conn[c].step = "ready"
                 PROVE  m \in conn[c].rooms \/ Pending(conn[c].at, "created", m)
      BY DEF SubscribedToOwnMatch
    <2>1. c \in Connections /\ conn[c] # None
      BY DEF Owned, Up
    <2>2. conn[c].found = {}
      BY <2>1 DEF SocketsInv, AllSound
    <2> QED BY <2>2 DEF SocketsInv, Subscribing
  <1> QED BY <1>1, SocketsInvariance, PTL

\* The picker hears his cards last, whichever processes announce the phase
\* (code: emitPickPhaseStarted, and the handler of discardMaps that lists the
\* picker's connections).
THEOREM PickersSeeTheirCards == SocketsSpec => []PickerSeesCards
  <1>1. SocketsInv => PickerSeesCards
    BY DEF SocketsInv
  <1> QED BY <1>1, SocketsInvariance, PTL

\* Every connection of the players to the process that ended their match is
\* told, or about to be (code: emitMatchFinished).
THEOREM ResultsReachPlayers == SocketsSpec => []ResultReachesProcess
  <1>1. SocketsInv => ResultReachesProcess
    BY DEF SocketsInv
  <1> QED BY <1>1, SocketsInvariance, PTL

\* With one process the exceptions of the two are empty: every connection of a
\* player is subscribed, and told (code: index.ts, whose rooms need no adapter
\* as long as there is one process).
THEOREM OneProcessTellsEverybody ==
    ASSUME \A i, j \in Processes : i = j
    PROVE  SocketsSpec =>
               [](\A m \in Fixtures : live[m] # None =>
                     /\ Active(m) => \A c \in Owned(live[m].told) :
                           conn[c].step = "ready" =>
                               m \in conn[c].rooms \/ Pending(conn[c].at, "created", m)
                     /\ \A c \in live[m].untold : ToTell(conn[c].at, m))
  <1> DEFINE Everybody ==
          \A m \in Fixtures : live[m] # None =>
              /\ Active(m) => \A c \in Owned(live[m].told) :
                    conn[c].step = "ready" =>
                        m \in conn[c].rooms \/ Pending(conn[c].at, "created", m)
              /\ \A c \in live[m].untold : ToTell(conn[c].at, m)
  <1>1. SocketsInv /\ SubscribedToOwnMatch => Everybody
    <2> SUFFICES ASSUME SocketsInv, SubscribedToOwnMatch,
                        NEW m \in Fixtures, live[m] # None
                 PROVE  /\ Active(m) => \A c \in Owned(live[m].told) :
                              conn[c].step = "ready" =>
                                  m \in conn[c].rooms \/ Pending(conn[c].at, "created", m)
                        /\ \A c \in live[m].untold : ToTell(conn[c].at, m)
      OBVIOUS
    <2>1. live[m].elsewhere = {}
      <3> SUFFICES ASSUME NEW c \in live[m].elsewhere PROVE FALSE
        OBVIOUS
      <3>1. c \in Connections
        BY DEF SocketsInv, SocketsTyped, Fixture
      <3>2. conn[c] # None /\ \E i \in Processes : i # conn[c].at
        BY DEF SocketsInv, AllSound, MatchSound
      <3>3. conn[c].at \in Processes
        BY <3>1, <3>2 DEF SocketsInv, SocketsTyped, Connection
      <3> QED BY <3>2, <3>3
    <2>2. ASSUME Active(m), NEW c \in Owned(live[m].told), conn[c].step = "ready"
          PROVE  m \in conn[c].rooms \/ Pending(conn[c].at, "created", m)
      BY <2>1, <2>2 DEF SubscribedToOwnMatch
    <2>3. ASSUME NEW c \in live[m].untold
          PROVE  ToTell(conn[c].at, m)
      BY <2>1 DEF SocketsInv, ResultReachesProcess, ToTell
    <2> QED BY <2>2, <2>3
  <1> QED BY <1>1, SocketsInvariance, PlayersAreSubscribed, PTL
=============================================================================
