------------------------------- MODULE Pairing -------------------------------
(***************************************************************************)
(* What the queues promise, as if each operation were one step: a player   *)
(* waits where nobody else waits; whoever comes next plays with the one    *)
(* who waits, in a new match, and both have left that queue; nobody who    *)
(* waits is passed over, and nobody competes in two matches.               *)
(*                                                                         *)
(* There are no requests, transactions, locks, stale reads or crashes      *)
(* here.  Matchmaking implements this module under a refinement mapping.   *)
(***************************************************************************)
CONSTANTS Users,
          Queues,
          NoQueue   \* "does not wait", "not made by a queue"

VARIABLES waiting,  \* waiting[u]: the queue in which u waits
          matches   \* the matches with active players, and who made them

vars == <<waiting, matches>>

Idle(u) == waiting[u] = NoQueue
WaitIn(q) == {u \in Users : waiting[u] = q}
Free(u) == \A m \in matches : u \notin m.players
\* What is left of the entries when the users of U are out of their queues.
Without(U) == [u \in Users |-> IF u \in U THEN NoQueue ELSE waiting[u]]
\* A queue never has the players of a match that it has made.
MayWait(u, q) == \A m \in matches : u \in m.players => m.queue # q

Init ==
    /\ waiting = [u \in Users |-> NoQueue]
    /\ matches = {}

\* A player waits in a queue in which nobody waits.
Wait(u, q) ==
    /\ Idle(u) /\ MayWait(u, q)
    /\ WaitIn(q) = {}
    /\ waiting' = [waiting EXCEPT ![u] = q]
    /\ UNCHANGED matches

\* A player waits in the place of one who may not play (any more).
Replace(u, v, q) ==
    /\ Idle(u) /\ MayWait(u, q)
    /\ u # v /\ WaitIn(q) \subseteq {v}
    /\ waiting' = [Without({v}) EXCEPT ![u] = q]
    /\ UNCHANGED matches

\* A queue makes a match: of the player who comes and the one who waits (or has
\* just been taken out of the queue by somebody else), and of nobody else.
Meet(u, v, q) ==
    /\ u # v /\ Free(u) /\ Free(v)
    /\ Idle(u) /\ WaitIn(q) \subseteq {v}
    /\ matches' = matches \cup {[players |-> {u, v}, queue |-> q]}
    /\ waiting' = Without(WaitIn(q))

\* A developer who queued plays against an identity of his own; neither waits
\* in that queue afterwards, and all the others wait on.
Impersonate(u, v, q) ==
    /\ u # v /\ Free(u) /\ Free(v)
    /\ v \notin WaitIn(q)
    /\ matches' = matches \cup {[players |-> {u, v}, queue |-> q]}
    /\ \/ waiting' = Without({u})
       \/ u \notin WaitIn(q) /\ UNCHANGED waiting

\* A match of two identities of a developer, which concerns no queue.
Arrange(u, v) ==
    /\ u # v /\ Free(u) /\ Free(v)
    /\ matches' = matches \cup {[players |-> {u, v}, queue |-> NoQueue]}
    /\ UNCHANGED waiting

\* A player leaves, is restricted, or disconnects.
Withdraw(u) ==
    /\ ~Idle(u)
    /\ waiting' = Without({u})
    /\ UNCHANGED matches

Over(m) ==
    /\ matches' = matches \ {m}
    /\ UNCHANGED waiting

Next ==
    \/ \E u \in Users, q \in Queues : Wait(u, q)
    \/ \E u, v \in Users, q \in Queues :
          Replace(u, v, q) \/ Meet(u, v, q) \/ Impersonate(u, v, q)
    \/ \E u, v \in Users : Arrange(u, v)
    \/ \E u \in Users : Withdraw(u)
    \/ \E m \in matches : Over(m)

Spec == Init /\ [][Next]_vars
=============================================================================
