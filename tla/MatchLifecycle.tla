--------------------------- MODULE MatchLifecycle ---------------------------
(***************************************************************************)
(* What a match that nobody forfeits, pauses or aborts promises its two    *)
(* players: discards, then rounds of a pick, a play and a results display, *)
(* each round applied to the health exactly once, until somebody is        *)
(* knocked out or the hands are empty; then one result, for good.          *)
(*                                                                         *)
(* There are no transactions, timers, instances or crashes here.           *)
(* MatchEngine implements this module under a refinement mapping.          *)
(***************************************************************************)
EXTENDS Naturals

CONSTANTS Player,       \* the two competitors
          Red,          \* the one who picks the odd rounds
          Nobody,       \* "no winner"
          LastRound,    \* the number of cards in both hands
          StartHealth

VARIABLES phase,    \* matches.status
          round,    \* matches.current_round
          health,   \* match_participants.health
          cards,    \* how many cards each player has left
          winner    \* matches.winner_user_guid

vars == <<phase, round, health, cards, winner>>

Init ==
    /\ phase = "awaiting_discards"
    /\ round = 0
    /\ health = [p \in Player |-> StartHealth]
    /\ cards = [p \in Player |-> LastRound \div 2]
    /\ winner = Nobody

FinishDiscards ==
    /\ phase = "awaiting_discards"
    /\ phase' = "awaiting_pick"
    /\ UNCHANGED <<round, health, cards, winner>>

\* The players pick in turns, each round with a card of the picker's own.
Pick ==
    /\ phase = "awaiting_pick"
    /\ \E p \in Player :
        /\ (p = Red) = (round % 2 = 0)
        /\ cards[p] > 0
        /\ cards' = [cards EXCEPT ![p] = @ - 1]
    /\ phase' = "awaiting_scores"
    /\ round' = round + 1
    /\ UNCHANGED <<health, winner>>

\* At most one player is hurt by a round, and nobody is healed.
Hurt ==
    /\ \A p \in Player : health'[p] \in 0 .. health[p]
    /\ \E p \in Player : health'[p] = health[p]

\* A round leaves both players standing and cards to play.
PlayOn ==
    /\ phase = "awaiting_scores"
    /\ round < LastRound
    /\ health' \in [Player -> 1 .. StartHealth] /\ Hurt
    /\ phase' = "round_results"
    /\ UNCHANGED <<round, cards, winner>>

\* A round ends the match: the healthier player has won, unless they tie.
Finish ==
    /\ phase = "awaiting_scores"
    /\ health' \in [Player -> 0 .. StartHealth] /\ Hurt
    /\ round = LastRound \/ \E p \in Player : health'[p] = 0
    /\ winner' \in Player \cup {Nobody}
    /\ \A p, q \in Player : health'[p] > health'[q] => winner' = p
    /\ (\A p, q \in Player : health'[p] = health'[q]) => winner' = Nobody
    /\ phase' = "completed"
    /\ UNCHANGED <<round, cards>>

ShowNextPick ==
    /\ phase = "round_results"
    /\ phase' = "awaiting_pick"
    /\ UNCHANGED <<round, health, cards, winner>>

Next == FinishDiscards \/ Pick \/ PlayOn \/ Finish \/ ShowNextPick

\* Every match is carried to its end, whatever the players do or fail to do.
Spec == Init /\ [][Next]_vars
FairSpec == Spec /\ WF_vars(Next)
=============================================================================
