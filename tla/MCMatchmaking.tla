---------------------------- MODULE MCMatchmaking ----------------------------
(* Model values for Matchmaking; users, queues, slots and match names are    *)
(* interchangeable.                                                          *)
EXTENDS Matchmaking, TLC

Symmetry == Permutations(Users) \cup Permutations(Queues)
                \cup Permutations(Slots) \cup Permutations(Games)

\* Nothing that `lobby` checks depends on the history variable.
WithoutHistory == <<queued, games, restricted, req>>
=============================================================================
