---------------------------- MODULE MCMatchEngine ----------------------------
EXTENDS MatchEngine, TLC
CONSTANTS c1, c2, w1, w2
Interchangeable == Permutations({c1, c2}) \cup Permutations({w1, w2})
=============================================================================
