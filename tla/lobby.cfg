SPECIFICATION Spec
CONSTANTS
    Users = {u1, u2, u3}
    Queues = {q1, q2}
    Slots = {s1, s2}
    Games = {g1, g2}
    NoQueue = NoQueue
    Enabled = {"leave", "mock", "moderation", "disconnect", "refusal", "crash"}
VIEW WithoutHistory
SYMMETRY Symmetry
INVARIANTS MatchmakingInv OneMatchEach AtMostOneWaits MatchedIsDequeued
PROPERTY ImplementsPairing
