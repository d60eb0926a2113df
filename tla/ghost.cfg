SPECIFICATION Spec
CONSTANTS
    Users = {u1, u2}
    Queues = {q1}
    Slots = {s1, s2}
    Games = {g1, g2}
    NoQueue = NoQueue
    Enabled = {"disconnect"}
SYMMETRY Symmetry
INVARIANTS DisconnectedIsOut
