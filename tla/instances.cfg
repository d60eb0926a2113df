SPECIFICATION Spec
CONSTANTS
  c1 = c1
  c2 = c2
  w1 = w1
  w2 = w2
  Clients = {c1}
  Workers = {w1,w2}
  Nobody = Nobody
  HandSize = 1
  StartHealth = 2
  Enabled = {"forfeit"}
  DiscardsOverlap = FALSE
  MaxVersion = 8
  MaxCrashes = 1
CHECK_DEADLOCK FALSE
SYMMETRY Interchangeable
INVARIANTS PlayInv TypeOK RoundResolvedOnce RoundsContiguous PhaseHasTimer EndedMatchIsClosed
PROPERTIES NeverReopened
