SPECIFICATION Spec
CONSTANTS
  c1 = c1
  c2 = c2
  w1 = w1
  w2 = w2
  Clients = {c1}
  Workers = {w1}
  Nobody = Nobody
  HandSize = 1
  StartHealth = 1
  Enabled = {"pause","forfeit"}
  DiscardsOverlap = FALSE
  MaxVersion = 2
  MaxCrashes = 0
CHECK_DEADLOCK FALSE
PROPERTY ForfeitCompletes
