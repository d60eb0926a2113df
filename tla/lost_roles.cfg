SPECIFICATION AccountsSpec
CONSTANTS
    None = None
    Slots = {s1, s2}
    Rows = {a1, a2}
    AdminRow = a1
    People = {p1}
    AdminPerson = p1
    Platforms = {w1}
    Platform = w1
    Tokens <- Presented
    Granted <- FromWebsite
    SeasonNames = {q1}
    States = {o1}
    Patches = {}
    MaxEdits = 0
PROPERTY AuthorizationSurvivesLogins
