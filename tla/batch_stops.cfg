SPECIFICATION BatchAlone
CONSTANTS
    Items = {1, 2}
    MaxPrompts = 2
    MaxVisits = 2
    MaxLoops = 2
CHECK_DEADLOCK FALSE
PROPERTY RunOutlastsFailure
