SPECIFICATION FrontSpec
CONSTANTS
    Docs = {1, 2}
    PAGE = 1
    MaxTicket = 3
    Drafts = {1}
    SearchTexts = {"", "x"}
    MaxSessions = 2
    MaxTurns = 3
    Tolerated = 1
    RowIds = {1, 2}
    Stocked = {1}
    Texts = {1, 2}
    MaxClicks = 3
    Types = {"a", "b"}
    MaxSaves = 2
    Tasks = {1, 2, 3}
    Verified = {2}
    MaxMoves = 6
    MaxAsked = 2
    Items = {1}
    MaxPrompts = 1
    MaxVisits = 2
    MaxLoops = 1
    MaxWrites = 2
    MaxReads = 3
    Tabs = {1, 2}
    OPTIONAL_LOCALES = {"fr", "ru"}
    People = {"A", "B"}
    MaxMe = 3
CHECK_DEADLOCK FALSE
INVARIANT NeverResurrected
