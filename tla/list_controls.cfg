SPECIFICATION ListAlone
CONSTANTS
    Docs = {1, 2}
    PAGE = 1
    MaxTicket = 3
    Drafts = {1}
    SearchTexts = {"", "x"}
CHECK_DEADLOCK FALSE
INVARIANT RowsAnswerControls
