SPECIFICATION HistorySpec
CONSTANTS
    MaxQuestions = 3
    MaxToolCalls = 0
INVARIANTS EditsTheChosen
CHECK_DEADLOCK FALSE
