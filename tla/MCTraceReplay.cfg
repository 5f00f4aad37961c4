CONSTANTS
    MaxTurns = 2
    MaxActions = 2
    MaxSessions = 2
    MaxSteps = 7
    Hints = {1}
SPECIFICATION TraceSpec
INVARIANTS
    StepsAreInTheirTurn
    LastSessionIsShown
    ResultsAnswerCalls
CHECK_DEADLOCK FALSE
