\* Requests of every kind, and whatever the model plans for them.
SPECIFICATION Spec
CONSTANTS
    Requests <- ManyRequests
    Drafts <- SomeDrafts
INVARIANTS
    StepBudget
    CallBudget
    StepCountIsTrace
    CompletedIsVerified
    FailureEndsRun
PROPERTIES
    EveryRunEnds
CHECK_DEADLOCK FALSE
