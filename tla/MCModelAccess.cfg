CONSTANTS
    Keys = {"area", "kind"}
    Values = {"a", "A", "b"}
    Lower <- MCLower
    Definitions = {"kind"}
    Limit = 2
    Objects <- MCObjects
    Payload <- MCPayload
    Replies <- MCReplies
    Lengths = {0, 2, 3}
    Configured = 0
    MaxRequests = 2
    MaxRestarts = 1
SPECIFICATION Spec
INVARIANTS
    WrappedIsRead
    AnswerIsUsed
    StoredVectorsAgree
CHECK_DEADLOCK FALSE
