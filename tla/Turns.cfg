SPECIFICATION FairSpec
CONSTANTS
    goalRequest = goalRequest  chat = chat  slice = slice
    None = None
    Msg = {goalRequest, chat, slice}
    Kind <- MCKind
    MaxIterations = 2
    MaxEmptyRetries = 2
    MaxLengthRecoveries = 1
    InjectionsPerTurn = 1
    InjectionCycles = 1
    QueueMax = 1
    FileCap = 3
    MaxTroubles = 1
    MaxArchived = 2
INVARIANTS
    TypeOK
    MarksFresh
    InterruptedTurnClosed
    SaidOnce
    FollowUpsFiled
PROPERTIES
    ImplementsConversation
    EveryTurnEnds
CHECK_DEADLOCK FALSE
