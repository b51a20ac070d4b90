SPECIFICATION FairSpec
CONSTANTS
    ask = ask  other = other  away = away  plain = plain  report = report
    room = room  desk = desk  attic = attic
    x = x  y = y  None = None
    Turn = {ask, other, away, plain, report}
    Text = {x, y}
    ChatOf <- MCChatOf
    Streaming = {ask, other, away}
    OwnId <- MCOwnId
    OriginId <- MCOriginId
    Troubles <- MCTroubles
    MaxParts <- MCParts
    MaxSegments <- MCSegments
    MaxNotes <- MCNotes
    Reachable = {room, desk}
    Wants <- MCWants
    MaxAttempts = 2
    MaxFailures = 2
    Stoppable = TRUE
INVARIANTS
    SuppressedRepeats
    AnswerShownOnce
    CopiesBounded
PROPERTIES
    ImplementsFeed
    QueueDrains
CONSTRAINT OneScenario
CHECK_DEADLOCK FALSE
