\* Everything closed is offered in the end.
SPECIFICATION FairSpec
CONSTANTS
    Conversations <- MCConversations
    Workers = {w1, w2}
    Batches <- Brief
    Events <- BriefEvents
    ReorderWindow = 0
    TurnTimeout = 1
    MaxEvents = 3
    MaxActiveTurns = 1
    UpstreamStopsFirst = TRUE
    MaxCalls = 2
    CallHorizon = 1
    MaxTime = 2
PROPERTIES
    EveryTurnSettles
    ShutdownCompletes
