\* One caller, skewed timestamps, both timers; everything opened is offered in
\* the end, future-dated records too.
SPECIFICATION FairSpec
CONSTANTS
    Conversations <- MCConversations
    EventIds <- MCEventIds
    Workers = {w1}
    Batches <- Skewed
    Events <- SkewedEvents
    ReorderWindow = 1
    TurnTimeout = 2
    MaxEvents = 2
    MaxActiveTurns = 1
    UpstreamStopsFirst = TRUE
    MaxCalls = 3
    CallHorizon = 2
    MaxTime = 3
PROPERTIES
    SweepCapsAge
    EveryTurnSettles
