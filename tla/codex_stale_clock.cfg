\* Two callers: the clock is read before the mutex is taken.
SPECIFICATION Spec
CONSTANTS
    Conversations <- MCConversations
    Workers = {w1, w2}
    Batches <- Scattered
    Events <- ScatteredEvents
    ReorderWindow = 1
    TurnTimeout = 2
    MaxEvents = 4
    MaxActiveTurns = 1
    UpstreamStopsFirst = TRUE
    MaxCalls = 2
    CallHorizon = 1
    MaxTime = 2
PROPERTIES
    QuietPeriodHonoured
