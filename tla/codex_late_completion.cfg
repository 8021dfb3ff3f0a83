\* A completion that arrives after the work it precedes.
SPECIFICATION Spec
CONSTANTS
    Conversations <- MCConversations
    Workers = {w1}
    Batches <- Scattered
    Events <- ScatteredEvents
    ReorderWindow = 1
    TurnTimeout = 2
    MaxEvents = 4
    MaxActiveTurns = 1
    UpstreamStopsFirst = TRUE
    MaxCalls = 3
    CallHorizon = 1
    MaxTime = 3
INVARIANTS
    LaterWorkReopensTurn
