\* One caller, the records of a turn in every order, a choice of turns to evict, all the timers.
SPECIFICATION Spec
CONSTANTS
    Conversations <- MCConversations
    Workers = {w1}
    Batches <- Scattered
    Events <- ScatteredEvents
    ReorderWindow = 1
    TurnTimeout = 2
    MaxEvents = 4
    MaxActiveTurns = 2
    UpstreamStopsFirst = TRUE
    MaxCalls = 4
    CallHorizon = 1
    MaxTime = 3
INVARIANTS
    CompletionExact
    ShutdownDrains
PROPERTIES
    ClosedForCause
    QuietPeriodHonoured
