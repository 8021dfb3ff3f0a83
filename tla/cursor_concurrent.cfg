\* Two callers, the sweeper and the host; nothing orders callers and shutdown.
SPECIFICATION Spec
CONSTANTS
    Conversations <- MCConversations
    EventIds <- MCEventIds
    Workers = {w1, w2}
    Batches <- Crossing
    Events <- CrossingEvents
    ReorderWindow = 0
    TurnTimeout = 1
    MaxEvents = 2
    MaxActiveTurns = 1
    UpstreamStopsFirst = FALSE
    MaxCalls = 3
    CallHorizon = 0
    MaxTime = 1
SYMMETRY WorkerSymmetry
INVARIANTS
    TypeOK
    BurstsConsistent
PROPERTIES
    LedgerSpec
