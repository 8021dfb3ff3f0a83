\* Everything five agents send, in every composition and order, some of it lost.
SPECIFICATION Spec
CONSTANTS
    Sent <- EveryAgent
    Normalize <- NormalizeOf
CHECK_DEADLOCK FALSE
INVARIANTS
    TurnsAreTrees
    ModelOfOwnTrace
    SlicesAreTrees
    FragmentsStand
    CountedOnce
    CallsShownOnce
    BoundsSound
    ArrivalOrderIrrelevant
    EveryRecordShownOnce
    BurstTracesStable
