SPECIFICATION Spec
CONSTANTS
    Always = {"resource service.name", "gen_ai.operation.name"}
    WiresOf <- MCWires
CHECK_DEADLOCK FALSE
INVARIANTS
    Contract
    CountersKept
    CanonicalKeyWins
    ConversationKept
