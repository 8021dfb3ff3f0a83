\* The spans of two messages in one batch.
SPECIFICATION Spec
CONSTANTS
    Sent <- TwoMessages
    Normalize <- NormalizeOf
CHECK_DEADLOCK FALSE
INVARIANTS
    RootOfOwnTrace
