\* Every group of up to three spans alone, and pairs of groups of one agent;
\* any edge may be refused, the payload sent again or given up.
SPECIFICATION Spec
CONSTANTS
    Payloads <- SmallPayloads
    MaxPayloads = 1
CHECK_DEADLOCK FALSE
INVARIANTS
    GenAIYields
    SpanTwiceOnlyByCodex
    AckedMeansEmitted
