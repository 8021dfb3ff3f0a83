\* Two callers, two payloads with more records than a turn has room for, turns
\* that close at any time, refusals, retries, and a shutdown that may time out.
SPECIFICATION Spec
CONSTANTS
    Callers = {c1, c2}
    Payloads <- Wire
    MaxEvents = 2
    MaxCalls = 3
    MaxClock = 2
SYMMETRY CallerSymmetry
INVARIANTS
    TypeOK
    OneEdgeIfNamesAgree
    AckedMeansTaken
    GivingUpKeepsCodex
    DatedRetainedOnce
