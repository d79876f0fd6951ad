\* Two replicas whose leases expire under them, one condition that comes and
\* goes, and a failure of any kind.
CONSTANTS
    Replica = {r1, r2}
    Condition = {overdue}
    Policy = {policy}
    MaxAttempts = 2
    Batch = 3
    Overlap = TRUE
    Caching = FALSE
    MaxRows = 3
    MaxFence = 2
    MaxFailures = 1
    MaxChanges = 1
SPECIFICATION Spec
SYMMETRY Replicas
INVARIANTS OneOpenPerCondition IntentPerTransition SendsBounded DeliveredWasCarried
PROPERTIES ResolvedOnEvidence
