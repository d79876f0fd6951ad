\* One replica whose intents do not fit a batch; every failure is retried.
CONSTANTS
    Replica = {r1}
    Condition = {overdue}
    Policy = {daily}
    MaxAttempts = 2
    Batch = 1
    Overlap = FALSE
    Caching = TRUE
    MaxRows = 3
    MaxFence = 1
    MaxFailures = 1
    MaxChanges = 2
SPECIFICATION FairSpec
PROPERTIES Converges PendingEnds
