\* One slot for the trends and a family status, beside a cheap read; the page
\* renders, goes and comes back.
CONSTANTS
    Source = {trends, status, summary}
    Cheap = {summary}
    Sensitive = {trends}
    Discovery = {status}
    Optional = {trends}
    TimeRange = {h1, h24}
    None = None
    MaxConcurrent = 1
    RecheckTicks = 2
    MaxPageSteps = 3
SPECIFICATION FairCacheSpec
INVARIANTS AskedOrAnswered OnlyTheLayoutIsPolled SlotsCounted
PROPERTIES KeepsPolling
\* the page may be left for good
CHECK_DEADLOCK FALSE
