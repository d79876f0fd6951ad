\* Two tabs of the owner and two documents, of which one is a workload.
CONSTANTS
    Owner = {alice}
    Body = {bundle}
    DocCount = 2
    Poller = {tab1, tab2}
    Persister = {tab1, tab2}
    Supported <- FirstDoc
SPECIFICATION Spec
SYMMETRY Tabs
INVARIANTS OwnerAnswersAgree AuditNamesTheVerdict VerdictEarned WindowDecides
