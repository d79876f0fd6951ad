\* Two presses among two texts, two clusters and two users of one browser.
CONSTANTS
    Text = {t1, t2}
    Cluster = {local, remote}
    Local = local
    User = {u1, u2}
    MaxPress = 2
SPECIFICATION Spec
SYMMETRY Renamings
CHECK_DEADLOCK FALSE
INVARIANTS RetryNeverAppliesTwice IdKeepsItsRequest
PROPERTIES AppliedWasPreviewed
