\* One text on one cluster, pressed twice by one user.
CONSTANTS
    Text = {t1}
    Cluster = {local}
    Local = local
    User = {u1}
    MaxPress = 2
SPECIFICATION Spec
CHECK_DEADLOCK FALSE
INVARIANTS MayHaveAppliedIsShown
