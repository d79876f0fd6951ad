\* Two refreshes by the API and the socket client over a chain of three tokens.
CONSTANTS
    t1 = t1
    t2 = t2
    t3 = t3
    r1 = r1
    r2 = r2
    Token = {t1, t2, t3}
    Request = {r1, r2}
    Provider = {"local", "oidc", "ldap"}
    Lifetime <- Lifetimes
    Grace = 1
    MaxTime = 2
SPECIFICATION BrowserSpec
SYMMETRY Interchangeable
INVARIANTS OneSuccessor StillUsable GraceBounded CallsShareARefresh
CHECK_DEADLOCK FALSE
