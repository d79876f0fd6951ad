CONSTANTS
    c1 = c1
    i1 = i1
    Client = {c1}
    Kind = {"pods"}
    AlwaysAllow = {}
    Namespace = {}
    AllNs = "all"
    SubId = {i1}
    MaxClients = 1
    MaxSubs = 1
    SendCap = 1
    QueueCap = 1
    EventCap = 1
SPECIFICATION Spec
INVARIANT HubSurvives
\* the hub may be shut down, or end in a panic
CHECK_DEADLOCK FALSE
