\* Two calls by two identities, a cache of one entry.
CONSTANTS
    k1 = k1
    u1 = u1
    u2 = u2
    g1 = g1
    g2 = g2

    Cluster = {k1}
    Identity = {u1, u2}
    Getter = {g1, g2}
    MaxEntries = 1
    MaxWrites = 2
    MaxGen = 2
SPECIFICATION FairSpec
INVARIANTS ReadsWhatEvictionVouchesFor OwnView Bounded
PROPERTIES GetsReturn
\* all calls made and every bound reached
CHECK_DEADLOCK FALSE
