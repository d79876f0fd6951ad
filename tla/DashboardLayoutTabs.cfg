\* Two pages that may be open together.  "secrets" names a namespace and is a
\* widget this build does not have: withheld while access is revoked, else
\* dropped with a warning.
CONSTANTS
    Page = {p1, p2}
    Widget = {pods, secrets}
    Known = {pods}
    Namespaced = {secrets}
    Default = {}
    Copied = {}
    MaxRevision = 3
SPECIFICATION FairSpec
INVARIANTS ConflictIsReal
PROPERTIES NothingVanishesUnseen ImplementsHistory RequestsSettle
\* every page was left
CHECK_DEADLOCK FALSE
