\* A judged statement, a finished listing and a call that replied stop.
SPECIFICATION Spec
CONSTANTS
    Scopes <- SmallScopes
    MaxKey = 4
    Limits = {0, 1, 2, 3, 5}
    MaxChanges = 2
    GwScenes <- SmallGateways
    GwPlugins = {p1, p2}
    GwKeys = {"n1", "n2"}
    GwChars = {"/", "a", "b"}
    NoPlugin = NoPlugin
INVARIANTS VerdictAgrees ListingComplete ChainDecides LookupAgrees
CHECK_DEADLOCK FALSE
