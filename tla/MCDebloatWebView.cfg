CONSTANTS
    b = b
    s = s
    f = f
    o = o
    Bloat <- MCBloat
    Store <- MCStore
    Framework <- MCFramework
    Other <- MCOther
    Needs <- MCNeeds
    Services <- MCServices
SPECIFICATION Spec
INVARIANTS
    WebViewRemoved
CHECK_DEADLOCK FALSE
