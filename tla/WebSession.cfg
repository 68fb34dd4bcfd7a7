SPECIFICATION FairSpec
CONSTANTS
    v = v
    w = w
    t1 = t1
    t2 = t2
    None = None
    User = {v, w}
    MfaUser = {w}
    Token = {t1, t2}
    AllowUnauthenticated = FALSE
    MaxMishaps = 1
INVARIANTS TypeOK SocketIsOwn
PROPERTIES RetiredIsSignedOut SignedInIsServed
CHECK_DEADLOCK FALSE
