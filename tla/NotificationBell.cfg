SPECIFICATION FairBellSpec
CONSTANTS
    v = v
    w = w
    real = real
    sim = sim
    c = c
    post = post
    None = None
    User = {v, w}
    Viewer = v
    Alert = {real, sim}
    Simulated = {sim}
    Post = {}
    SeedRole <- Roles
    CustomerOf <- Customers
    EstateOwner <- Owners
    Preferences <- Everyone
    AllowUnauthenticated = FALSE
    MaxMishaps = 1
    MaxClicks = 2
INVARIANTS BellTypeOK 
PROPERTIES CountCatchesUp
CHECK_DEADLOCK FALSE
