SPECIFICATION FairSpec
CONSTANTS
    v = v
    w = w
    real = real
    sim = sim
    c = c
    post = post
    None = None
    User = {v, w}
    Alert = {real}
    Simulated = {}
    Post = {}
    SeedRole <- Roles
    CustomerOf <- Customers
    EstateOwner <- Owners
    Preferences <- Everyone
    AllowUnauthenticated = FALSE
    MaxMishaps = 2
PROPERTIES ListenerReconnects
CHECK_DEADLOCK FALSE
