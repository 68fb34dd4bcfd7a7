SPECIFICATION Spec
CONSTANTS
    v = v
    w = w
    real = real
    sim = sim
    c = c
    post = post
    None = None
    User = {v, w}
    Alert = {real, sim}
    Simulated = {sim}
    Post = {post}
    SeedRole <- Roles
    CustomerOf <- Customers
    EstateOwner <- Owners
    Preferences <- Unruled
    AllowUnauthenticated = FALSE
    MaxMishaps = 2
INVARIANTS TypeOK AnnouncedIsStored
PROPERTIES DeliversLikeAMailbox
CHECK_DEADLOCK FALSE
