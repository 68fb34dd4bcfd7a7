SPECIFICATION Spec
CONSTANTS
    home = home
    other = other
    s0 = s0
    s1 = s1
    s2 = s2
    p = p
    g = g
    r = r
    h1 = h1
    h2 = h2
    Estate = {home, other}
    Site = {s0, s1, s2}
    Package = {p}
    Group = {g}
    Rollout = {r}
    Home = home
    Occupied = {s0}
    Handler = {h1, h2}
    MaxAborts = 1
SYMMETRY Symmetry
INVARIANTS TypeOK DeletionsLogged
PROPERTIES KeepsReferences LoneChangeCounts
CHECK_DEADLOCK FALSE
