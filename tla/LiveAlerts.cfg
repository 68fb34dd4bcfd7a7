SPECIFICATION FairSpec
CONSTANTS
    v = v
    w = w
    stored = stored
    sim = sim
    real = real
    None = None
    Operator = {v, w}
    Stored = {stored}
    Live = {sim, real}
    Simulated = {sim}
    MaxListed = 1
    MaxClicks = 2
    MaxMishaps = 3
INVARIANTS TypeOK HistoryIsTimeline ListMatchesStore OwnChangesListed
PROPERTIES ReopenedUnseen PageCatchesUp
CHECK_DEADLOCK FALSE
